----------------------------- MODULE Submissions -----------------------------
(***************************************************************************)
(* Receipts, source snapshots, deadlines and the final selection           *)
(* (crates/store/src/submissions.rs, the webhook and submit handlers of    *)
(* crates/web/src/routes.rs, snapshot, observe and sync_inner of           *)
(* crates/cli/src/lifecycle.rs, select_submission of crates/cli/src/main.rs).*)
(*                                                                         *)
(* A receipt is stamped when the handler starts (webhook) or after the     *)
(* branch was read (registration) and recorded by a later transaction, so  *)
(* receipts of one repository may be recorded in any order.  A stamp       *)
(* identifies a receipt of a repository, its event row and the submission  *)
(* made from it: no two receipts of a repository share a microsecond.      *)
(*                                                                         *)
(* record, close and extend read the deadline and lock the repository row  *)
(* in one statement (FOR UPDATE OF r).  PostgreSQL gives such a statement  *)
(* the newest repository row but the extensions row of the snapshot taken  *)
(* when the statement began, so each has two steps here: Begin... reads    *)
(* the deadline, the other one reads closure_due and commits.              *)
(*                                                                         *)
(* schedule_snapshots runs under an advisory lock of the enrollment, but   *)
(* its statements see what other transactions commit between them.  It     *)
(* has a step for the update that cancels, one for the count, and one for  *)
(* the selection, the inserts and the commit.                              *)
(*                                                                         *)
(* The lease protocol and the retry budget of snapshot tasks are in        *)
(* TaskQueue; here a failure puts the task back or ends it, by choice.     *)
(***************************************************************************)
EXTENDS Integers, FiniteSets, FiniteSetsExt

CONSTANTS Repo,          \* student repositories
          EnrollmentOf,  \* the enrollment of each repository
          Sha,           \* commits a branch may point to
          None,          \* SQL NULL
          MaxTime,       \* bound on the clock, and so on the receipts
          Opens,         \* opens_at of the assignment
          Deadline,      \* deadline of the assignment revision
          MaxEvents,     \* bound on receipts and observations in all
          MaxInFlight,   \* bound on the handlers under way
          MaxExtending,  \* bound on the deadlines extends under way have read
          MaxFetching,   \* worker loops: each processes one fetch at a time
          MaxActive      \* active fetches scheduled per enrollment (8)

Stamp == 1..MaxTime
Enrollment == {EnrollmentOf[r] : r \in Repo}
Status == {"absent", "pending", "leased", "done", "failed", "cancelled"}
Event == [sha : Sha, eligible : BOOLEAN]
Receipt == [repo : Repo, sha : Sha, at : Stamp,
            source : {"webhook", "registration"}, seen : Stamp \cup {None}]
Scheduling == [enrollment : Enrollment, of : Receipt \cup {None},
               cancel : SUBSET (Repo \X Stamp), active : Nat \cup {None}]

ASSUME SubmissionsAssumption ==
    /\ IsFiniteSet(Repo)
    /\ MaxTime \in Nat \ {0}
    /\ None \notin Stamp
    /\ None \notin Event
    /\ None \notin Receipt
    /\ Opens \in Stamp
    /\ Deadline \in [Repo -> Stamp]
    /\ MaxEvents \in Nat
    /\ MaxInFlight \in Nat
    /\ MaxExtending \in Nat
    /\ MaxFetching \in Nat
    /\ MaxActive \in Nat

VARIABLES now,        \* the clock
          deadline,   \* effective deadline, with the extension if there is one
          closed,     \* closure_due
          final,      \* final_submission_id
          review,     \* needs_review
          events,     \* submission_events, by stamp
          subs,       \* submissions: the stamps of the events they were made of
          captured,   \* submissions whose source_digest is set
          task,       \* status of the snapshot task of each submission
          fetch,      \* who processes it: the lease holder, a stale worker
          sched,      \* schedule_snapshots under way, each with its advisory lock
          admitted,   \* repositories with a submit that passed its checks
          inflight,   \* receipts stamped and not yet recorded
          closing,    \* a close that has found the deadline passed
          extending,  \* deadlines that the extends under way have read
          selected,   \* an audited submission.select happened
          late,       \* history: a receipt was recorded after a later one
          restored    \* history: fetches put back since the count of a scheduling

repository == <<deadline, closed, final, review>>
fetches == <<task, fetch>>
receipts == <<admitted, inflight>>
deciding == <<closing, extending>>
history == <<selected, late, restored>>
vars == <<now, repository, events, subs, captured, fetches, sched, receipts, deciding,
          history>>

TypeOK ==
    /\ now \in Stamp
    /\ deadline \in [Repo -> Stamp]
    /\ closed \in [Repo -> BOOLEAN]
    /\ final \in [Repo -> Stamp \cup {None}]
    /\ review \in [Repo -> BOOLEAN]
    /\ events \in [Repo -> [Stamp -> Event \cup {None}]]
    /\ subs \in [Repo -> SUBSET Stamp]
    /\ captured \in [Repo -> SUBSET Stamp]
    /\ task \in [Repo -> [Stamp -> Status]]
    /\ fetch \in [Repo -> [Stamp -> SUBSET {"live", "stale"}]]
    /\ sched \subseteq Scheduling
    /\ admitted \subseteq Repo
    /\ inflight \subseteq Receipt
    /\ closing \in [Repo -> BOOLEAN]
    /\ extending \in [Repo -> SUBSET Stamp]
    /\ selected \in [Repo -> BOOLEAN]
    /\ late \in [Repo -> BOOLEAN]
    /\ restored \subseteq Repo \X Stamp

Init ==
    /\ now = 1
    /\ deadline = Deadline
    /\ closed = [r \in Repo |-> FALSE]
    /\ final = [r \in Repo |-> None]
    /\ review = [r \in Repo |-> FALSE]
    /\ events = [r \in Repo |-> [n \in Stamp |-> None]]
    /\ subs = [r \in Repo |-> {}]
    /\ captured = [r \in Repo |-> {}]
    /\ task = [r \in Repo |-> [n \in Stamp |-> "absent"]]
    /\ fetch = [r \in Repo |-> [n \in Stamp |-> {}]]
    /\ sched = {}
    /\ admitted = {}
    /\ inflight = {}
    /\ closing = [r \in Repo |-> FALSE]
    /\ extending = [r \in Repo |-> {}]
    /\ selected = [r \in Repo |-> FALSE]
    /\ late = [r \in Repo |-> FALSE]
    /\ restored = {}

-----------------------------------------------------------------------------
(* Snapshot scheduling.                                                    *)

\* ORDER BY received_at DESC LIMIT 1.
IsNewest(S, n) == n \in S /\ \A m \in S : m <= n

\* What refill_snapshots and schedule_snapshots look for: an uncaptured
\* submission, final or the newest of an open repository, without a task row.
Wanted(S, r, n) ==
    /\ n \in S
    /\ n \notin captured[r]
    /\ n = final[r] \/ (~closed[r] /\ IsNewest(S, n))
    /\ task[r][n] = "absent"

\* The order in which they are taken: final ones first, then the latest.
Before(p, q) ==
    LET pf == p[2] = final[p[1]]
        qf == q[2] = final[q[1]]
    IN (pf /\ ~qf) \/ (pf = qf /\ p[2] > q[2])

\* Mutant: spares only the newest submission of an open repository.
ObsoleteOnceClosed(S, r, n) == task[r][n] = "pending" /\ ~(~closed[r] /\ IsNewest(S, n))

\* A pending fetch that scheduling cancels.
Obsolete(S, r, n) ==
    /\ task[r][n] = "pending"
    /\ n # final[r]
    /\ ~IsNewest(S, n)

\* Mutant: leased fetches are not counted.
CountsPending(r, n) == task[r][n] = "pending"

\* A fetch that takes one of the places of the enrollment.
Counts(r, n) == task[r][n] \in {"pending", "leased"}

\* The submissions of an enrollment, when S is what subs is to be.
Rows(e, S) == {p \in Repo \X Stamp : EnrollmentOf[p[1]] = e /\ p[2] \in S[p[1]]}

\* The repository row is not locked by a record that schedules.
RowFree(r) == \A s \in sched : s.of # None => s.of.repo # r

\* The task row is not locked by a scheduling that is about to cancel it.
TaskFree(r, n) == \A s \in sched : <<r, n>> \notin s.cancel

\* schedule_snapshots has the advisory lock; its update finds what is obsolete.
StartSchedule(e, S, of) ==
    /\ \A s \in sched : s.enrollment # e
    /\ sched' = sched \cup
         {[enrollment |-> e, of |-> of, active |-> None,
           cancel |-> {p \in Rows(e, S) : Obsolete(S[p[1]], p[1], p[2])}]}

\* The fetches put back that belong to other enrollments.
RestoredElsewhere(e) == {p \in restored : EnrollmentOf[p[1]] # e}

\* Its count of the active fetches.
CountFetches(s) ==
    /\ s.active = None
    /\ sched' = (sched \ {s}) \cup
         {[s EXCEPT !.active = Cardinality({p \in Rows(s.enrollment, subs) \ s.cancel :
                                              Counts(p[1], p[2])})]}
    /\ restored' = RestoredElsewhere(s.enrollment)
    /\ UNCHANGED <<now, repository, events, subs, captured, fetches, receipts, deciding, selected,
                   late>>

\* Its selection and inserts: the free places are filled.
FillPlaces(s, S) ==
    LET wanted == {p \in Rows(s.enrollment, S) : Wanted(S[p[1]], p[1], p[2])}
        free == IF s.active < MaxActive THEN MaxActive - s.active ELSE 0
    IN /\ s.active # None
       /\ sched' = sched \ {s}
       /\ restored' = RestoredElsewhere(s.enrollment)
       /\ \E new \in SUBSET wanted :
            /\ Cardinality(new) = Min({free, Cardinality(wanted)})
            /\ \A p \in new, q \in wanted \ new : ~Before(q, p)
            /\ task' = [q \in Repo |-> [n \in Stamp |->
                          IF <<q, n>> \in s.cancel THEN "cancelled"
                          ELSE IF <<q, n>> \in new THEN "pending"
                          ELSE task[q][n]]]

\* refill_snapshots, at the top of every worker round and of every sync, lists
\* the repositories that want a fetch and schedules for each, in a transaction
\* of its own.  The list may be old by then: a transaction that finds nothing
\* to add still cancels what is obsolete.
StartRefill(e) ==
    /\ {p \in Rows(e, subs) : \/ Wanted(subs[p[1]], p[1], p[2])
                              \/ Obsolete(subs[p[1]], p[1], p[2])} # {}
    /\ StartSchedule(e, subs, None)
    /\ UNCHANGED <<now, repository, events, subs, captured, fetches, receipts, deciding, history>>

FinishRefill(s) ==
    /\ s.of = None
    /\ FillPlaces(s, subs)
    /\ UNCHANGED <<now, repository, events, subs, captured, fetch, receipts, deciding,
                   selected, late>>

\* The process dies before it commits.
DropRefill(s) ==
    /\ s.of = None
    /\ sched' = sched \ {s}
    /\ restored' = RestoredElsewhere(s.enrollment)
    /\ UNCHANGED <<now, repository, events, subs, captured, fetches, receipts,
                   deciding, selected, late>>

-----------------------------------------------------------------------------
(* Receipts.                                                               *)

\* No receipt of the repository carries this stamp yet.
FreshStamp(r) ==
    /\ Cardinality({p \in Repo \X Stamp : events[p[1]][p[2]] # None})
         + Cardinality(inflight) < MaxEvents
    /\ events[r][now] = None
    /\ \A m \in inflight : ~(m.repo = r /\ m.at = now)

\* submit looks at closure_due and the deadline ...
Admit(r) ==
    /\ r \notin admitted
    /\ Cardinality(inflight) + Cardinality(admitted) < MaxInFlight
    /\ ~closed[r] /\ now <= deadline[r]
    /\ admitted' = admitted \cup {r}
    /\ UNCHANGED <<now, repository, events, subs, captured, fetches, sched, inflight, deciding,
                   history>>

Stamped(r, sha, source) ==
    /\ FreshStamp(r)
    /\ inflight' = inflight \cup
         {[repo |-> r, sha |-> sha, at |-> now, source |-> source, seen |-> None]}
    /\ UNCHANGED <<now, repository, events, subs, captured, fetches, sched, deciding, history>>

\* ... asks GitHub for the SHA, in vain ...
Abandon(r) ==
    /\ r \in admitted
    /\ admitted' = admitted \ {r}
    /\ UNCHANGED <<now, repository, events, subs, captured, fetches, sched, inflight, deciding,
                   history>>

\* ... or not, and only then stamps the receipt.
Register(r, sha) ==
    /\ r \in admitted
    /\ admitted' = admitted \ {r}
    /\ Stamped(r, sha, "registration")

\* Mutant: the push is passed on with the source of an observation.
PushAsObservation(r, sha) ==
    /\ Cardinality(inflight) + Cardinality(admitted) < MaxInFlight
    /\ Stamped(r, sha, "reconciliation")
    /\ UNCHANGED admitted

\* webhook stamps the push it was sent first of all.
Push(r, sha) ==
    /\ Cardinality(inflight) + Cardinality(admitted) < MaxInFlight
    /\ Stamped(r, sha, "webhook")
    /\ UNCHANGED admitted

\* record starts: its statement takes its snapshot of the deadline.
Begin(m) ==
    /\ m.seen = None
    /\ inflight' = (inflight \ {m}) \cup {[m EXCEPT !.seen = deadline[m.repo]]}
    /\ UNCHANGED <<now, repository, events, subs, captured, fetches, sched, admitted, deciding,
                   history>>

\* The transaction is rolled back: the handler failed or its process died.
Drop(m) ==
    /\ inflight' = inflight \ {m}
    /\ sched' = {s \in sched : s.of # m}
    /\ restored' = IF \E s \in sched : s.of = m THEN RestoredElsewhere(EnrollmentOf[m.repo])
                   ELSE restored
    /\ UNCHANGED <<now, repository, events, subs, captured, fetches, admitted,
                   deciding, selected, late>>

InWindow(m) == Opens <= m.at /\ m.at <= m.seen

\* Mutant: closure_due is not looked at.
EligibleAfterClosure(m) == InWindow(m)

Eligible(m) == InWindow(m) /\ ~closed[m.repo]

\* Mutant: any submission of the SHA is reused.
HasSubmission(m) == \E n \in subs[m.repo] : events[m.repo][n].sha = m.sha

\* The newest submission has the SHA of the receipt.
SameAsNewest(m) ==
    \E n \in subs[m.repo] : IsNewest(subs[m.repo], n) /\ events[m.repo][n].sha = m.sha

\* Mutant: a receipt after closure is not flagged.
NeedsReviewIfLate(m) == m.source = "webhook" /\ m.at > m.seen

\* What an ineligible receipt asks a review for.
NeedsReview(m) == closed[m.repo] \/ (m.source = "webhook" /\ m.at > m.seen)

\* The event row, as it is when record commits.
AddEvent(m, eligible) ==
    /\ inflight' = inflight \ {m}
    /\ events' = [events EXCEPT ![m.repo][m.at] = [sha |-> m.sha, eligible |-> eligible]]
    /\ late' = [late EXCEPT ![m.repo] =
                  @ \/ \E n \in Stamp : n > m.at /\ events[m.repo][n] # None]

\* record, once it has the row lock: an event for review, or one more event of
\* the newest submission.
Record(m) ==
    /\ m.seen # None /\ RowFree(m.repo)
    /\ AddEvent(m, Eligible(m))
    /\ \/ /\ ~Eligible(m)
          /\ review' = [review EXCEPT ![m.repo] = @ \/ NeedsReview(m)]
       \/ /\ Eligible(m) /\ SameAsNewest(m)
          /\ UNCHANGED review
    /\ UNCHANGED <<now, deadline, closed, final, subs, captured, fetches, sched, admitted,
                   deciding, selected, restored>>

\* Or a new submission: record keeps the row lock, and waits for the advisory
\* lock.  (Nothing about the repository changes while it waits.)
StartRecord(m) ==
    /\ m.seen # None /\ RowFree(m.repo)
    /\ Eligible(m) /\ ~SameAsNewest(m)
    /\ StartSchedule(EnrollmentOf[m.repo], [subs EXCEPT ![m.repo] = @ \cup {m.at}], m)
    /\ UNCHANGED <<now, repository, events, subs, captured, fetches, receipts,
                   deciding, history>>

FinishRecord(s) ==
    /\ s.of # None
    /\ AddEvent(s.of, TRUE)
    /\ subs' = [subs EXCEPT ![s.of.repo] = @ \cup {s.of.at}]
    /\ FillPlaces(s, subs')
    /\ UNCHANGED <<now, repository, captured, fetch, admitted, deciding, selected>>

\* webhook for a deleted branch.
BranchDeleted(r) ==
    /\ RowFree(r)
    /\ review' = [review EXCEPT ![r] = TRUE]
    /\ UNCHANGED <<now, deadline, closed, final, events, subs, captured, fetches, sched,
                   receipts, deciding, history>>

\* observe finds a branch SHA no receipt has named: an event for review.  (The
\* commit provisioning seeded is in observed_sha; Sha holds the others.)
Reconcile(r, sha) ==
    /\ RowFree(r)
    /\ FreshStamp(r)
    /\ \A n \in Stamp : events[r][n] # None => events[r][n].sha # sha
    /\ events' = [events EXCEPT ![r][now] = [sha |-> sha, eligible |-> FALSE]]
    /\ review' = [review EXCEPT ![r] = TRUE]
    /\ UNCHANGED <<now, deadline, closed, final, subs, captured, fetches, sched, receipts,
                   deciding, history>>

-----------------------------------------------------------------------------
(* Source capture: the snapshot task of submission n of repository r.      *)

Live(r, n) == "live" \in fetch[r][n]

\* Every processing, of a lease holder or a stale worker, occupies a loop.
Processing == {p \in Repo \X Stamp \X {"live", "stale"} : p[3] \in fetch[p[1]][p[2]]}

StartFetch(r, n) ==
    /\ TaskFree(r, n)
    /\ Cardinality(Processing) < MaxFetching
    /\ task[r][n] = "pending" \/ (task[r][n] = "leased" /\ ~Live(r, n))
    /\ task' = [task EXCEPT ![r][n] = "leased"]
    /\ fetch' = [fetch EXCEPT ![r][n] = @ \cup {"live"}]
    /\ UNCHANGED <<now, repository, events, subs, captured, sched, receipts, deciding, history>>

\* snapshot has the source, fetched or retained for another receipt of the
\* SHA, and sets source_digest; a stale worker does it as well.
Capture(r, n) ==
    /\ fetch[r][n] # {}
    /\ n \notin captured[r]
    /\ captured' = [captured EXCEPT ![r] = @ \cup {n}]
    /\ UNCHANGED <<now, repository, events, subs, fetches, sched, receipts, deciding, history>>

\* Mutant: success is reported whether or not the source is stored.
FetchAlwaysDone(r, n) ==
    /\ Live(r, n) /\ task[r][n] = "leased"
    /\ task' = [task EXCEPT ![r][n] = "done"]
    /\ fetch' = [fetch EXCEPT ![r][n] = @ \ {"live"}]
    /\ UNCHANGED <<now, repository, events, subs, captured, sched, receipts, deciding, history>>

\* The lease holder reports.  Success needs the source; a permanent failure
\* asks for a review.
FetchOutcome(r, n) ==
    /\ Live(r, n) /\ task[r][n] = "leased"
    /\ \/ /\ n \in captured[r]
          /\ task' = [task EXCEPT ![r][n] = "done"]
          /\ UNCHANGED review
       \/ /\ \E s \in {"pending", "failed"} : task' = [task EXCEPT ![r][n] = s]
          /\ UNCHANGED review
       \/ /\ task' = [task EXCEPT ![r][n] = "failed"]
          /\ review' = [review EXCEPT ![r] = TRUE]
    /\ fetch' = [fetch EXCEPT ![r][n] = @ \ {"live"}]
    /\ UNCHANGED <<now, deadline, closed, final, events, subs, captured, sched, receipts,
                   deciding, history>>

\* The lease runs out under the worker, or its process dies.
LoseLease(r, n) ==
    /\ Live(r, n)
    /\ \E s \in {{}, {"stale"}} :
         fetch' = [fetch EXCEPT ![r][n] = (@ \ {"live"}) \cup s]
    /\ UNCHANGED <<now, repository, events, subs, captured, task, sched, receipts, deciding,
                   history>>

\* A stale worker reports.  The row is fenced off, but fail_permanently asks
\* for the review all the same.
StaleOutcome(r, n) ==
    /\ "stale" \in fetch[r][n]
    /\ fetch' = [fetch EXCEPT ![r][n] = @ \ {"stale"}]
    /\ \/ UNCHANGED review
       \/ review' = [review EXCEPT ![r] = TRUE]
    /\ UNCHANGED <<now, deadline, closed, final, events, subs, captured, task, sched,
                   receipts, deciding, history>>

\* expire_exhausted, after the last attempt.
ExhaustFetch(r, n) ==
    /\ task[r][n] = "leased" /\ ~Live(r, n)
    /\ task' = [task EXCEPT ![r][n] = "failed"]
    /\ UNCHANGED <<now, repository, events, subs, captured, fetch, sched, receipts, deciding,
                   history>>

\* A fetch is put back without the advisory lock: history, if a scheduling of
\* its enrollment has counted already.
PutBack(r, n) ==
    restored' = IF \E s \in sched : s.active # None /\ s.enrollment = EnrollmentOf[r]
                THEN restored \cup {<<r, n>>} ELSE restored

\* queue::retry of a failed snapshot.
RetryFetch(r, n) ==
    /\ task[r][n] = "failed"
    /\ task' = [task EXCEPT ![r][n] = "pending"]
    /\ PutBack(r, n)
    /\ UNCHANGED <<now, repository, events, subs, captured, fetch, sched, receipts, deciding,
                   selected, late>>

\* The last statement of sync: failed captures need a review.
FlagFailedFetches ==
    /\ review' = [r \in Repo |-> review[r] \/ \E n \in subs[r] : task[r][n] = "failed"]
    /\ UNCHANGED <<now, deadline, closed, final, events, subs, captured, fetches, sched,
                   receipts, deciding, history>>

-----------------------------------------------------------------------------
(* Deadlines and the final selection.                                      *)

\* close starts and finds the deadline passed.
BeginClose(r) ==
    /\ ~closing[r]
    /\ deadline[r] < now
    /\ closing' = [closing EXCEPT ![r] = TRUE]
    /\ UNCHANGED <<now, repository, events, subs, captured, fetches, sched, receipts,
                   extending, history>>

\* close commits: the newest submission is frozen, and its fetch is revived.
Close(r) ==
    /\ closing[r] /\ RowFree(r)
    /\ closing' = [closing EXCEPT ![r] = FALSE]
    /\ \/ closed[r] /\ UNCHANGED <<closed, final, task, restored>>
       \/ /\ ~closed[r]
          /\ closed' = [closed EXCEPT ![r] = TRUE]
          /\ \/ subs[r] = {} /\ UNCHANGED <<final, task, restored>>
             \/ \E n \in subs[r] :
                  /\ IsNewest(subs[r], n)
                  /\ final' = [final EXCEPT ![r] = n]
                  /\ \/ /\ task[r][n] \in {"failed", "cancelled"}
                        /\ task' = [task EXCEPT ![r][n] = "pending"]
                        /\ PutBack(r, n)
                     \/ /\ task[r][n] \notin {"failed", "cancelled"}
                        /\ UNCHANGED <<task, restored>>
    /\ UNCHANGED <<now, deadline, review, events, subs, captured, fetch, sched, receipts,
                   extending, selected, late>>

\* extend, by an operator, starts: it reads the deadline ...
BeginExtend(r) ==
    /\ Cardinality(extending[r]) < MaxExtending
    /\ extending' = [extending EXCEPT ![r] = @ \cup {deadline[r]}]
    /\ UNCHANGED <<now, repository, events, subs, captured, fetches, sched, receipts,
                   closing, history>>

\* Mutant: the new deadline may lie in the past.
ExtendIntoPast(r, p, d) ==
    /\ p \in extending[r] /\ RowFree(r)
    /\ \E more \in {{}, {p}} : extending' = [extending EXCEPT ![r] = (@ \ {p}) \cup more]
    /\ ~closed[r] /\ d > p
    /\ deadline' = [deadline EXCEPT ![r] = d]
    /\ UNCHANGED <<now, closed, final, review, events, subs, captured, fetches, sched, receipts,
                   closing, history>>

\* ... and, once it has the row lock and before closure, goes beyond what it
\* read.  Another extend may have read the same: the deadline can move back.
Extend(r, p, d) ==
    /\ p \in extending[r] /\ RowFree(r)
    /\ \E more \in {{}, {p}} : extending' = [extending EXCEPT ![r] = (@ \ {p}) \cup more]
    /\ ~closed[r] /\ d > p /\ d > now
    /\ deadline' = [deadline EXCEPT ![r] = d]
    /\ UNCHANGED <<now, closed, final, review, events, subs, captured, fetches, sched, receipts,
                   closing, history>>

\* It is refused, or its process dies.
ExtendFails(r, p) ==
    /\ p \in extending[r]
    /\ extending' = [extending EXCEPT ![r] = @ \ {p}]
    /\ UNCHANGED <<now, repository, events, subs, captured, fetches, sched, receipts,
                   closing, history>>

\* select_submission, by an operator: any event of a closed repository.
Select(r, n) ==
    /\ closed[r] /\ RowFree(r)
    /\ events[r][n] # None
    /\ subs' = [subs EXCEPT ![r] = @ \cup {n}]
    /\ final' = [final EXCEPT ![r] = n]
    /\ review' = [review EXCEPT ![r] = FALSE]
    /\ \/ /\ task[r][n] = "absent"
          /\ task' = [task EXCEPT ![r][n] = "pending"]
          /\ PutBack(r, n)
       \/ /\ task[r][n] # "absent"
          /\ UNCHANGED <<task, restored>>
    /\ selected' = [selected EXCEPT ![r] = TRUE]
    /\ UNCHANGED <<now, deadline, closed, events, captured, fetch, sched, receipts, deciding,
                   late>>

Tick ==
    /\ now < MaxTime
    /\ now' = now + 1
    /\ UNCHANGED <<repository, events, subs, captured, fetches, sched, receipts, deciding,
                   history>>

-----------------------------------------------------------------------------

Fetching(r, n) ==
    \/ StartFetch(r, n) \/ Capture(r, n) \/ FetchOutcome(r, n) \/ LoseLease(r, n)
    \/ StaleOutcome(r, n) \/ ExhaustFetch(r, n) \/ RetryFetch(r, n)

Next ==
    \/ \E r \in Repo : \/ BranchDeleted(r)
                       \/ BeginClose(r) \/ Close(r) \/ BeginExtend(r)
                       \/ Admit(r) \/ Abandon(r)
                       \/ \E sha \in Sha : Push(r, sha) \/ Register(r, sha) \/ Reconcile(r, sha)
                       \/ \E n \in Stamp : Fetching(r, n) \/ ExtendFails(r, n) \/ Select(r, n)
                       \/ \E p, d \in Stamp : Extend(r, p, d)
    \/ \E e \in Enrollment : StartRefill(e)
    \/ \E m \in inflight : Begin(m) \/ Record(m) \/ StartRecord(m) \/ Drop(m)
    \/ \E s \in sched : CountFetches(s) \/ FinishRefill(s) \/ FinishRecord(s) \/ DropRefill(s)
    \/ FlagFailedFetches
    \/ Tick

Spec == Init /\ [][Next]_vars
-----------------------------------------------------------------------------
(* Properties.                                                             *)

\* The selection is frozen at closure: until an operator selects, the final
\* submission is the newest one there is, so a record that was under way while
\* close committed added none.
FinalIsNewest ==
    \A r \in Repo : closed[r] /\ ~selected[r] =>
      IF subs[r] = {} THEN final[r] = None ELSE IsNewest(subs[r], final[r])

\* An eligible receipt lies in the window of its repository as it is now:
\* record may count it against an old deadline, and an extend that waited for
\* another one may move the deadline back, but never before a counted receipt.
EligibleStaysInWindow ==
    \A r \in Repo, n \in Stamp : events[r][n] # None /\ events[r][n].eligible =>
      Opens <= n /\ n <= deadline[r]

\* The final submission chosen by close is captured, has a task that some
\* worker will process, or failed for an operator to retry: its fetch is never
\* left cancelled, and done only with the source.
FinalWillBeCaptured ==
    \A r \in Repo : closed[r] /\ ~selected[r] /\ final[r] # None =>
      \/ final[r] \in captured[r]
      \/ task[r][final[r]] \in {"absent", "pending", "leased", "failed"}

\* A fetch that is done has its source, whoever stored it.
DoneIsCaptured ==
    \A r \in Repo, n \in Stamp : task[r][n] = "done" => n \in captured[r]

\* A push that came inside the window and was recorded either counts or puts
\* the repository up for review, whatever close and extend do meanwhile.
WebhookNeverSilent ==
    [][\A m \in inflight \ inflight' :
         /\ m.source = "webhook" /\ m.seen # None
         /\ events'[m.repo][m.at] # None
         /\ Opens <= m.at /\ m.at <= deadline[m.repo]
         => events'[m.repo][m.at].eligible \/ review'[m.repo]]_vars

FetchIsActive(r, n) == task[r][n] \in {"pending", "leased"}

\* A fetch for feedback (not of the final submission) is added only while the
\* enrollment has fewer than MaxActive, counting also those that retry, close
\* and select have put back.  Only what they put back between the count and
\* the commit, without the advisory lock, comes on top.
ScheduleRespectsCap ==
    [][\A r \in Repo, n \in Stamp :
         task[r][n] = "absent" /\ task'[r][n] = "pending" /\ n # final'[r]
         => Cardinality({p \in (Repo \X Stamp) \ restored :
                            EnrollmentOf[p[1]] = EnrollmentOf[r] /\ FetchIsActive(p[1], p[2])'})
              <= MaxActive]_vars

\* The last eligible receipt of a repository.
IsLastEligible(r, n) ==
    /\ events[r][n] # None /\ events[r][n].eligible
    /\ \A k \in Stamp : events[r][k] # None /\ events[r][k].eligible => k <= n

\* When receipts are recorded in the order of their stamps, closure freezes
\* the commit of the last eligible receipt, although receipts of the same
\* commit share a submission.
InOrderFreezesLastReceipt ==
    \A r \in Repo, n \in Stamp :
      closed[r] /\ ~selected[r] /\ ~late[r] /\ IsLastEligible(r, n)
      => final[r] # None /\ events[r][final[r]].sha = events[r][n].sha

\* docs/grading.md: sync "freezes the latest eligible registered submission",
\* in whatever order the receipts were recorded.
FreezesLastReceipt ==
    \A r \in Repo, n \in Stamp :
      closed[r] /\ ~selected[r] /\ IsLastEligible(r, n)
      => final[r] # None /\ events[r][final[r]].sha = events[r][n].sha

\* docs/grading.md: "An audited event-selection override resolves that case":
\* the selected submission is captured or its fetch can still run.
SelectedWillBeCaptured ==
    \A r \in Repo : selected[r] =>
      \/ final[r] \in captured[r]
      \/ task[r][final[r]] \in {"absent", "pending", "leased", "failed"}

\* README.md: "Extensions are explicit and must precede closure": a repository
\* is closed only when the deadline in force has passed.
ClosedAfterDeadline == \A r \in Repo : closed[r] => deadline[r] < now
=============================================================================
