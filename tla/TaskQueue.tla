------------------------------ MODULE TaskQueue ------------------------------
(***************************************************************************)
(* The control-task queue: the tasks table (crates/store/src/queue.rs) and *)
(* the worker loops that drain it (work_queue in                           *)
(* crates/cli/src/lifecycle.rs).                                           *)
(*                                                                         *)
(* One action is one SQL statement or transaction.  A column of the table  *)
(* is a function on Task.  The two timestamps are kept relative to now():  *)
(* wait[t] is how long available_at lies ahead (0: it has come), ttl[t] is *)
(* lease_until - now(), so a lease is live when ttl > 0, expired when      *)
(* ttl < 0, and neither at the instant ttl = 0.  Tick moves both.          *)
(*                                                                         *)
(* The order in which lease offers tasks (priority, then age) is left      *)
(* open: SKIP LOCKED passes over a row that another statement has locked,  *)
(* so any leasable row may come first.                                     *)
(*                                                                         *)
(* What a worker does with a task between the lease and the outcome is not *)
(* in this module: an outcome comes at any moment, a worker may stall or   *)
(* die at any moment, and the lease may be gone when the outcome arrives.  *)
(***************************************************************************)
EXTENDS Integers

CONSTANTS Task,         \* dedup keys: the rows the table may hold
          Worker,       \* worker loops; a restarted process is the same loop
          Token,        \* lease tokens (random UUIDs)
          None,         \* SQL NULL
          KindOf,       \* the kind column, fixed at insertion
          Serves,       \* the kinds each worker loop asks for
          MaxAttempts,  \* leases a task may use up (8)
          LeaseTerm,    \* length of a lease (120 seconds)
          Backoff,      \* delay after the n-th attempt: 30 * 2^n seconds
          RetryAfter,   \* delay GitHub's rate limit or the source quota asks for
          PollDelay     \* delay before an open invitation is polled (5 minutes)

Kind == {"provision", "snapshot", "publish", "lock"}
Status == {"absent", "pending", "leased", "done", "failed", "cancelled"}
Stage == {"idle", "working", "finished", "failed"}

ASSUME QueueAssumption ==
    /\ None \notin Task
    /\ None \notin Worker
    /\ None \notin Token
    /\ KindOf \in [Task -> Kind]
    /\ Serves \in [Worker -> SUBSET Kind]
    /\ MaxAttempts \in Nat \ {0}
    /\ LeaseTerm \in Nat \ {0}
    /\ Backoff \in [1..MaxAttempts -> Nat]
    /\ RetryAfter \in Nat
    /\ PollDelay \in Nat

VARIABLES status, attempts, wait, owner, token, ttl,  \* the table
          stage,   \* where each worker loop is
          work     \* the task and token of the worker's last lease

rows == <<status, attempts, wait, owner, token, ttl>>
loops == <<stage, work>>
vars == <<rows, loops>>

NoWork == [task |-> None, token |-> None]

TypeOK ==
    /\ status \in [Task -> Status]
    /\ attempts \in [Task -> 0..MaxAttempts]
    /\ wait \in [Task -> Nat]
    /\ owner \in [Task -> Worker \cup {None}]
    /\ token \in [Task -> Token \cup {None}]
    /\ ttl \in [Task -> -1..LeaseTerm]
    /\ stage \in [Worker -> Stage]
    /\ work \in [Worker -> [task : Task, token : Token] \cup {NoWork}]
    /\ \A w \in Worker : (stage[w] = "idle") <=> (work[w] = NoWork)

Init ==
    /\ status = [t \in Task |-> "absent"]
    /\ attempts = [t \in Task |-> 0]
    /\ wait = [t \in Task |-> 0]
    /\ owner = [t \in Task |-> None]
    /\ token = [t \in Task |-> None]
    /\ ttl = [t \in Task |-> -1]
    /\ stage = [w \in Worker |-> "idle"]
    /\ work = [w \in Worker |-> NoWork]

-----------------------------------------------------------------------------
(* Row conditions used by several statements.                              *)

Live(t) == status[t] = "leased" /\ ttl[t] > 0

Expired(t) == status[t] = "leased" /\ ttl[t] < 0

\* Mutant: lease without its attempts < 8.
LeasableForever(t) == (status[t] = "pending" /\ wait[t] = 0) \/ Expired(t)

\* The WHERE clause of lease: a task that may be handed to a worker now.
Leasable(t) ==
    /\ attempts[t] < MaxAttempts
    /\ (status[t] = "pending" /\ wait[t] = 0) \/ Expired(t)

\* Mutants of the fence: without lease_until > now(), without the token.
FencedByToken(w) ==
    /\ stage[w] = "working"
    /\ status[work[w].task] = "leased"
    /\ token[work[w].task] = work[w].token
FencedByStatus(w) == stage[w] = "working" /\ Live(work[w].task)

\* The fence of finish, fail, fail_permanently and defer: the row still
\* carries the token of this worker's lease, and that lease is live.
Fenced(w) ==
    /\ stage[w] = "working"
    /\ Live(work[w].task)
    /\ token[work[w].task] = work[w].token

\* Mutant: a token that is only unique among the rows.
UnusedInTable(k) == \A t \in Task : token[t] # k

\* A new UUID is none that the table or a worker still knows.
Unused(k) ==
    /\ \A t \in Task : token[t] # k
    /\ \A w \in Worker : work[w].token # k

\* The worker is back at the top of its loop.
BecomeIdle(w) ==
    /\ stage' = [stage EXCEPT ![w] = "idle"]
    /\ work' = [work EXCEPT ![w] = NoWork]

\* The worker has reported an error and keeps its task for one more statement.
Reported(w) ==
    /\ stage' = [stage EXCEPT ![w] = "failed"]
    /\ UNCHANGED work

-----------------------------------------------------------------------------
(* Statements other components run on the table.                           *)

\* queue::enqueue; a key that is already there changes nothing.
Enqueue(t) ==
    /\ status[t] = "absent"
    /\ status' = [status EXCEPT ![t] = "pending"]
    /\ attempts' = [attempts EXCEPT ![t] = 0]
    /\ wait' = [wait EXCEPT ![t] = 0]
    /\ UNCHANGED <<owner, token, ttl, loops>>

\* schedule_snapshots drops a pending fetch that is no longer wanted.
Cancel(t) ==
    /\ KindOf[t] = "snapshot"
    /\ status[t] = "pending"
    /\ status' = [status EXCEPT ![t] = "cancelled"]
    /\ UNCHANGED <<attempts, wait, owner, token, ttl, loops>>

\* A task gets a new budget of attempts and may be leased at once.
Reset(t) ==
    /\ status' = [status EXCEPT ![t] = "pending"]
    /\ attempts' = [attempts EXCEPT ![t] = 0]
    /\ wait' = [wait EXCEPT ![t] = 0]
    /\ UNCHANGED <<owner, token, ttl, loops>>

\* close makes the fetch of the final submission available at once, whatever
\* its status, and revives it when it had failed or been cancelled.
Promote(t) ==
    /\ KindOf[t] = "snapshot"
    /\ status[t] # "absent"
    /\ \/ status[t] \in {"failed", "cancelled"} /\ Reset(t)
       \/ /\ status[t] \notin {"failed", "cancelled"}
          /\ wait' = [wait EXCEPT ![t] = 0]
          /\ UNCHANGED <<status, attempts, owner, token, ttl, loops>>

\* close and sync revive failed lock and provision tasks, and sync reopens a
\* lock that was done when the student is found with write access.
Repair(t) ==
    /\ \/ KindOf[t] \in {"lock", "provision"} /\ status[t] = "failed"
       \/ KindOf[t] = "lock" /\ status[t] = "done"
    /\ Reset(t)

\* queue::retry, by an operator.
Retry(t) ==
    /\ status[t] = "failed"
    /\ Reset(t)

-----------------------------------------------------------------------------
(* The worker loop.                                                        *)

\* Mutant: off by one in the exhaustion test.
ExpireOverdrawn ==
    LET dead == {t \in Task : Expired(t) /\ attempts[t] > MaxAttempts} IN
    /\ dead # {}
    /\ status' = [t \in Task |-> IF t \in dead THEN "failed" ELSE status[t]]
    /\ UNCHANGED <<attempts, wait, owner, token, ttl, loops>>

\* queue::expire_exhausted, one statement over the whole table.
ExpireExhausted ==
    LET dead == {t \in Task : Expired(t) /\ attempts[t] >= MaxAttempts} IN
    /\ dead # {}
    /\ status' = [t \in Task |-> IF t \in dead THEN "failed" ELSE status[t]]
    /\ UNCHANGED <<attempts, wait, owner, token, ttl, loops>>

\* queue::lease.
Lease(w, t) ==
    /\ stage[w] = "idle"
    /\ KindOf[t] \in Serves[w]
    /\ Leasable(t)
    /\ \E k \in Token : Unused(k)
    /\ LET k == CHOOSE k \in Token : Unused(k) IN
         /\ token' = [token EXCEPT ![t] = k]
         /\ work' = [work EXCEPT ![w] = [task |-> t, token |-> k]]
    /\ stage' = [stage EXCEPT ![w] = "working"]
    /\ status' = [status EXCEPT ![t] = "leased"]
    /\ owner' = [owner EXCEPT ![t] = w]
    /\ ttl' = [ttl EXCEPT ![t] = LeaseTerm]
    /\ attempts' = [attempts EXCEPT ![t] = @ + 1]
    /\ UNCHANGED wait

\* queue::heartbeat while the task is being processed.
Heartbeat(w) ==
    /\ Fenced(w)
    /\ owner[work[w].task] = w
    /\ ttl' = [ttl EXCEPT ![work[w].task] = LeaseTerm]
    /\ UNCHANGED <<status, attempts, wait, owner, token, loops>>

\* queue::finish.  Without the lease it is an error that ends the process.
Finish(w) ==
    /\ stage[w] = "working"
    /\ LET t == work[w].task IN
       \/ /\ Fenced(w)
          /\ status' = [status EXCEPT ![t] = "done"]
          /\ \/ KindOf[t] # "provision" /\ BecomeIdle(w)
             \/ /\ KindOf[t] = "provision"
                /\ stage' = [stage EXCEPT ![w] = "finished"]
                /\ UNCHANGED work
       \/ /\ ~Fenced(w)
          /\ BecomeIdle(w)
          /\ UNCHANGED status
    /\ UNCHANGED <<attempts, wait, owner, token, ttl>>

\* Mutant: a failure always puts the task back.
FailAlwaysRetries(w) ==
    /\ stage[w] = "working"
    /\ LET t == work[w].task IN
       \/ /\ Fenced(w)
          /\ status' = [status EXCEPT ![t] = "pending"]
          /\ wait' = [wait EXCEPT ![t] = Backoff[attempts[t]]]
       \/ ~Fenced(w) /\ UNCHANGED <<status, wait>>
    /\ Reported(w)
    /\ UNCHANGED <<attempts, owner, token, ttl>>

\* queue::fail, after an error of processing or a heartbeat that matched no
\* row; without the lease it matches no row either.
Fail(w) ==
    /\ stage[w] = "working"
    /\ LET t == work[w].task IN
       \/ /\ Fenced(w)
          /\ status' = [status EXCEPT ![t] =
                          IF attempts[t] >= MaxAttempts THEN "failed" ELSE "pending"]
          /\ wait' = [wait EXCEPT ![t] = Backoff[attempts[t]]]
       \/ ~Fenced(w) /\ UNCHANGED <<status, wait>>
    /\ Reported(w)
    /\ UNCHANGED <<attempts, owner, token, ttl>>

\* queue::fail_permanently, for a source tree that can never be accepted.
FailPermanently(w) ==
    /\ stage[w] = "working"
    /\ KindOf[work[w].task] = "snapshot"
    /\ \/ Fenced(w) /\ status' = [status EXCEPT ![work[w].task] = "failed"]
       \/ ~Fenced(w) /\ UNCHANGED status
    /\ Reported(w)
    /\ UNCHANGED <<attempts, wait, owner, token, ttl>>

\* queue::defer, when the hourly source budget is used up: the attempt is
\* given back.
Defer(w) ==
    /\ stage[w] = "working"
    /\ KindOf[work[w].task] = "snapshot"
    /\ LET t == work[w].task IN
       \/ /\ Fenced(w)
          /\ status' = [status EXCEPT ![t] = "pending"]
          /\ wait' = [wait EXCEPT ![t] = RetryAfter]
          /\ attempts' = [attempts EXCEPT ![t] = IF @ > 0 THEN @ - 1 ELSE 0]
       \/ ~Fenced(w) /\ UNCHANGED <<status, wait, attempts>>
    /\ Reported(w)
    /\ UNCHANGED <<owner, token, ttl>>

\* The statement after a reported error while GitHub's rate limit is on: the
\* task waits until the limit ends, if it is pending and nobody has leased it
\* since, whether or not this worker's report took effect.
RateLimit(w) ==
    /\ stage[w] = "failed"
    /\ LET t == work[w].task IN
       \/ /\ status[t] = "pending" /\ token[t] = work[w].token
          /\ wait' = [wait EXCEPT ![t] = IF @ < RetryAfter THEN RetryAfter ELSE @]
       \/ ~(status[t] = "pending" /\ token[t] = work[w].token) /\ UNCHANGED wait
    /\ BecomeIdle(w)
    /\ UNCHANGED <<status, attempts, owner, token, ttl>>

\* After a provision task is done: if the invitation is still open the same
\* row becomes the poll of it, unless its status or token has moved on.
PollInvitation(w) ==
    /\ stage[w] = "finished"
    /\ LET t == work[w].task IN
       \/ /\ status[t] = "done" /\ token[t] = work[w].token
          /\ status' = [status EXCEPT ![t] = "pending"]
          /\ attempts' = [attempts EXCEPT ![t] = 0]
          /\ wait' = [wait EXCEPT ![t] = PollDelay]
       \/ ~(status[t] = "done" /\ token[t] = work[w].token)
          /\ UNCHANGED <<status, attempts, wait>>
    /\ BecomeIdle(w)
    /\ UNCHANGED <<owner, token, ttl>>

\* The task needs no poll (the repository is ready or closed), GitHub sets no
\* limit, or the process died here.
MoveOn(w) ==
    /\ stage[w] \in {"finished", "failed"}
    /\ BecomeIdle(w)
    /\ UNCHANGED rows

\* The process dies and is started again; the row keeps its lease.
Crash(w) ==
    /\ stage[w] = "working"
    /\ BecomeIdle(w)
    /\ UNCHANGED rows

Tick ==
    /\ wait' = [t \in Task |-> IF wait[t] > 0 THEN wait[t] - 1 ELSE 0]
    /\ ttl' = [t \in Task |-> IF ttl[t] >= 0 THEN ttl[t] - 1 ELSE -1]
    /\ UNCHANGED <<status, attempts, owner, token, loops>>

-----------------------------------------------------------------------------

Others == \E t \in Task : \/ Enqueue(t) \/ Cancel(t) \/ Promote(t)
                          \/ Repair(t) \/ Retry(t)

\* The worker reports the outcome of processing.
Outcome(w) == Finish(w) \/ Fail(w) \/ FailPermanently(w) \/ Defer(w)

Loop(w) == \/ \E t \in Task : Lease(w, t)
           \/ Heartbeat(w)
           \/ Outcome(w)
           \/ PollInvitation(w) \/ RateLimit(w) \/ MoveOn(w)
           \/ Crash(w)

Next == Others \/ ExpireExhausted \/ Tick \/ \E w \in Worker : Loop(w)

Spec == Init /\ [][Next]_vars

(* Fairness.  Clocks run; a worker loop goes round: it expires exhausted   *)
(* leases and asks for a task, and processing ends with some outcome (every *)
(* network call has a timeout).  Nothing obliges a worker to heartbeat in   *)
(* time, nor an operator or a sync to do anything.                          *)
Fairness ==
    /\ WF_vars(Tick)
    /\ WF_vars(ExpireExhausted)
    /\ \A w \in Worker :
         /\ WF_vars(\E t \in Task : Lease(w, t))
         /\ WF_vars(Outcome(w))
         /\ WF_vars(PollInvitation(w) \/ RateLimit(w) \/ MoveOn(w))

FairSpec == Spec /\ Fairness

-----------------------------------------------------------------------------
(* Properties.                                                             *)

\* A pending task can still be leased: fail, defer, retry, close and the
\* invitation poll never put a task back into the queue with its attempts
\* used up, where lease would skip it and expire_exhausted would not see it.
PendingIsLeasable ==
    \A t \in Task : status[t] = "pending" => attempts[t] < MaxAttempts

\* A leased row has used at least one attempt: the back-off of fail is defined.
LeasedIsCounted == \A t \in Task : status[t] = "leased" => attempts[t] >= 1

\* The row that carries a worker's token names that worker as its owner, and
\* no two workers carry one token: what finish and fail check (the token) and
\* what heartbeat checks (token and owner) agree.
TokenNamesOwner ==
    /\ \A w \in Worker : stage[w] # "idle" /\ token[work[w].task] = work[w].token
         => owner[work[w].task] = w
    /\ \A v, w \in Worker : stage[v] # "idle" /\ work[v].token = work[w].token
         => v = w

\* The inductive invariant behind the properties below.
QueueInv == TypeOK /\ PendingIsLeasable /\ LeasedIsCounted /\ TokenNamesOwner

HoldsLease(w) ==
    LET t == work[w].task IN
    status[t] = "leased" /\ token[t] = work[w].token /\ ttl[t] > 0

\* A worker whose lease has lapsed, or was taken over, changes no row when it
\* reports its outcome, whatever the outcome is (queue.rs: "fenced leases"),
\* and what it does after a report never touches a task that is leased.
StaleWorkerChangesNothing ==
    [][\A w \in Worker : stage'[w] # stage[w] =>
         /\ stage[w] = "working" /\ ~HoldsLease(w) => UNCHANGED rows
         /\ stage[w] \in {"finished", "failed"} =>
              \A t \in Task : status[t] = "leased" =>
                /\ status'[t] = status[t] /\ attempts'[t] = attempts[t]
                /\ wait'[t] = wait[t]]_vars

(* The board that the table shows.                                         *)
BoardPhase ==
    [t \in Task |-> CASE status[t] = "absent" -> "absent"
                      [] status[t] = "pending" -> "open"
                      [] status[t] = "leased" -> IF ttl[t] > 0 THEN "claimed" ELSE "open"
                      [] OTHER -> "settled"]
BoardHolder == [t \in Task |-> IF Live(t) THEN owner[t] ELSE None]
BoardBusy == [w \in Worker |-> IF stage[w] = "working" THEN work[w].task ELSE None]

Board == INSTANCE LeaseBoard WITH
    phase <- BoardPhase, holder <- BoardHolder, busy <- BoardBusy

\* The queue implements the board: only the worker that holds the live lease
\* settles a task or gives it back, and it does so as it reports.
BoardSpec == Board!Spec

Active(t) == status[t] \in {"pending", "leased"}

\* The steps that give a task attempts back.
Refill ==
    \/ \E t \in Task : Promote(t) \/ Repair(t) \/ Retry(t)
    \/ \E w \in Worker : Defer(w) \/ PollInvitation(w)

\* Every enqueued task comes to an end, done, failed or cancelled, however
\* often its workers crash, stall or lose their leases, unless somebody keeps
\* giving it new attempts for ever.
EveryTaskSettles ==
    \/ []<><<Refill>>_vars
    \/ \A t \in Task : Active(t) ~> ~Active(t)
=============================================================================
