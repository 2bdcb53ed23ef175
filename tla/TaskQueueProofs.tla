-------------------------- MODULE TaskQueueProofs --------------------------
(***************************************************************************)
(* Proofs about the control-task queue, for any number of tasks, workers   *)
(* and attempts.  The inductive invariant is QueueInv: types, the attempt   *)
(* budget of pending and leased rows, and the agreement of tokens and       *)
(* owners.  The last part shows that the queue implements LeaseBoard.       *)
(***************************************************************************)
EXTENDS TaskQueue, TLAPS

-----------------------------------------------------------------------------
(* One lemma per group of actions: each keeps QueueInv.                     *)

\* There is at least one attempt, so a count of 0 is within the budget.
LEMMA Budget ==
    /\ MaxAttempts \in Nat
    /\ 0 < MaxAttempts
    /\ 0 \in 0..MaxAttempts
BY QueueAssumption

\* A fresh table and idle workers.
LEMMA InitInv == Init => QueueInv
BY QueueAssumption
   DEF Init, QueueInv, TypeOK, PendingIsLeasable, LeasedIsCounted, TokenNamesOwner,
       Status, Stage, NoWork

\* What a statement does to one row: a new status, attempt count and delay that
\* respect the budget.
RowStep(t) ==
    \E s \in Status, a \in 0..MaxAttempts, d \in Nat :
      /\ status' = [status EXCEPT ![t] = s]
      /\ attempts' = [attempts EXCEPT ![t] = a]
      /\ wait' = [wait EXCEPT ![t] = d]
      /\ s = "pending" => a < MaxAttempts
      /\ s = "leased" => a >= 1

\* Writing back what the row holds is a row step.
LEMMA RowValues ==
    ASSUME QueueInv, NEW t \in Task
    PROVE  /\ status[t] \in Status /\ attempts[t] \in 0..MaxAttempts /\ wait[t] \in Nat
           /\ status[t] = "pending" => attempts[t] < MaxAttempts
           /\ status[t] = "leased" => attempts[t] >= 1
           /\ status = [status EXCEPT ![t] = status[t]]
           /\ attempts = [attempts EXCEPT ![t] = attempts[t]]
           /\ wait = [wait EXCEPT ![t] = wait[t]]
BY DEF QueueInv, TypeOK, PendingIsLeasable, LeasedIsCounted

\* A row that keeps its columns takes a row step.
LEMMA RowUnchanged ==
    ASSUME QueueInv, NEW t \in Task, UNCHANGED <<status, attempts, wait>>
    PROVE  RowStep(t)
<1>1. /\ status' = [status EXCEPT ![t] = status[t]]
      /\ attempts' = [attempts EXCEPT ![t] = attempts[t]]
      /\ wait' = [wait EXCEPT ![t] = wait[t]]
  BY RowValues
<1>2. /\ status[t] \in Status /\ attempts[t] \in 0..MaxAttempts /\ wait[t] \in Nat
      /\ status[t] = "pending" => attempts[t] < MaxAttempts
      /\ status[t] = "leased" => attempts[t] >= 1
  BY RowValues
<1> QED
  BY <1>1, <1>2, Zenon DEF RowStep

\* A row step keeps the types of the three columns and the attempt budget.
LEMMA RowStepBudget ==
    ASSUME QueueInv, NEW t \in Task, RowStep(t)
    PROVE  /\ status' \in [Task -> Status]
           /\ attempts' \in [Task -> 0..MaxAttempts]
           /\ wait' \in [Task -> Nat]
           /\ PendingIsLeasable' /\ LeasedIsCounted'
<1> USE DEF QueueInv
<1>1. PICK s \in Status, a \in 0..MaxAttempts, d \in Nat :
         /\ status' = [status EXCEPT ![t] = s]
         /\ attempts' = [attempts EXCEPT ![t] = a]
         /\ wait' = [wait EXCEPT ![t] = d]
         /\ s = "pending" => a < MaxAttempts
         /\ s = "leased" => a >= 1
  BY DEF RowStep
<1>2. /\ status' \in [Task -> Status]
      /\ attempts' \in [Task -> 0..MaxAttempts]
      /\ wait' \in [Task -> Nat]
  BY <1>1 DEF TypeOK
<1>3. PendingIsLeasable' /\ LeasedIsCounted'
  BY <1>1 DEF TypeOK, PendingIsLeasable, LeasedIsCounted
<1> QED
  BY <1>2, <1>3

\* The statements of other components never revive a task without a fresh
\* budget, and they leave tokens, owners and workers alone.
LEMMA OthersInv ==
    ASSUME QueueInv, NEW t \in Task,
           Enqueue(t) \/ Cancel(t) \/ Promote(t) \/ Repair(t) \/ Retry(t)
    PROVE  QueueInv'
<1>1. UNCHANGED <<owner, token, ttl, stage, work>>
  BY DEF Enqueue, Cancel, Promote, Repair, Retry, Reset, loops
<1>2. RowStep(t)
  <2>1. CASE /\ status' = [status EXCEPT ![t] = "pending"]
             /\ attempts' = [attempts EXCEPT ![t] = 0]
             /\ wait' = [wait EXCEPT ![t] = 0]
    <3>1. "pending" \in Status /\ 0 \in Nat /\ ~("pending" = "leased")
      BY DEF Status
    <3> QED
      BY <2>1, <3>1, Budget, Zenon DEF RowStep
  <2>2. CASE Cancel(t)
    <3>1. /\ status' = [status EXCEPT ![t] = "cancelled"]
          /\ attempts' = attempts /\ wait' = wait
      BY <2>2 DEF Cancel
    <3>2. "cancelled" \in Status /\ ~("cancelled" = "leased") /\ ~("cancelled" = "pending")
      BY DEF Status
    <3> QED
      BY <3>1, <3>2, RowValues, Zenon DEF RowStep
  <2>3. CASE /\ status' = status /\ attempts' = attempts
             /\ wait' = [wait EXCEPT ![t] = 0]
    <3>1. 0 \in Nat
      OBVIOUS
    <3> QED
      BY <2>3, <3>1, RowValues, Zenon DEF RowStep
  <2> QED
    BY <2>1, <2>2, <2>3 DEF Enqueue, Promote, Repair, Retry, Reset
<1>3. TypeOK'
  BY <1>1, <1>2, RowStepBudget DEF QueueInv, TypeOK
<1>4. TokenNamesOwner'
  BY <1>1 DEF QueueInv, TokenNamesOwner
<1> QED
  BY <1>2, <1>3, <1>4, RowStepBudget DEF QueueInv

\* The passing of time and the end of exhausted leases.
LEMMA ClockInv ==
    ASSUME QueueInv, ExpireExhausted \/ Tick
    PROVE  QueueInv'
<1> USE DEF QueueInv, Status, loops
<1>1. TypeOK'
  <2>1. CASE ExpireExhausted
    BY <2>1 DEF TypeOK, ExpireExhausted
  <2>2. CASE Tick
    <3>1. wait' \in [Task -> Nat]
      BY <2>2 DEF TypeOK, Tick
    <3>2. ASSUME NEW n \in -1..LeaseTerm
          PROVE  (IF n >= 0 THEN n - 1 ELSE -1) \in -1..LeaseTerm
      BY QueueAssumption
    <3>3. ttl' \in [Task -> -1..LeaseTerm]
      BY <2>2, <3>2 DEF TypeOK, Tick
    <3> QED
      BY <2>2, <3>1, <3>3 DEF TypeOK, Tick
  <2> QED
    BY <2>1, <2>2
<1>2. PendingIsLeasable' /\ LeasedIsCounted'
  BY DEF TypeOK, PendingIsLeasable, LeasedIsCounted, ExpireExhausted, Tick
<1>3. UNCHANGED <<owner, token, loops>>
  BY DEF ExpireExhausted, Tick
<1>4. TokenNamesOwner'
  BY <1>3 DEF TokenNamesOwner
<1> QED
  BY <1>1, <1>2, <1>4

\* A lease takes a token nobody knows, which is why the new owner is the only
\* one to carry it.
LEMMA LeaseInv ==
    ASSUME QueueInv, NEW w \in Worker, NEW t \in Task, Lease(w, t)
    PROVE  QueueInv'
<1> DEFINE k == CHOOSE k \in Token : Unused(k)
<1>1. k \in Token /\ Unused(k)
  BY DEF Lease
<1>2. /\ token' = [token EXCEPT ![t] = k]
      /\ work' = [work EXCEPT ![w] = [task |-> t, token |-> k]]
      /\ stage' = [stage EXCEPT ![w] = "working"]
      /\ status' = [status EXCEPT ![t] = "leased"]
      /\ owner' = [owner EXCEPT ![t] = w]
      /\ ttl' = [ttl EXCEPT ![t] = LeaseTerm]
      /\ attempts' = [attempts EXCEPT ![t] = attempts[t] + 1]
      /\ attempts[t] < MaxAttempts
      /\ UNCHANGED wait
  BY DEF Lease, Leasable
<1> HIDE DEF k
<1> USE DEF QueueInv
<1>3. TypeOK'
  BY <1>1, <1>2, QueueAssumption DEF TypeOK, Status, Stage, NoWork
<1>4. PendingIsLeasable' /\ LeasedIsCounted'
  BY <1>2 DEF TypeOK, PendingIsLeasable, LeasedIsCounted
<1>5. ASSUME NEW v \in Worker, stage'[v] # "idle", token'[work'[v].task] = work'[v].token
      PROVE  owner'[work'[v].task] = v
  <2>1. CASE v = w
    BY <1>2, <2>1 DEF TypeOK
  <2>2. CASE v # w
    <3>1. stage[v] # "idle" /\ work'[v] = work[v] /\ work[v].task \in Task
      BY <1>2, <1>5, <2>2 DEF TypeOK, NoWork
    <3>2. work[v].task # t
      BY <1>1, <1>2, <1>5, <3>1 DEF TypeOK, Unused
    <3> QED
      BY <1>2, <1>5, <3>1, <3>2 DEF TypeOK, TokenNamesOwner
  <2> QED
    BY <2>1, <2>2
<1>6. ASSUME NEW u \in Worker, NEW v \in Worker,
             stage'[u] # "idle", work'[u].token = work'[v].token
      PROVE  u = v
  BY <1>1, <1>2, <1>6 DEF TypeOK, Unused, TokenNamesOwner
<1>7. TokenNamesOwner'
  BY <1>5, <1>6 DEF TokenNamesOwner
<1> QED
  BY <1>3, <1>4, <1>7

\* A worker that becomes idle drops its token, which no other worker carries.
LEMMA IdleInv ==
    ASSUME TypeOK, TokenNamesOwner, NEW w \in Worker, BecomeIdle(w),
           UNCHANGED <<owner, token>>
    PROVE  TokenNamesOwner'
<1>1. /\ stage' = [stage EXCEPT ![w] = "idle"]
      /\ work' = [work EXCEPT ![w] = NoWork]
      /\ owner' = owner /\ token' = token
  BY DEF BecomeIdle
<1>2. ASSUME NEW v \in Worker, stage'[v] # "idle", token'[work'[v].task] = work'[v].token
      PROVE  owner'[work'[v].task] = v
  BY <1>1, <1>2 DEF TypeOK, TokenNamesOwner
<1>3. ASSUME NEW u \in Worker, NEW v \in Worker,
             stage'[u] # "idle", work'[u].token = work'[v].token
      PROVE  u = v
  <2>1. u # w /\ stage[u] # "idle" /\ work'[u] = work[u] /\ work[u].token \in Token
    BY <1>1, <1>3 DEF TypeOK, NoWork
  <2>2. v # w
    BY <1>1, <1>3, <2>1, QueueAssumption DEF TypeOK, NoWork
  <2> QED
    BY <1>1, <1>3, <2>1, <2>2 DEF TypeOK, TokenNamesOwner
<1> QED
  BY <1>2, <1>3 DEF TokenNamesOwner

\* How a worker loop leaves a task it was working on.
LoopStep(w) ==
    \/ BecomeIdle(w)
    \/ work' = work /\ stage' = stage
    \/ work' = work /\ stage' = [stage EXCEPT ![w] = "finished"]
    \/ work' = work /\ stage' = [stage EXCEPT ![w] = "failed"]

LEMMA LoopStepInv ==
    ASSUME QueueInv, NEW w \in Worker, stage[w] # "idle", LoopStep(w),
           UNCHANGED <<owner, token>>
    PROVE  /\ stage' \in [Worker -> Stage]
           /\ work' \in [Worker -> [task : Task, token : Token] \cup {NoWork}]
           /\ \A v \in Worker : (stage'[v] = "idle") <=> (work'[v] = NoWork)
           /\ TokenNamesOwner'
<1>1. CASE BecomeIdle(w)
  <2>1. TokenNamesOwner'
    BY <1>1, IdleInv DEF QueueInv
  <2>2. /\ stage' \in [Worker -> Stage]
        /\ work' \in [Worker -> [task : Task, token : Token] \cup {NoWork}]
        /\ \A v \in Worker : (stage'[v] = "idle") <=> (work'[v] = NoWork)
    BY <1>1 DEF QueueInv, TypeOK, BecomeIdle, Stage
  <2> QED
    BY <2>1, <2>2
<1>2. CASE /\ work' = work
           /\ \/ stage' = stage
              \/ stage' = [stage EXCEPT ![w] = "finished"]
              \/ stage' = [stage EXCEPT ![w] = "failed"]
  <2>1. /\ stage' \in [Worker -> Stage]
        /\ \A v \in Worker : (stage'[v] = "idle") <=> (stage[v] = "idle")
    BY <1>2 DEF QueueInv, TypeOK, Stage
  <2>2. TokenNamesOwner'
    BY <1>2, <2>1 DEF QueueInv, TokenNamesOwner
  <2> QED
    BY <1>2, <2>1, <2>2 DEF QueueInv, TypeOK
<1> QED
  BY <1>1, <1>2 DEF LoopStep

\* Every other step of a worker loop.
LEMMA LoopInv ==
    ASSUME QueueInv, NEW w \in Worker,
           \/ Heartbeat(w) \/ Outcome(w) \/ PollInvitation(w) \/ RateLimit(w)
           \/ MoveOn(w) \/ Crash(w)
    PROVE  QueueInv'
<1> DEFINE t == work[w].task
<1>1. stage[w] # "idle"
  BY DEF Heartbeat, Outcome, Finish, Fail, FailPermanently, Defer, PollInvitation,
         RateLimit, MoveOn, Crash, Fenced
<1>2. t \in Task /\ work[w].token \in Token
  BY <1>1 DEF QueueInv, TypeOK, NoWork
<1>3. /\ UNCHANGED <<owner, token>>
      /\ ttl' = ttl \/ ttl' = [ttl EXCEPT ![t] = LeaseTerm]
  BY DEF Heartbeat, Outcome, Finish, Fail, FailPermanently, Defer,
         PollInvitation, RateLimit, MoveOn, Crash, rows, loops
<1>4. ttl' \in [Task -> -1..LeaseTerm]
  <2>1. LeaseTerm \in -1..LeaseTerm
    BY QueueAssumption
  <2> QED
    BY <1>2, <1>3, <2>1 DEF QueueInv, TypeOK
<1>5. LoopStep(w)
  BY DEF Heartbeat, Outcome, Finish, Fail, FailPermanently, Defer, PollInvitation,
         RateLimit, MoveOn, Crash, loops, LoopStep, Reported
<1>6. Fenced(w) => status[t] = "leased" /\ attempts[t] \in 1..MaxAttempts
  BY <1>2, Budget DEF QueueInv, TypeOK, LeasedIsCounted, Fenced, Live
<1> HIDE DEF t
<1>7. RowStep(t)
  <2> USE <1>2
  <2>s. /\ {"pending", "done", "failed"} \subseteq Status
        /\ ~("pending" = "leased")
        /\ ~("done" = "leased") /\ ~("done" = "pending")
        /\ ~("failed" = "leased") /\ ~("failed" = "pending")
    BY DEF Status
  <2>d. RetryAfter \in Nat /\ PollDelay \in Nat
    BY QueueAssumption
  <2>1. CASE UNCHANGED <<status, attempts, wait>>
    BY <2>1, RowUnchanged
  <2>2. CASE Finish(w) /\ Fenced(w)
    <3>1. status' = [status EXCEPT ![t] = "done"] /\ attempts' = attempts /\ wait' = wait
      BY <2>2 DEF Finish, t
    <3> QED
      BY <2>s, <3>1, RowValues, Zenon DEF RowStep
  <2>3. CASE Fail(w) /\ Fenced(w)
    <3>1. /\ status' = [status EXCEPT ![t] =
                          IF attempts[t] >= MaxAttempts THEN "failed" ELSE "pending"]
          /\ wait' = [wait EXCEPT ![t] = Backoff[attempts[t]]]
          /\ attempts' = attempts
      BY <2>3 DEF Fail, t
    <3>2. Backoff[attempts[t]] \in Nat
      BY <1>6, <2>3, QueueAssumption
    <3>3. CASE attempts[t] >= MaxAttempts
      <4>1. status' = [status EXCEPT ![t] = "failed"]
        BY <3>1, <3>3
      <4> QED
        BY <2>s, <3>1, <3>2, <4>1, RowValues, Zenon DEF RowStep
    <3>4. CASE ~(attempts[t] >= MaxAttempts)
      <4>1. status' = [status EXCEPT ![t] = "pending"]
        BY <3>1, <3>4
      <4>2. attempts[t] < MaxAttempts
        BY <3>4, RowValues, Budget
      <4> QED
        BY <2>s, <3>1, <3>2, <4>1, <4>2, RowValues, Zenon DEF RowStep
    <3> QED
      BY <3>3, <3>4
  <2>4. CASE FailPermanently(w) /\ Fenced(w)
    <3>1. status' = [status EXCEPT ![t] = "failed"] /\ attempts' = attempts /\ wait' = wait
      BY <2>4 DEF FailPermanently, t
    <3> QED
      BY <2>s, <3>1, RowValues, Zenon DEF RowStep
  <2>5. CASE Defer(w) /\ Fenced(w)
    <3>1. /\ status' = [status EXCEPT ![t] = "pending"]
          /\ wait' = [wait EXCEPT ![t] = RetryAfter]
          /\ attempts' = [attempts EXCEPT ![t] = attempts[t] - 1]
      BY <1>6, <2>5 DEF Defer, t
    <3>2. attempts[t] - 1 \in 0..MaxAttempts /\ attempts[t] - 1 < MaxAttempts
      BY <1>6, <2>5, Budget
    <3> QED
      BY <2>s, <2>d, <3>1, <3>2, Zenon DEF RowStep
  <2>6. CASE PollInvitation(w) /\ status[t] = "done" /\ token[t] = work[w].token
    <3>1. /\ status' = [status EXCEPT ![t] = "pending"]
          /\ wait' = [wait EXCEPT ![t] = PollDelay]
          /\ attempts' = [attempts EXCEPT ![t] = 0]
      BY <2>6 DEF PollInvitation, t
    <3> QED
      BY <2>s, <2>d, <3>1, Budget, Zenon DEF RowStep
  <2>7. CASE RateLimit(w) /\ status[t] = "pending" /\ token[t] = work[w].token
    <3>1. /\ wait' = [wait EXCEPT ![t] = IF wait[t] < RetryAfter THEN RetryAfter ELSE wait[t]]
          /\ status' = status /\ attempts' = attempts
      BY <2>7 DEF RateLimit, t
    <3>2. (IF wait[t] < RetryAfter THEN RetryAfter ELSE wait[t]) \in Nat
      BY <2>d, RowValues
    <3> QED
      BY <3>1, <3>2, RowValues, Zenon DEF RowStep
  <2> QED
    BY <2>1, <2>2, <2>3, <2>4, <2>5, <2>6, <2>7
    DEF Heartbeat, Outcome, Finish, Fail, FailPermanently, Defer, PollInvitation,
        RateLimit, MoveOn, Crash, rows, t
<1>8. /\ status' \in [Task -> Status]
      /\ attempts' \in [Task -> 0..MaxAttempts]
      /\ wait' \in [Task -> Nat]
      /\ PendingIsLeasable' /\ LeasedIsCounted'
  BY <1>2, <1>7, RowStepBudget
<1>9. /\ stage' \in [Worker -> Stage]
      /\ work' \in [Worker -> [task : Task, token : Token] \cup {NoWork}]
      /\ \A v \in Worker : (stage'[v] = "idle") <=> (work'[v] = NoWork)
      /\ TokenNamesOwner'
  BY <1>1, <1>3, <1>5, LoopStepInv
<1>10. TypeOK'
  BY <1>3, <1>4, <1>8, <1>9 DEF QueueInv, TypeOK
<1> QED
  BY <1>8, <1>9, <1>10 DEF QueueInv

-----------------------------------------------------------------------------

\* Types, attempt budget and token ownership hold in every reachable state.
THEOREM QueueInvariant == Spec => []QueueInv
<1>1. QueueInv /\ [Next]_vars => QueueInv'
  <2> SUFFICES ASSUME QueueInv, [Next]_vars
               PROVE  QueueInv'
    OBVIOUS
  <2>1. CASE Others
    BY <2>1, OthersInv DEF Others
  <2>2. CASE ExpireExhausted \/ Tick
    BY <2>2, ClockInv
  <2>3. ASSUME NEW w \in Worker, Loop(w)
        PROVE  QueueInv'
    BY <2>3, LeaseInv, LoopInv DEF Loop
  <2>4. CASE UNCHANGED vars
    BY <2>4 DEF vars, rows, loops, QueueInv, TypeOK, PendingIsLeasable,
                LeasedIsCounted, TokenNamesOwner
  <2> QED
    BY <2>1, <2>2, <2>3, <2>4 DEF Next
<1> QED
  BY <1>1, InitInv, PTL DEF Spec

-----------------------------------------------------------------------------

\* No task is ever stuck in the queue: whatever fail, defer, retry, close and
\* the invitation poll do, a pending task has attempts left.
THEOREM PendingTasks == Spec => []PendingIsLeasable
BY QueueInvariant, PTL DEF QueueInv

\* The rows and the workers' variables keep their types: in particular a task is
\* never leased more often than it has attempts (store/queue.rs, claim).
THEOREM TypesOfTheQueue == Spec => []TypeOK
BY QueueInvariant, PTL DEF QueueInv

\* A lease token is known to one worker, the owner the row names.
THEOREM TokenOwnership == Spec => []TokenNamesOwner
BY QueueInvariant, PTL DEF QueueInv

\* Only a worker's own loop moves its stage.
LEMMA OwnStage ==
    ASSUME QueueInv, Next, NEW w \in Worker, stage'[w] # stage[w]
    PROVE  Loop(w)
<1>1. CASE Others \/ ExpireExhausted \/ Tick
  BY <1>1 DEF Others, Enqueue, Cancel, Promote, Repair, Retry, Reset, ExpireExhausted,
              Tick, loops
<1>2. ASSUME NEW v \in Worker, Loop(v), v # w
      PROVE  FALSE
  <2>1. \/ stage' = stage
        \/ \E s \in Stage : stage' = [stage EXCEPT ![v] = s]
    BY <1>2 DEF Loop, Lease, Heartbeat, Outcome, Finish, Fail, FailPermanently, Defer,
                PollInvitation, RateLimit, MoveOn, Crash, BecomeIdle, Reported, Stage, loops
  <2> QED
    BY <1>2, <2>1 DEF QueueInv, TypeOK
<1> QED
  BY <1>1, <1>2 DEF Next

\* The report of a worker that does not hold its lease leaves the table alone.
LEMMA StaleReport ==
    ASSUME QueueInv, NEW w \in Worker, stage[w] = "working", stage'[w] # "working",
           Loop(w), ~HoldsLease(w)
    PROVE  UNCHANGED rows
<1>1. ~Fenced(w)
  BY DEF Fenced, HoldsLease, Live
<1>2. Outcome(w) \/ Crash(w)
  BY DEF Loop, Lease, Heartbeat, PollInvitation, RateLimit, MoveOn, loops
<1> QED
  BY <1>1, <1>2 DEF Outcome, Finish, Fail, FailPermanently, Defer, Crash, rows

\* After its report a worker touches its row only if it is pending or done.
LEMMA AfterReport ==
    ASSUME QueueInv, NEW w \in Worker, stage[w] \in {"finished", "failed"},
           stage'[w] # stage[w], Loop(w), NEW t \in Task, status[t] = "leased"
    PROVE  /\ status'[t] = status[t] /\ attempts'[t] = attempts[t]
           /\ wait'[t] = wait[t]
<1>1. PollInvitation(w) \/ RateLimit(w) \/ MoveOn(w)
  BY DEF Loop, Lease, Heartbeat, Outcome, Finish, Fail, FailPermanently, Defer, Crash,
         Fenced
<1>2. CASE PollInvitation(w)
  BY <1>2 DEF PollInvitation, QueueInv, TypeOK
<1>3. CASE RateLimit(w)
  BY <1>3 DEF RateLimit, QueueInv, TypeOK
<1>4. CASE MoveOn(w)
  BY <1>4 DEF MoveOn, rows
<1> QED
  BY <1>1, <1>2, <1>3, <1>4

\* A worker that lost its lease changes no row as it reports, and no worker
\* touches a leased row after its report.
THEOREM StaleWorker == Spec => StaleWorkerChangesNothing
<1>1. QueueInv /\ [Next]_vars =>
        [\A w \in Worker : stage'[w] # stage[w] =>
           /\ stage[w] = "working" /\ ~HoldsLease(w) => UNCHANGED rows
           /\ stage[w] \in {"finished", "failed"} =>
                \A t \in Task : status[t] = "leased" =>
                  /\ status'[t] = status[t] /\ attempts'[t] = attempts[t]
                  /\ wait'[t] = wait[t]]_vars
  BY OwnStage, StaleReport, AfterReport
<1> QED
  BY <1>1, QueueInvariant, PTL DEF Spec, StaleWorkerChangesNothing

-----------------------------------------------------------------------------
(* The queue implements the lease board.  Every step of TaskQueue, read      *)
(* through BoardPhase, BoardHolder and BoardBusy, is a step of LeaseBoard or *)
(* changes nothing there.  The tokens matter in one place: a fenced report   *)
(* comes from the worker the row names as its owner (TokenNamesOwner).       *)

-----------------------------------------------------------------------------
(* How the board follows the table, one row or one worker at a time.        *)

\* A step that touches one row touches one entry of the board.
LEMMA OneRow ==
    ASSUME NEW t \in Task,
           \A u \in Task \ {t} : /\ status'[u] = status[u]
                                 /\ ttl'[u] = ttl[u]
                                 /\ owner'[u] = owner[u]
    PROVE  /\ BoardPhase' = [BoardPhase EXCEPT ![t] = BoardPhase'[t]]
           /\ BoardHolder' = [BoardHolder EXCEPT ![t] = BoardHolder'[t]]
BY ZenonT(30) DEF BoardPhase, BoardHolder, Live

\* The board does not see a step that leaves statuses, lease times and owners alone.
LEMMA SameRows ==
    ASSUME UNCHANGED <<status, ttl, owner>>
    PROVE  BoardPhase' = BoardPhase /\ BoardHolder' = BoardHolder
BY DEF BoardPhase, BoardHolder, Live

\* Nor one that leaves the worker loops alone.
LEMMA SameLoops ==
    ASSUME UNCHANGED <<stage, work>>
    PROVE  BoardBusy' = BoardBusy
BY DEF BoardBusy

\* A worker that stops working is no longer busy.
LEMMA StopsWorking ==
    ASSUME QueueInv, NEW w \in Worker, BecomeIdle(w) \/ Reported(w)
    PROVE  BoardBusy' = [BoardBusy EXCEPT ![w] = None]
BY DEF BoardBusy, BecomeIdle, Reported, QueueInv, TypeOK

\* A row that nobody holds takes a new status.
LEMMA UnheldMoves ==
    ASSUME QueueInv, NEW t \in Task, NEW s \in Status,
           status' = [status EXCEPT ![t] = s], UNCHANGED <<owner, ttl>>,
           ~Live(t), s # "leased"
    PROVE  /\ BoardPhase' = [BoardPhase EXCEPT ![t] = BoardPhase'[t]]
           /\ BoardPhase'[t] = CASE s = "absent" -> "absent"
                                 [] s = "pending" -> "open"
                                 [] OTHER -> "settled"
           /\ BoardHolder' = BoardHolder
<1>1. /\ BoardPhase' = [BoardPhase EXCEPT ![t] = BoardPhase'[t]]
      /\ BoardHolder' = [BoardHolder EXCEPT ![t] = BoardHolder'[t]]
  BY OneRow DEF QueueInv, TypeOK
<1>2. status'[t] = s
  BY DEF QueueInv, TypeOK
<1>3. BoardHolder[t] = None /\ BoardHolder'[t] = None
  BY <1>2 DEF BoardHolder, Live
<1>4. BoardHolder' = BoardHolder
  BY <1>1, <1>3 DEF BoardHolder
<1> QED
  BY <1>1, <1>2, <1>4 DEF BoardPhase

-----------------------------------------------------------------------------
(* Statements of other components.                                          *)

\* enqueue posts a task that was not there.
LEMMA EnqueuePosts ==
    ASSUME QueueInv, NEW t \in Task, Enqueue(t)
    PROVE  Board!Post(t)
<1>1. BoardBusy' = BoardBusy
  BY SameLoops DEF Enqueue, loops
<1>2. BoardPhase[t] = "absent"
  BY DEF Enqueue, BoardPhase
<1>3. /\ BoardPhase' = [BoardPhase EXCEPT ![t] = "open"]
      /\ BoardHolder' = BoardHolder
  BY UnheldMoves DEF Enqueue, Live, Status
<1> QED
  BY <1>1, <1>2, <1>3 DEF Board!Post

\* Cancelling a pending task withdraws it.
LEMMA CancelWithdraws ==
    ASSUME QueueInv, NEW t \in Task, Cancel(t)
    PROVE  Board!Withdraw({t})
<1>1. BoardBusy' = BoardBusy
  BY SameLoops DEF Cancel, loops
<1>2. BoardPhase[t] = "open"
  BY DEF Cancel, BoardPhase
<1>3. /\ BoardPhase' = [BoardPhase EXCEPT ![t] = "settled"]
      /\ BoardHolder' = BoardHolder
  BY UnheldMoves DEF Cancel, Live, Status
<1>4. BoardPhase' = [u \in Task |-> IF u \in {t} THEN "settled" ELSE BoardPhase[u]]
  BY <1>3 DEF BoardPhase
<1> QED
  BY <1>1, <1>2, <1>3, <1>4 DEF Board!Withdraw

\* A failed, cancelled or done task that is pending again is open again.
LEMMA ResetReopens ==
    ASSUME QueueInv, NEW t \in Task, Reset(t), status[t] \in {"done", "failed", "cancelled"}
    PROVE  Board!Reopen(t)
<1>1. BoardBusy' = BoardBusy
  BY SameLoops DEF Reset, loops
<1>2. BoardPhase[t] = "settled"
  BY DEF BoardPhase
<1>3. /\ BoardPhase' = [BoardPhase EXCEPT ![t] = "open"]
      /\ BoardHolder' = BoardHolder
  BY UnheldMoves DEF Reset, Live, Status
<1> QED
  BY <1>1, <1>2, <1>3 DEF Board!Reopen

\* Every statement of another component is a step of the board.
LEMMA OthersStep ==
    ASSUME QueueInv, Others
    PROVE  Board!Next \/ UNCHANGED Board!vars
<1>1. PICK t \in Task : Enqueue(t) \/ Cancel(t) \/ Promote(t) \/ Repair(t) \/ Retry(t)
  BY DEF Others
<1>2. CASE Enqueue(t)
  BY <1>2, EnqueuePosts DEF Board!Next
<1>3. CASE Cancel(t)
  BY <1>3, CancelWithdraws DEF Board!Next
<1>4. CASE Reset(t) /\ status[t] \in {"done", "failed", "cancelled"}
  BY <1>4, ResetReopens DEF Board!Next
<1>5. CASE UNCHANGED <<status, ttl, owner, stage, work>>
  BY <1>5, SameRows, SameLoops DEF Board!vars
<1> QED
  BY <1>1, <1>2, <1>3, <1>4, <1>5 DEF Promote, Repair, Retry, loops

-----------------------------------------------------------------------------
(* Time and exhausted leases.                                               *)

\* expire_exhausted withdraws tasks whose lease has lapsed.
LEMMA ExpireWithdraws ==
    ASSUME QueueInv, ExpireExhausted
    PROVE  Board!Next
<1> DEFINE dead == {t \in Task : Expired(t) /\ attempts[t] >= MaxAttempts}
<1>1. /\ dead # {}
      /\ status' = [t \in Task |-> IF t \in dead THEN "failed" ELSE status[t]]
      /\ UNCHANGED <<owner, ttl, loops>>
  BY DEF ExpireExhausted
<1>2. \A t \in dead : t \in Task /\ status[t] = "leased" /\ ttl[t] < 0
  BY DEF Expired
<1> HIDE DEF dead
<1>3. BoardBusy' = BoardBusy
  BY <1>1, SameLoops DEF loops
<1>4. \A t \in dead : BoardPhase[t] = "open"
  BY <1>2 DEF BoardPhase, QueueInv, TypeOK
<1>5. BoardPhase' = [t \in Task |-> IF t \in dead THEN "settled" ELSE BoardPhase[t]]
  BY <1>1 DEF BoardPhase
<1>6. BoardHolder' = BoardHolder
  BY <1>1, <1>2 DEF BoardHolder, Live, QueueInv, TypeOK
<1>7. dead \in SUBSET Task
  BY <1>2
<1> QED
  BY <1>1, <1>3, <1>4, <1>5, <1>6, <1>7 DEF Board!Next, Board!Withdraw

\* Time makes leases lapse.
LEMMA TickLapses ==
    ASSUME QueueInv, Tick
    PROVE  Board!Next \/ UNCHANGED Board!vars
<1> DEFINE S == {t \in Task : status[t] = "leased" /\ ttl[t] = 1}
<1>1. /\ ttl' = [t \in Task |-> IF ttl[t] >= 0 THEN ttl[t] - 1 ELSE -1]
      /\ UNCHANGED <<status, owner, loops>>
  BY DEF Tick
<1>2. BoardBusy' = BoardBusy
  BY <1>1, SameLoops DEF loops
<1>3. \A t \in S : BoardPhase[t] = "claimed"
  BY DEF BoardPhase
<1>4. \A t \in Task : /\ ttl[t] \in -1..LeaseTerm
                      /\ (ttl'[t] > 0) <=> (ttl[t] > 0 /\ ttl[t] # 1)
  BY <1>1, QueueAssumption DEF QueueInv, TypeOK
<1>5. BoardPhase' = [t \in Task |-> IF t \in S THEN "open" ELSE BoardPhase[t]]
  BY <1>1, <1>4 DEF BoardPhase
<1>6. BoardHolder' = [t \in Task |-> IF t \in S THEN None ELSE BoardHolder[t]]
  BY <1>1, <1>4 DEF BoardHolder, Live
<1>7. S \in SUBSET Task
  OBVIOUS
<1> HIDE DEF S
<1>8. CASE S = {}
  BY <1>2, <1>5, <1>6, <1>8 DEF Board!vars, BoardPhase, BoardHolder
<1>9. CASE S # {}
  BY <1>2, <1>3, <1>5, <1>6, <1>7, <1>9 DEF Board!Next, Board!Lapse
<1> QED
  BY <1>8, <1>9

-----------------------------------------------------------------------------
(* Worker loops.                                                            *)

\* lease is a claim of an open task by an idle worker.
LEMMA LeaseClaims ==
    ASSUME QueueInv, NEW w \in Worker, NEW t \in Task, Lease(w, t)
    PROVE  Board!Claim(w, t)
<1>1. /\ \E k : work' = [work EXCEPT ![w] = [task |-> t, token |-> k]]
      /\ stage' = [stage EXCEPT ![w] = "working"]
      /\ status' = [status EXCEPT ![t] = "leased"]
      /\ owner' = [owner EXCEPT ![t] = w]
      /\ ttl' = [ttl EXCEPT ![t] = LeaseTerm]
      /\ stage[w] = "idle"
  BY DEF Lease
<1>2. BoardPhase[t] = "open"
  BY DEF Lease, Leasable, Expired, BoardPhase, QueueInv, TypeOK
<1>3. BoardBusy[w] = None
  BY <1>1 DEF BoardBusy
<1>4. BoardBusy' = [BoardBusy EXCEPT ![w] = t]
  <2>1. PICK k : work' = [work EXCEPT ![w] = [task |-> t, token |-> k]]
    BY <1>1
  <2>2. work'[w].task = t /\ stage'[w] = "working"
    BY <1>1, <2>1 DEF QueueInv, TypeOK
  <2>3. \A v \in Worker \ {w} : work'[v] = work[v] /\ stage'[v] = stage[v]
    BY <1>1, <2>1 DEF QueueInv, TypeOK
  <2> QED
    BY <2>2, <2>3 DEF BoardBusy
<1>5. /\ BoardPhase' = [BoardPhase EXCEPT ![t] = BoardPhase'[t]]
      /\ BoardHolder' = [BoardHolder EXCEPT ![t] = BoardHolder'[t]]
  BY <1>1, OneRow DEF QueueInv, TypeOK
<1>6. status'[t] = "leased" /\ owner'[t] = w /\ ttl'[t] > 0
  BY <1>1, QueueAssumption DEF QueueInv, TypeOK
<1>7. BoardPhase'[t] = "claimed" /\ BoardHolder'[t] = w
  BY <1>6 DEF BoardPhase, BoardHolder, Live
<1> QED
  BY <1>2, <1>3, <1>4, <1>5, <1>7 DEF Board!Claim

\* A fenced report: the worker is the owner of a live row and gives it up.
LEMMA FencedReports ==
    ASSUME QueueInv, NEW w \in Worker, Fenced(w), NEW s \in {"pending", "done", "failed"},
           status' = [status EXCEPT ![work[w].task] = s], UNCHANGED <<owner, ttl>>,
           BoardBusy' = [BoardBusy EXCEPT ![w] = None]
    PROVE  Board!Next
<1> DEFINE t == work[w].task
<1>1. t \in Task /\ stage[w] = "working"
  BY DEF Fenced, QueueInv, TypeOK, NoWork
<1>2. owner[t] = w /\ Live(t)
  BY <1>1 DEF Fenced, QueueInv, TokenNamesOwner
<1>3. BoardPhase[t] = "claimed" /\ BoardHolder[t] = w /\ BoardBusy[w] = t
  BY <1>1, <1>2 DEF BoardPhase, BoardHolder, BoardBusy, Live
<1>4. /\ BoardPhase' = [BoardPhase EXCEPT ![t] = BoardPhase'[t]]
      /\ BoardHolder' = [BoardHolder EXCEPT ![t] = BoardHolder'[t]]
  BY <1>1, OneRow DEF QueueInv, TypeOK
<1>5. status'[t] = s
  BY <1>1 DEF QueueInv, TypeOK
<1>6. BoardPhase'[t] \in {"open", "settled"} /\ BoardHolder'[t] = None
  BY <1>1, <1>5 DEF BoardPhase, BoardHolder, Live
<1> HIDE DEF t
<1>7. Board!Report(w, t)
  BY <1>3, <1>4, <1>6 DEF Board!Report
<1> QED
  BY <1>1, <1>7 DEF Board!Next

\* A worker that reports without its lease, or dies, walks away.
LEMMA StaleWalksAway ==
    ASSUME QueueInv, NEW w \in Worker, stage[w] = "working",
           UNCHANGED <<status, ttl, owner>>,
           BoardBusy' = [BoardBusy EXCEPT ![w] = None]
    PROVE  Board!Next
<1>1. work[w].task \in Task
  BY DEF QueueInv, TypeOK, NoWork
<1>2. BoardBusy[w] # None
  BY <1>1, QueueAssumption DEF BoardBusy
<1> QED
  BY <1>2, SameRows DEF Board!Next, Board!WalkAway

\* A worker that is past its report is not busy, and becoming idle shows nothing.
LEMMA PastReport ==
    ASSUME QueueInv, NEW w \in Worker, stage[w] \in {"finished", "failed"}, BecomeIdle(w)
    PROVE  BoardBusy' = BoardBusy
<1>1. BoardBusy' = [BoardBusy EXCEPT ![w] = None]
  BY StopsWorking
<1>2. BoardBusy[w] = None
  BY DEF BoardBusy
<1> QED
  BY <1>1, <1>2 DEF BoardBusy

\* finish, fail, fail_permanently and defer: a report or a walk away.
LEMMA OutcomeStep ==
    ASSUME QueueInv, NEW w \in Worker, Outcome(w)
    PROVE  Board!Next
<1>1. /\ stage[w] = "working"
      /\ UNCHANGED <<owner, ttl>>
  BY DEF Outcome, Finish, Fail, FailPermanently, Defer
<1>2. BoardBusy' = [BoardBusy EXCEPT ![w] = None]
  <2>1. CASE BecomeIdle(w) \/ Reported(w)
    BY <2>1, StopsWorking
  <2>2. CASE stage' = [stage EXCEPT ![w] = "finished"] /\ work' = work
    BY <2>2 DEF BoardBusy, QueueInv, TypeOK
  <2> QED
    BY <2>1, <2>2 DEF Outcome, Finish, Fail, FailPermanently, Defer
<1>3. CASE Fenced(w)
  <2>1. \E s \in {"pending", "done", "failed"} : status' = [status EXCEPT ![work[w].task] = s]
    BY <1>3 DEF Outcome, Finish, Fail, FailPermanently, Defer
  <2> QED
    BY <1>1, <1>2, <1>3, <2>1, FencedReports
<1>4. CASE ~Fenced(w)
  <2>1. status' = status
    BY <1>4 DEF Outcome, Finish, Fail, FailPermanently, Defer
  <2> QED
    BY <1>1, <1>2, <2>1, StaleWalksAway
<1> QED
  BY <1>3, <1>4

\* The invitation poll reopens a settled task, or does nothing.
LEMMA PollReopens ==
    ASSUME QueueInv, NEW w \in Worker, PollInvitation(w)
    PROVE  Board!Next \/ UNCHANGED Board!vars
<1> DEFINE t == work[w].task
<1>1. t \in Task
  BY DEF PollInvitation, QueueInv, TypeOK, NoWork
<1>2. BoardBusy' = BoardBusy
  BY PastReport DEF PollInvitation
<1>3. CASE status' = status
  BY <1>2, <1>3, SameRows DEF PollInvitation, Board!vars
<1>4. CASE status[t] = "done" /\ status' = [status EXCEPT ![t] = "pending"]
  <2>1. BoardPhase[t] = "settled"
    BY <1>1, <1>4 DEF BoardPhase
  <2>2. /\ BoardPhase' = [BoardPhase EXCEPT ![t] = "open"]
        /\ BoardHolder' = BoardHolder
    BY <1>1, <1>4, UnheldMoves DEF PollInvitation, Live, Status
  <2>3. Board!Reopen(t)
    BY <1>2, <2>1, <2>2 DEF Board!Reopen
  <2> QED
    BY <1>1, <2>3 DEF Board!Next
<1> QED
  BY <1>3, <1>4 DEF PollInvitation

\* A heartbeat does not show on the board.
LEMMA HeartbeatStutters ==
    ASSUME QueueInv, NEW w \in Worker, Heartbeat(w)
    PROVE  UNCHANGED Board!vars
<1> DEFINE t == work[w].task
<1>1. t \in Task
  BY DEF Heartbeat, Fenced, QueueInv, TypeOK, NoWork
<1>2. /\ status' = status /\ owner' = owner
      /\ \A u \in Task : (ttl'[u] > 0) <=> (ttl[u] > 0)
  BY <1>1, QueueAssumption DEF Heartbeat, Fenced, Live, QueueInv, TypeOK
<1>3. BoardPhase' = BoardPhase /\ BoardHolder' = BoardHolder
  BY <1>2 DEF BoardPhase, BoardHolder, Live
<1> QED
  BY <1>3, SameLoops DEF Heartbeat, loops, Board!vars

\* Every step of a worker loop is a step of the board, or none.
LEMMA LoopStepsBoard ==
    ASSUME QueueInv, NEW w \in Worker, Loop(w)
    PROVE  Board!Next \/ UNCHANGED Board!vars
<1>1. CASE \E t \in Task : Lease(w, t)
  BY <1>1, LeaseClaims DEF Board!Next
<1>2. CASE Crash(w)
  <2>1. BoardBusy' = [BoardBusy EXCEPT ![w] = None]
    BY <1>2, StopsWorking DEF Crash
  <2> QED
    BY <1>2, <2>1, StaleWalksAway DEF Crash, rows
<1>3. CASE RateLimit(w) \/ MoveOn(w)
  <2>1. BoardBusy' = BoardBusy
    BY <1>3, PastReport DEF RateLimit, MoveOn
  <2> QED
    BY <1>3, <2>1, SameRows DEF RateLimit, MoveOn, rows, Board!vars
<1> QED
  BY <1>1, <1>2, <1>3, HeartbeatStutters, OutcomeStep, PollReopens DEF Loop

-----------------------------------------------------------------------------

\* The queue keeps the board's promise: a task is claimed by one worker at a
\* time, and settled or given back only by the worker whose claim is live.
THEOREM QueueImplementsBoard == Spec => BoardSpec
<1>1. Init => Board!Init
  BY DEF Init, Board!Init, BoardPhase, BoardHolder, BoardBusy, Live
<1>2. QueueInv /\ [Next]_vars => [Board!Next]_(Board!vars)
  <2> SUFFICES ASSUME QueueInv, [Next]_vars
               PROVE  Board!Next \/ UNCHANGED Board!vars
    OBVIOUS
  <2>1. CASE UNCHANGED vars
    BY <2>1, SameRows, SameLoops DEF vars, rows, loops, Board!vars
  <2> QED
    BY <2>1, OthersStep, ExpireWithdraws, TickLapses, LoopStepsBoard DEF Next
<1> QED
  BY <1>1, <1>2, QueueInvariant, PTL DEF Spec, BoardSpec, Board!Spec
=============================================================================
