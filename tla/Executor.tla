------------------------------ MODULE Executor ------------------------------
(***************************************************************************)
(* The grading executor (crates/executor): one process that takes a        *)
(* grading lease, checks and stages the submission, runs the instructor's  *)
(* controller Job, serves the controller's requests with student Jobs,     *)
(* stops all Jobs of the lease, posts the result and removes the staging   *)
(* directory when no Pod can have it mounted any more.                     *)
(*                                                                         *)
(* Interleaved with it: Kubernetes, which starts Pods, ends Jobs and       *)
(* removes Pods in its own time; the controller, which writes its request  *)
(* file when it likes; a heartbeat that is refused, which drops whatever   *)
(* the executor is doing; death and restart of the process.  A request to  *)
(* create a Job that is dropped, or whose answer is lost, may still arrive. *)
(*                                                                         *)
(* What the control plane does with leases and results is module Grading.  *)
(* A log entry is its length; a score is what its validation looks at.     *)
(***************************************************************************)
EXTENDS Naturals, FiniteSets

CONSTANTS Token,          \* leases
          Private,        \* the leases of private runs
          NoToken,
          RequestId,      \* ids of execution requests
          Body,           \* contents of a request
          MaxLogEntries,  \* 128
          MaxLogBytes,    \* MAX_RUN_LOG_BYTES
          MaxFindings,    \* 10,000
          MaxLeases,      \* bound: leases that are taken
          MaxTrouble      \* bound: refused heartbeats, deaths, failing calls

ASSUME ExecutorAssumption ==
    /\ NoToken \notin Token
    /\ Private \subseteq Token
    /\ "controller" \notin RequestId /\ NoToken \notin RequestId
    /\ MaxLogEntries \in Nat /\ MaxLogBytes \in Nat /\ MaxFindings \in Nat
    /\ MaxLeases \in Nat /\ MaxTrouble \in Nat

VARIABLES
    ex,       \* where the executor is: its step, its lease, the request it serves
    taken,    \* leases so far
    kube,     \* the Jobs of each lease and their Pods
    arriving, \* Jobs whose creation was given up and may still happen
    dir,      \* staging_root/runs/<lease>
    aged,     \* its directory is older than the grace period
    doomed,   \* the directories that cleanup is about to remove
    channel,  \* control/request.json, control/response.json
    handled,  \* the map of serve: requests it has answered, and their contents
    answered, \* history: all requests of this run with a response
    over,     \* the run has used up its time limit
    result,   \* the RunResult
    log,      \* the Capture
    astray,   \* history: leases with a Job that nobody stopped in time
    tardy,    \* history: leases with a Pod that started after the run was marked
              \* as finished
    trouble

disk == <<dir, aged, doomed>>
exchange == <<channel, handled, answered>>
execution == <<exchange, over, result, log>>
strays == <<astray, tardy>>
exVars == <<ex, taken, kube, arriving, disk, execution, strays, trouble>>

JobName == {"controller"} \cup RequestId
\* A Job is "none", "created" (it has no Pod yet), "running", "ended" (it keeps its
\* Pod), "orphan" (deleted; its Pod is still there, at work or not) or "gone".
Listed == {"running", "ended", "orphan"}
HasPod(l) == \E j \in JobName : kube[l][j] \in Listed

Nothing == <<NoToken, NoToken>>
Idle == [at |-> "poll", lease |-> NoToken, serving |-> Nothing]
NoLog == [entries |-> 0, bytes |-> 0, visible |-> FALSE]
NoMail == [request |-> Nothing, response |-> NoToken]
\* The public points once more, other points, or none; with a reason or without.
Score == [points : {"unchanged", "changed", "invalidated"}, reason : BOOLEAN]
NoScore == [points |-> "none", reason |-> FALSE]

\* initial_result.
Failure(status) == [status |-> status, findings |-> 0, score |-> NoScore]
NoResult == Failure("none")

ExInit ==
    /\ ex = Idle
    /\ taken = {}
    /\ kube = [l \in Token |-> [j \in JobName |-> "none"]]
    /\ arriving = {}
    /\ dir = [l \in Token |-> "none"]
    /\ aged = {}
    /\ doomed = {}
    /\ channel = NoMail
    /\ handled = {}
    /\ answered = {}
    /\ over = FALSE
    /\ result = NoResult
    /\ log = NoLog
    /\ astray = {}
    /\ tardy = {}
    /\ trouble = 0

ExGoto(at) == ex' = [ex EXCEPT !.at = at]

-----------------------------------------------------------------------------
(* What is sent to the control plane, and what it accepts.                 *)

\* Mutant: an entry is cut at the limit, not at what is left of it.
PushWhole(visible, bytes) ==
    IF log.entries >= MaxLogEntries THEN log
    ELSE [entries |-> log.entries + 1,
          bytes |-> log.bytes + (IF bytes > MaxLogBytes THEN MaxLogBytes ELSE bytes),
          visible |-> log.visible \/ visible]

\* Capture::push.
Push(visible, bytes) ==
    LET room == MaxLogBytes - log.bytes
        end == IF bytes < room THEN bytes ELSE room
    IN IF log.entries >= MaxLogEntries \/ end = 0 THEN log
       ELSE [entries |-> log.entries + 1, bytes |-> log.bytes + end,
             visible |-> log.visible \/ visible]

\* ScriptScore::validate.
ScoreIsValid(score, l) ==
    /\ score \in Score
    /\ score.points = "invalidated" => l \in Private
    /\ l \in Private /\ score.points # "unchanged" => score.reason

\* RunResult::validate, on the server.
IsAcceptable(r, l) ==
    /\ log.entries <= MaxLogEntries /\ log.bytes <= MaxLogBytes
    /\ l \in Private => ~log.visible
    /\ r.findings <= MaxFindings
    /\ IF r.status \in {"completed", "invalidated"}
       THEN /\ r.findings = 0
            /\ ScoreIsValid(r.score, l)
            /\ r.score.points = "invalidated" <=> r.status = "invalidated"
       ELSE /\ r.score = NoScore
            /\ r.findings > 0 => r.status = "integrity_failed"

\* The execution ends, and the heartbeat with it: serve is dropped, with its map,
\* and nobody reads the channel or looks at the time limit any more.
EndExecution ==
    /\ ex' = [ex EXCEPT !.at = "stop", !.serving = Nothing]
    /\ channel' = NoMail /\ handled' = {} /\ answered' = {} /\ over' = FALSE

Conclude(r) == EndExecution /\ result' = r

\* execute: an error is an infrastructure failure, and the log says so.
Abort ==
    /\ Conclude(Failure("infrastructure_failed"))
    /\ log' = Push(ex.lease \notin Private, 1)

-----------------------------------------------------------------------------
(* From the lease to the controller Job.                                   *)

\* A new lease has a new token.
TakeLease(l) ==
    /\ ex.at = "poll"
    /\ l \notin taken
    /\ Cardinality(taken) < MaxLeases
    /\ taken' = taken \cup {l}
    /\ ex' = [Idle EXCEPT !.at = "check", !.lease = l]
    /\ UNCHANGED <<kube, arriving, disk, execution, strays, trouble>>

\* approve: a lease outside the executor's limits is an infrastructure failure.
Approve ==
    /\ ex.at = "check"
    /\ \/ ExGoto("fetch") /\ UNCHANGED execution
       \/ Conclude(Failure("infrastructure_failed")) /\ UNCHANGED log
    /\ UNCHANGED <<taken, kube, arriving, disk, strays, trouble>>

\* The cache seed is verified, the source is fetched and compared with its
\* digest and with the manifest.  check has a finding for every file of the
\* template that is not as it was and for every file that was added: together
\* they may be more than RunResult::validate takes.
FetchSource ==
    /\ ex.at = "fetch"
    /\ \/ ExGoto("stage") /\ UNCHANGED execution
       \/ Abort
       \/ /\ \E n \in 1 .. MaxFindings + 1 :
                Conclude([Failure("integrity_failed") EXCEPT !.findings = n])
          /\ UNCHANGED log
    /\ UNCHANGED <<taken, kube, arriving, disk, strays, trouble>>

\* The directory is made, then grader and source are written to it.
StageFiles ==
    /\ ex.at = "stage"
    /\ dir' = [dir EXCEPT ![ex.lease] = "staged"]
    /\ (ExGoto("launch") /\ UNCHANGED execution) \/ Abort
    /\ UNCHANGED <<taken, kube, arriving, aged, doomed, strays, trouble>>

\* Every Job carries the lease as a label and a deadline of its own; its Pod
\* comes later.
CreateJob(j) == kube' = [kube EXCEPT ![ex.lease][j] = "created"]

\* controller_job: the instructor's command, with the channel but no network.
CreateController == CreateJob("controller")

\* execution_job: the student's files and one request's input.
CreateStudentJob(q) == CreateJob(q)

LaunchController ==
    /\ ex.at = "launch"
    /\ CreateController
    /\ ExGoto("run")
    /\ UNCHANGED <<taken, arriving, disk, execution, strays, trouble>>

-----------------------------------------------------------------------------
(* workflow::execute: the controller's Job against serve.                  *)

Running == ex.at = "run"

\* The controller writes a request: a new one, or an old one again.
Ask(q, b) ==
    /\ Running
    /\ kube[ex.lease]["controller"] = "running"
    /\ channel' = [channel EXCEPT !.request = <<q, b>>]
    /\ UNCHANGED <<ex, taken, kube, arriving, disk, handled, answered, over, result, log,
                   strays, trouble>>

\* serve is idle and reads an id that it has not answered.
IsFresh ==
    /\ Running /\ ex.serving = Nothing
    /\ channel.request # Nothing
    /\ \A h \in handled : h[1] # channel.request[1]

\* serve creates a student Job for it, after a directory for its input, which
\* cannot be made a second time.
ServeRequest ==
    /\ IsFresh
    /\ ~over
    /\ kube[ex.lease][channel.request[1]] = "none"
    /\ CreateStudentJob(channel.request[1])
    /\ ex' = [ex EXCEPT !.serving = channel.request]
    /\ UNCHANGED <<taken, arriving, disk, execution, strays, trouble>>

\* ExecutionRequest::validate refuses it, it is one too many, or there is a
\* directory with its id.
RefuseRequest ==
    /\ IsFresh
    /\ Abort
    /\ UNCHANGED <<taken, kube, arriving, disk, strays, trouble>>

\* An answered id with other contents ends the run.
RefuseReplay ==
    /\ Running /\ ex.serving = Nothing
    /\ \E h \in handled : h[1] = channel.request[1] /\ h[2] # channel.request[2]
    /\ Abort
    /\ UNCHANGED <<taken, kube, arriving, disk, strays, trouble>>

\* DeleteParams::default() names no propagation policy, and then Kubernetes keeps
\* the Pods of a Job of batch/v1.  Without its Job nothing ends or removes the Pod.
DeletedJob(state) ==
    CASE state = "created" -> "gone"
      [] state \in {"running", "ended"} -> "orphan"
      [] OTHER -> state
DeleteJob(l, j) == kube' = [kube EXCEPT ![l][j] = DeletedJob(@)]

\* logs::wait: what the student's program printed, if the student may see it.
LogOutput == \E bytes \in 1..2 : log' = Push(ex.lease \notin Private, bytes)

\* Mutant: only the last request is remembered.
RememberLast(request) == {request}

Remember(request) == handled \cup {request}

\* The student Job has ended, by itself or by its own deadline; its output is
\* logged, the Job deleted, the response renamed into place.  A supervisor
\* whose output cannot be decoded ends the run.
AnswerRequest ==
    LET q == ex.serving[1] IN
    /\ Running /\ ex.serving # Nothing
    /\ kube[ex.lease][q] = "ended"
    /\ \/ /\ LogOutput
          /\ DeleteJob(ex.lease, q)
          /\ handled' = Remember(ex.serving)
          /\ answered' = answered \cup {ex.serving}
          /\ channel' = [channel EXCEPT !.response = q]
          /\ ex' = [ex EXCEPT !.serving = Nothing]
          /\ UNCHANGED <<over, result>>
       \/ Abort /\ UNCHANGED kube
    /\ UNCHANGED <<taken, arriving, disk, strays, trouble>>

\* The time limit has passed: wait_job notices it, for whichever Job, or serve
\* does when it reads a request.
RunTimesOut ==
    /\ Running /\ over
    /\ Conclude(Failure("timed_out"))
    /\ log' = Push(FALSE, 1)
    /\ kube' = [kube EXCEPT ![ex.lease]["controller"] = DeletedJob(@)]
    /\ UNCHANGED <<taken, arriving, disk, strays, trouble>>

\* The controller has ended: serve is dropped with the student Job it may have
\* running, and the output is the score if it is valid.
CollectScore ==
    /\ Running
    /\ kube[ex.lease]["controller"] = "ended"
    /\ DeleteJob(ex.lease, "controller")
    /\ \/ \E score \in Score :
            /\ ScoreIsValid(score, ex.lease)
            /\ Conclude([status |-> IF score.points = "invalidated" THEN "invalidated"
                                   ELSE "completed",
                         findings |-> 0, score |-> score])
            /\ log' = Push(FALSE, 1)
       \/ Conclude(Failure("infrastructure_failed")) /\ log' = Push(FALSE, 1)
       \/ Abort
    /\ UNCHANGED <<taken, arriving, disk, strays, trouble>>

-----------------------------------------------------------------------------
(* The end of a run.                                                       *)

Executing == ex.at \in {"check", "fetch", "stage", "launch", "run"}

\* The Job whose creation may be under way when the execution is dropped.
UnderWay ==
    CASE ex.at = "launch" -> {<<ex.lease, "controller">>}
      [] IsFresh -> {<<ex.lease, channel.request[1]>>}
      [] OTHER -> {}

\* Its request may have left and arrive after all.
GiveUp == \E sent \in SUBSET UnderWay : arriving' = arriving \cup sent

\* A heartbeat is refused or fails: the execution is dropped, without result.
LoseHeartbeat ==
    /\ Executing
    /\ trouble < MaxTrouble
    /\ trouble' = trouble + 1
    /\ GiveUp
    /\ EndExecution
    /\ result' = NoResult /\ log' = NoLog
    /\ UNCHANGED <<taken, kube, disk, strays>>

\* A call to Kubernetes or to the control plane fails, or its answer is lost.
CallFails ==
    /\ Executing
    /\ trouble < MaxTrouble
    /\ trouble' = trouble + 1
    /\ GiveUp
    /\ Abort
    /\ UNCHANGED <<taken, kube, disk, strays>>

AfterStop == ExGoto(IF result = NoResult THEN "mark" ELSE "post")

\* Mutant: only the Jobs that the executor remembers are stopped.
StopController ==
    /\ ex.at = "stop"
    /\ kube' = [kube EXCEPT ![ex.lease]["controller"] = DeletedJob(@)]
    /\ AfterStop
    /\ UNCHANGED <<taken, arriving, disk, execution, strays, trouble>>

\* delete_collection by the lease's label.
StopJobs ==
    /\ ex.at = "stop"
    /\ kube' = [kube EXCEPT ![ex.lease] = [j \in JobName |-> DeletedJob(@[j])]]
    /\ AfterStop
    /\ UNCHANGED <<taken, arriving, disk, execution, strays, trouble>>

\* It fails, which is only logged: the Jobs' deadlines have to end them.
StopFails ==
    /\ ex.at = "stop"
    /\ trouble < MaxTrouble
    /\ trouble' = trouble + 1
    /\ astray' = astray \cup {ex.lease}
    /\ AfterStop
    /\ UNCHANGED <<taken, kube, arriving, disk, execution, tardy>>

\* Up to three posts, accepted or not.
PostResult ==
    /\ ex.at = "post"
    /\ ExGoto("mark")
    /\ UNCHANGED <<taken, kube, arriving, disk, execution, strays, trouble>>

\* What the run kept in memory is gone.
Forget ==
    /\ channel' = NoMail /\ handled' = {} /\ answered' = {} /\ over' = FALSE
    /\ result' = NoResult /\ log' = NoLog

MarkFinished ==
    /\ ex.at = "mark"
    /\ dir' = [dir EXCEPT ![ex.lease] = IF @ = "staged" THEN "finished" ELSE @]
    /\ ex' = [Idle EXCEPT !.at = IF dir[ex.lease] = "staged" THEN "sweep" ELSE "poll"]
    /\ Forget
    /\ UNCHANGED <<taken, kube, arriving, aged, doomed, strays, trouble>>

\* Death at any step; the service manager starts the process again.
ExecutorDies ==
    /\ trouble < MaxTrouble
    /\ ex.at # "poll"
    /\ trouble' = trouble + 1
    /\ GiveUp
    /\ astray' = IF ex.lease = NoToken THEN astray ELSE astray \cup {ex.lease}
    /\ ex' = Idle
    /\ doomed' = {}
    /\ Forget
    /\ UNCHANGED <<taken, kube, dir, aged, tardy>>

-----------------------------------------------------------------------------
(* cleanup::reconcile, every minute between runs and after each of them.   *)

\* Mutant: a finished run's directory goes whatever Kubernetes lists.
IsRemovableOnceFinished(l) == dir[l] = "finished" \/ (dir[l] = "staged" /\ l \in aged)

\* Mutant: what a crash has left behind stays.
IsRemovableIfMarked(l) == ~HasPod(l) /\ dir[l] = "finished"

\* Marked as finished, or older than the longest run and ten minutes; and no
\* Pod with the lease's label.
IsRemovable(l) ==
    /\ ~HasPod(l)
    /\ dir[l] = "finished" \/ (dir[l] = "staged" /\ l \in aged)

BeginSweep ==
    /\ ex.at = "poll"
    /\ \E l \in Token : dir[l] \in {"staged", "finished"}
    /\ ExGoto("sweep")
    /\ UNCHANGED <<taken, kube, arriving, disk, execution, strays, trouble>>

\* The Pods are listed and the clock is read,
ListPods ==
    /\ ex.at = "sweep"
    /\ doomed' = {l \in Token : IsRemovable(l)}
    /\ ExGoto("remove")
    /\ UNCHANGED <<taken, kube, arriving, dir, aged, execution, strays, trouble>>

\* which may fail; then nothing is removed.
ListFails ==
    /\ ex.at = "sweep"
    /\ trouble < MaxTrouble
    /\ trouble' = trouble + 1
    /\ ex' = Idle
    /\ UNCHANGED <<taken, kube, arriving, disk, execution, strays>>

\* Pods may have started since the list was made.
RemoveDirs ==
    /\ ex.at = "remove"
    /\ dir' = [l \in Token |-> IF l \in doomed THEN "removed" ELSE dir[l]]
    /\ doomed' = {}
    /\ ex' = Idle
    /\ UNCHANGED <<taken, kube, arriving, aged, execution, strays, trouble>>

-----------------------------------------------------------------------------
(* Kubernetes and time.                                                    *)

\* A Job gets its Pod.
PodStarts(l, j) ==
    /\ kube[l][j] = "created"
    /\ kube' = [kube EXCEPT ![l][j] = "running"]
    /\ tardy' = IF dir[l] = "staged" THEN tardy ELSE tardy \cup {l}
    /\ UNCHANGED <<ex, taken, arriving, disk, execution, astray, trouble>>

\* A Job ends, at the latest by activeDeadlineSeconds.
JobEnds(l, j) ==
    /\ kube[l][j] = "running"
    /\ kube' = [kube EXCEPT ![l][j] = "ended"]
    /\ UNCHANGED <<ex, taken, arriving, disk, execution, strays, trouble>>

\* A finished Job is deleted after its TTL, with its Pod.
PodGoes(l, j) ==
    /\ kube[l][j] = "ended" /\ ex.lease # l
    /\ kube' = [kube EXCEPT ![l][j] = "gone"]
    /\ UNCHANGED <<ex, taken, arriving, disk, execution, strays, trouble>>

\* Somebody or something removes the Pod of a deleted Job, or nobody does.
OrphanGoes(l, j) ==
    /\ kube[l][j] = "orphan"
    /\ kube' = [kube EXCEPT ![l][j] = "gone"]
    /\ UNCHANGED <<ex, taken, arriving, disk, execution, strays, trouble>>

\* A creation that was given up arrives after all, before the Jobs of the lease
\* are stopped or after.
JobArrives(l, j) ==
    /\ <<l, j>> \in arriving
    /\ arriving' = arriving \ {<<l, j>>}
    /\ kube' = [kube EXCEPT ![l][j] = IF @ = "none" THEN "created" ELSE @]
    /\ astray' = IF ex.lease = l /\ ex.at = "stop" THEN astray ELSE astray \cup {l}
    /\ UNCHANGED <<ex, taken, disk, execution, tardy, trouble>>

TimeIsUp ==
    /\ Running /\ ~over
    /\ over' = TRUE
    /\ UNCHANGED <<ex, taken, kube, arriving, disk, exchange, result, log, strays, trouble>>

\* The grace period is longer than any run, and ten minutes longer than it takes
\* until a request has arrived and its Job has a Pod.
GrowOld(l) ==
    /\ dir[l] \in {"staged", "finished"}
    /\ l \notin aged
    /\ ex.lease # l
    /\ \A j \in JobName : kube[l][j] # "created" /\ <<l, j>> \notin arriving
    /\ aged' = aged \cup {l}
    /\ UNCHANGED <<ex, taken, kube, arriving, dir, doomed, execution, strays, trouble>>

-----------------------------------------------------------------------------
ExecutorStep ==
    \/ Approve \/ FetchSource \/ StageFiles \/ LaunchController
    \/ ServeRequest \/ RefuseRequest \/ RefuseReplay \/ AnswerRequest \/ RunTimesOut \/ CollectScore
    \/ StopJobs \/ PostResult \/ MarkFinished \/ BeginSweep \/ ListPods \/ RemoveDirs

KubeStep(l) ==
    \/ GrowOld(l)
    \/ \E j \in JobName : PodStarts(l, j) \/ JobEnds(l, j) \/ PodGoes(l, j) \/ JobArrives(l, j)

ExNext ==
    \/ ExecutorStep \/ TimeIsUp
    \/ LoseHeartbeat \/ CallFails \/ StopFails \/ ListFails \/ ExecutorDies
    \/ \E l \in Token : TakeLease(l) \/ KubeStep(l) \/ \E j \in JobName : OrphanGoes(l, j)
    \/ \E q \in RequestId, b \in Body : Ask(q, b)

ExSpec == ExInit /\ [][ExNext]_exVars

-----------------------------------------------------------------------------
\* No result that the executor posts is refused for what it says: whatever ends
\* the run, logs stay within the limits and out of the student's sight where
\* the run is private, and score, findings and status agree as
\* RunResult::validate asks.  The exception is a submission with too many
\* findings: check does not limit them.
PostedIsAcceptable ==
    ex.at = "post" /\ result.findings <= MaxFindings => IsAcceptable(result, ex.lease)

\* A Pod never loses the directory it has mounted, whether the run came to its
\* end, its stop failed or the executor died ("Mounted staging survives",
\* docs/hardening.md:47), although Pods may start between the list and the
\* removal: only a Pod that starts when its run has been marked as finished may be
\* without one.
PodKeepsItsFiles ==
    \A l \in Token \ tardy : HasPod(l) => dir[l] \in {"staged", "finished"}

\* The executor takes the next lease only after all Jobs of the last one are
\* deleted: the student Job that was running, or waiting for its Pod, when the
\* controller ended, failed or timed out is not forgotten.
NoJobOutlivesItsRun ==
    \A l \in Token \ astray :
        l # ex.lease => \A j \in JobName : kube[l][j] \notin {"created", "running"}

\* A request is executed once, however often and in whatever order the controller
\* writes its requests again: an id that was answered in this run is never
\* executed again, and a repetition with the same contents does not end the run.
AnsweredOnce ==
    [][\A h \in answered :
          Running /\ ex.serving = Nothing /\ channel.request[1] = h[1] =>
            /\ ex'.serving = Nothing
            /\ /\ channel.request = h
               /\ ~over /\ kube[ex.lease]["controller"] # "ended" /\ trouble' = trouble
               => ex'.at = "run"]_exVars

\* A staging directory is removed in the end if from some time on no Pod of its
\* lease is listed, after crashes too ("finished/orphaned staging is eventually
\* removed once safe", docs/hardening.md:47).
StagingIsReclaimed ==
    \A l \in Token : <>[]~HasPod(l) => <>[](dir[l] \in {"none", "removed"})
=============================================================================
