--------------------------- MODULE ExecutorProofs ---------------------------
(***************************************************************************)
(* The executor for any leases, requests and limits: what it posts is      *)
(* accepted, Pods keep their files, no Job outlives its run and no request *)
(* is executed twice.                                                      *)
(***************************************************************************)
EXTENDS Executor, TLAPS

Away == {"poll", "sweep", "remove"}
ExStep == Away \cup {"check", "fetch", "stage", "launch", "run", "stop", "post", "mark"}
JobStatus == {"none", "created", "gone"} \cup Listed
AtWork == {"created", "running"}
Request == RequestId \X Body

ExType == ex \in [at : ExStep, lease : Token \cup {NoToken}, serving : Request \cup {Nothing}]
KubeType ==
    /\ kube \in [Token -> [JobName -> JobStatus]]
    /\ arriving \subseteq Token \X JobName
    /\ dir \in [Token -> {"none", "staged", "finished", "removed"}]
MailType ==
    /\ channel \in [request : Request \cup {Nothing}, response : RequestId \cup {NoToken}]
    /\ handled \subseteq Request
LogType == log \in [entries : 0 .. MaxLogEntries, bytes : 0 .. MaxLogBytes, visible : BOOLEAN]

\* Between two runs there is no lease, no result and no log.
Between ==
    IF ex.at \in Away THEN ex.lease = NoToken /\ result = NoResult /\ log = NoLog
    ELSE ex.lease \in taken /\ ex.lease \in Token

\* What RunResult::validate asks of status, findings and score.
Sound(r, l) ==
    IF r.status \in {"completed", "invalidated"}
    THEN /\ r.findings = 0
         /\ ScoreIsValid(r.score, l)
         /\ r.score.points = "invalidated" <=> r.status = "invalidated"
    ELSE r.score = NoScore /\ (r.findings > 0 => r.status = "integrity_failed")

\* There is no result before the execution ends; then it is one that
\* RunResult::validate takes.
Concluded ==
    /\ log.visible => ex.lease \notin Private
    /\ Executing => result = NoResult
    /\ Sound(result, ex.lease)
    /\ ex.at = "post" => result # NoResult

\* serve remembers every answer of this run, one for each id, and does not serve
\* an id that it has answered.
Answered ==
    /\ answered \subseteq handled
    /\ \A g, h \in handled : g[1] = h[1] => g = h
    /\ ex.serving # Nothing => \A h \in handled : h[1] # ex.serving[1]

\* Jobs are created for the current lease only, whose directory is there, and
\* are deleted before its result is posted.
Stopped ==
    /\ ex.at \in {"launch", "run"} => dir[ex.lease] = "staged"
    /\ ex.at \in {"post", "mark"} =>
          ex.lease \in astray \/ \A j \in JobName : kube[ex.lease][j] \notin AtWork
    /\ \A l \in Token \ taken : dir[l] = "none" /\ \A j \in JobName : kube[l][j] = "none"
    /\ \A p \in arriving : p[1] \in taken

\* Once a directory is old, its lease is over, and if it was never marked no Job
\* of the lease waits for its Pod or is still to come.
Aged ==
    /\ aged \subseteq Token /\ aged \subseteq taken
    /\ \A l \in aged :
          /\ l # ex.lease
          /\ dir[l] = "staged" =>
                \A j \in JobName : kube[l][j] # "created" /\ <<l, j>> \notin arriving

\* Only a Pod that starts after the mark comes between the list of the Pods and
\* the removal.
Doomed ==
    /\ doomed \subseteq Token /\ (doomed # {} => ex.at = "remove")
    /\ \A l \in doomed :
          /\ dir[l] = "finished" \/ (dir[l] = "staged" /\ l \in aged)
          /\ HasPod(l) => l \in tardy

Run == ExType /\ MailType /\ LogType /\ Between /\ Concluded /\ Answered
Jobs == KubeType /\ Stopped /\ Aged /\ Doomed /\ PodKeepsItsFiles /\ NoJobOutlivesItsRun
ExInv == Run /\ Jobs

\* Nothing is at work at the start.
LEMMA ExInitially == ExInit => ExInv
<1>. SUFFICES ASSUME ExInit PROVE ExInv
  OBVIOUS
<1>1. ExType /\ MailType /\ LogType /\ KubeType
  BY ExecutorAssumption
  DEF ExInit, ExType, KubeType, MailType, LogType, ExStep, Away, JobStatus, Listed, Request,
      Idle, NoLog, NoMail
<1>2. Between /\ Concluded /\ Answered
  BY ExecutorAssumption
  DEF ExInit, Between, Concluded, Sound, NoResult, Failure, Answered, Idle, NoLog, NoMail,
      Executing, Away
<1>3. Stopped /\ Aged /\ Doomed
  BY DEF ExInit, Stopped, Aged, Doomed, Idle
<1>4. PodKeepsItsFiles /\ NoJobOutlivesItsRun
  BY DEF ExInit, PodKeepsItsFiles, NoJobOutlivesItsRun, HasPod, Listed
<1>. QED  BY <1>1, <1>2, <1>3, <1>4 DEF ExInv, Run, Jobs

\* Capture::push keeps the limits, and shows nothing more than it was told to.
LEMMA PushKeepsLimits ==
  ASSUME LogType, NEW visible \in BOOLEAN, NEW bytes \in Nat
  PROVE  /\ Push(visible, bytes) \in [entries : 0 .. MaxLogEntries, bytes : 0 .. MaxLogBytes,
                                      visible : BOOLEAN]
         /\ Push(visible, bytes).visible => log.visible \/ visible
  BY ExecutorAssumption DEF LogType, Push

\* A failure carries neither score nor findings.
LEMMA FailureIsSound ==
  ASSUME NEW l, NEW status, status \notin {"completed", "invalidated"}
  PROVE  Sound(Failure(status), l)
  BY DEF Sound, Failure

-----------------------------------------------------------------------------
(* What most steps have in common.                                         *)

\* Jobs are deleted at most; their Pods stay.
OnlyDeletes ==
    \A l \in Token, j \in JobName : kube'[l][j] # kube[l][j] =>
        /\ kube[l][j] # "none"
        /\ kube'[l][j] = "gone" \/ (kube'[l][j] = "orphan" /\ kube[l][j] \in Listed)

\* What becomes of one Job that is deleted.
LEMMA DeletedStatus ==
  ASSUME NEW s \in JobStatus
  PROVE  /\ DeletedJob(s) \in JobStatus /\ DeletedJob(s) \notin AtWork
         /\ DeletedJob(s) # s =>
              s # "none" /\ (DeletedJob(s) = "gone" \/ (DeletedJob(s) = "orphan" /\ s \in Listed))
  BY DEF JobStatus, Listed, AtWork, DeletedJob

\* One Job is deleted.
LEMMA DeleteOne ==
  ASSUME KubeType, NEW l \in Token, NEW j \in JobName,
         kube' = [kube EXCEPT ![l][j] = DeletedJob(@)]
  PROVE  kube' \in [Token -> [JobName -> JobStatus]] /\ OnlyDeletes
<1>. DEFINE s == kube[l][j]
            t == DeletedJob(s)
<1>1. s \in JobStatus
  BY DEF KubeType
<1>2. t \in JobStatus
      /\ (t # s => s # "none" /\ (t = "gone" \/ (t = "orphan" /\ s \in Listed)))
  BY <1>1, DeletedStatus
<1>3. kube' = [kube EXCEPT ![l][j] = t]
  OBVIOUS
<1>. HIDE DEF t
<1>4. /\ kube' \in [Token -> [JobName -> JobStatus]]
      /\ kube'[l][j] = t
      /\ \A m \in Token, k \in JobName : m # l \/ k # j => kube'[m][k] = kube[m][k]
  BY <1>2, <1>3 DEF KubeType
<1>. QED  BY <1>2, <1>4 DEF OnlyDeletes

\* The Job whose creation may be under way belongs to the lease.
LEMMA UnderWayType ==
  ASSUME ExInv
  PROVE  \A p \in UnderWay : p \in Token \X JobName /\ p[1] = ex.lease /\ p[1] \in taken
<1>1. CASE ex.at = "launch"
  <2>1. ~IsFresh
    BY <1>1 DEF IsFresh, Running
  <2>2. UnderWay = {<<ex.lease, "controller">>}
    BY <1>1, <2>1 DEF UnderWay
  <2>. QED  BY <1>1, <2>2 DEF ExInv, Run, Between, Away, JobName
<1>2. CASE ex.at # "launch" /\ IsFresh
  BY <1>2 DEF UnderWay, IsFresh, Running, ExInv, Run, Between, Away, MailType, JobName, Request
<1>3. CASE ex.at # "launch" /\ ~IsFresh
  BY <1>3 DEF UnderWay
<1>. QED  BY <1>1, <1>2, <1>3

\* A step of a run that keeps the directories and at most deletes Jobs; a creation
\* that is given up is one of this run.
LEMMA CalmJobs ==
  ASSUME ExInv, ex.at \notin Away, ex'.at \notin Away, ex'.lease = ex.lease,
         kube' \in [Token -> [JobName -> JobStatus]], OnlyDeletes,
         UNCHANGED <<taken, dir, aged, doomed, tardy>>,
         arriving' \subseteq arriving \cup UnderWay, astray \subseteq astray',
         ex'.at \in {"launch", "run"} => ex.at \in {"launch", "run"},
         ex'.at \in {"post", "mark"} =>
            \/ ex.at \in {"post", "mark"}
            \/ ex.lease \in astray' \/ \A j \in JobName : kube'[ex.lease][j] \notin AtWork
  PROVE  Jobs'
<1>1. ex.lease \in Token /\ ex.lease \in taken /\ doomed = {}
  BY DEF ExInv, Run, Between, Jobs, Doomed, Away
<1>2. KubeType' /\ \A p \in arriving' : p \in arriving \/ (p[1] = ex.lease /\ p[1] \in taken)
  BY UnderWayType DEF ExInv, Jobs, KubeType
<1>3. /\ \A l \in Token, j \in JobName :
           /\ kube'[l][j] \in AtWork => kube[l][j] = kube'[l][j]
           /\ kube'[l][j] \in Listed => kube[l][j] \in Listed
           /\ kube[l][j] = "none" => kube'[l][j] = "none"
      /\ \A l \in Token : HasPod(l)' => HasPod(l)
  <2>1. /\ "gone" \notin AtWork /\ "orphan" \notin AtWork /\ "gone" \notin Listed
    BY DEF AtWork, Listed
  <2>2. \A l \in Token, j \in JobName :
           /\ kube'[l][j] \in AtWork => kube[l][j] = kube'[l][j]
           /\ kube'[l][j] \in Listed => kube[l][j] \in Listed
           /\ kube[l][j] = "none" => kube'[l][j] = "none"
    BY <2>1 DEF OnlyDeletes
  <2>. QED  BY <2>2 DEF HasPod
<1>4. Stopped'
  BY <1>1, <1>2, <1>3 DEF ExInv, Jobs, Stopped
<1>5. Aged'
  <2>1. "created" \in AtWork
    BY DEF AtWork
  <2>2. \A l \in aged, j \in JobName :
           l \in Token /\ (<<l, j>> \in arriving' => <<l, j>> \in arriving)
    BY <1>2 DEF ExInv, Jobs, Aged
  <2>. QED  BY <1>1, <1>3, <2>1, <2>2 DEF ExInv, Jobs, Aged
<1>6. Doomed' /\ PodKeepsItsFiles'
  BY <1>1, <1>3 DEF ExInv, Jobs, Doomed, PodKeepsItsFiles
<1>7. NoJobOutlivesItsRun'
  BY <1>3 DEF ExInv, Jobs, NoJobOutlivesItsRun, AtWork
<1>. QED  BY <1>2, <1>4, <1>5, <1>6, <1>7 DEF Jobs

\* Nothing has changed that the Jobs' part speaks of, except perhaps where the
\* run is.
LEMMA SameJobs ==
  ASSUME ExInv, ex.at \notin Away, ex'.at \notin Away, ex'.lease = ex.lease,
         UNCHANGED <<taken, kube, arriving, disk, strays>>,
         ex'.at \in {"launch", "run"} => ex.at \in {"launch", "run"},
         ex'.at \in {"post", "mark"} => ex.at \in {"post", "mark"}
  PROVE  Jobs'
<1>1. kube' \in [Token -> [JobName -> JobStatus]] /\ OnlyDeletes
  BY DEF ExInv, Jobs, KubeType, OnlyDeletes
<1>. QED  BY <1>1, CalmJobs DEF disk, strays

\* What an execution that ends leaves behind.
Ending ==
    /\ EndExecution
    /\ LogType'
    /\ log'.visible => log.visible \/ ex.lease \notin Private
    /\ Sound(result', ex.lease)

LEMMA AbortEnds == ASSUME LogType, Abort PROVE Ending
<1>1. (ex.lease \notin Private) \in BOOLEAN
  OBVIOUS
<1>2. LogType' /\ (log'.visible => log.visible \/ ex.lease \notin Private)
  BY <1>1, PushKeepsLimits DEF Abort, LogType
<1>. QED  BY <1>2, FailureIsSound DEF Abort, Conclude, Ending

\* The execution ends: the Jobs are as they were, or the controller is deleted.
LEMMA EndingInv ==
  ASSUME ExInv, Executing, Ending, UNCHANGED <<taken, disk, strays>>,
         arriving' \subseteq arriving \cup UnderWay,
         \/ UNCHANGED kube
         \/ kube' = [kube EXCEPT ![ex.lease]["controller"] = DeletedJob(@)]
  PROVE  ExInv'
<1>1. ex.at \notin Away /\ ex.lease \in Token /\ ex.lease \in taken
  BY DEF ExInv, Run, Between, Executing, Away
<1>2. ex'.at = "stop" /\ ex'.lease = ex.lease /\ ex'.serving = Nothing /\ ExType'
  BY DEF Ending, EndExecution, ExInv, Run, ExType, ExStep
<1>3. kube' \in [Token -> [JobName -> JobStatus]] /\ OnlyDeletes
  <2>1. CASE UNCHANGED kube
    BY <2>1 DEF ExInv, Jobs, KubeType, OnlyDeletes
  <2>2. CASE kube' = [kube EXCEPT ![ex.lease]["controller"] = DeletedJob(@)]
    BY <1>1, <2>2, DeleteOne DEF ExInv, Jobs, JobName
  <2>. QED  BY <2>1, <2>2
<1>4. MailType' /\ Answered'
  BY <1>2 DEF Ending, EndExecution, MailType, Answered, NoMail
<1>5. Between' /\ Concluded'
  BY <1>1, <1>2 DEF Ending, ExInv, Run, Between, Concluded, Executing, Away
<1>6. Jobs'
  BY <1>1, <1>2, <1>3, CalmJobs DEF disk, strays, Away
<1>. QED  BY <1>2, <1>4, <1>5, <1>6 DEF ExInv, Run, Ending

\* A run goes on, and its messages, its result and its log are as they were.
LEMMA SameRun ==
  ASSUME ExInv, ExType', ex.at \notin Away, ex'.at \notin Away, ex'.lease = ex.lease,
         ex'.serving = ex.serving, UNCHANGED <<taken, execution>>,
         Executing' => Executing, ex'.at = "post" => result # NoResult
  PROVE  Run'
<1>1. MailType' /\ LogType' /\ Answered'
  BY DEF execution, exchange, ExInv, Run, MailType, LogType, Answered
<1>2. Between' /\ Concluded'
  BY DEF execution, exchange, ExInv, Run, Between, Concluded
<1>. QED  BY <1>1, <1>2 DEF Run

\* The next step of the run.
LEMMA GotoType ==
  ASSUME ExInv, NEW at \in ExStep, ExGoto(at)
  PROVE  ExType' /\ ex'.at = at /\ ex'.lease = ex.lease /\ ex'.serving = ex.serving
  BY DEF ExGoto, ExInv, Run, ExType

-----------------------------------------------------------------------------
(* From the lease to the controller Job.                                   *)

\* A new lease has neither Jobs nor a directory.
LEMMA TakeLeaseInv == ASSUME ExInv, NEW l \in Token, TakeLease(l) PROVE ExInv'
<1>1. /\ ex.at = "poll" /\ ex.lease = NoToken /\ result = NoResult /\ log = NoLog
      /\ ex'.lease = l /\ ex'.at = "check" /\ ex'.serving = Nothing /\ ExType'
  BY DEF ExInv, Run, Between, Away, TakeLease, ExType, ExStep, Idle
<1>2. MailType' /\ LogType' /\ Answered'
  BY <1>1
  DEF TakeLease, execution, exchange, ExInv, Run, MailType, LogType, Answered
<1>3. Between' /\ Concluded'
  BY <1>1, FailureIsSound
  DEF TakeLease, execution, Between, Concluded, Executing, NoLog, NoResult, Away
<1>4. KubeType' /\ Stopped' /\ Aged' /\ Doomed'
  BY <1>1 DEF TakeLease, disk, strays, ExInv, Jobs, KubeType, Stopped, Aged, Doomed, HasPod
<1>5. PodKeepsItsFiles' /\ NoJobOutlivesItsRun'
  BY <1>1, ExecutorAssumption
  DEF TakeLease, disk, strays, ExInv, Jobs, PodKeepsItsFiles, NoJobOutlivesItsRun, HasPod
<1>. QED  BY <1>1, <1>2, <1>3, <1>4, <1>5 DEF ExInv, Run, Jobs

\* The checks before the run either go on or end it.
LEMMA ApproveInv == ASSUME ExInv, Approve PROVE ExInv'
<1>1. Executing /\ ex.at = "check" /\ ex.at \notin Away
  BY DEF Approve, Executing, Away
<1>2. CASE ExGoto("fetch") /\ UNCHANGED execution
  <2>1. "fetch" \in ExStep /\ "fetch" \notin Away
    BY DEF ExStep, Away
  <2>. QED  BY <1>1, <1>2, <2>1, GotoType, SameRun, SameJobs DEF Approve, ExInv
<1>3. CASE Conclude(Failure("infrastructure_failed")) /\ UNCHANGED log
  <2>1. Ending
    BY <1>3, FailureIsSound DEF Conclude, Ending, ExInv, Run, LogType
  <2>. QED  BY <1>1, <2>1, EndingInv DEF Approve
<1>. QED  BY <1>2, <1>3 DEF Approve

LEMMA FetchSourceInv == ASSUME ExInv, FetchSource PROVE ExInv'
<1>1. Executing /\ ex.at = "fetch" /\ ex.at \notin Away
  BY DEF FetchSource, Executing, Away
<1>2. CASE ExGoto("stage") /\ UNCHANGED execution
  <2>1. "stage" \in ExStep /\ "stage" \notin Away
    BY DEF ExStep, Away
  <2>. QED  BY <1>1, <1>2, <2>1, GotoType, SameRun, SameJobs DEF FetchSource, ExInv
<1>3. CASE Abort
  BY <1>1, <1>3, AbortEnds, EndingInv DEF FetchSource, ExInv, Run
<1>4. ASSUME NEW n \in 1 .. MaxFindings + 1,
             Conclude([Failure("integrity_failed") EXCEPT !.findings = n]), UNCHANGED log
      PROVE  ExInv'
  <2>1. Sound([Failure("integrity_failed") EXCEPT !.findings = n], ex.lease)
    BY DEF Sound, Failure
  <2>2. Ending
    BY <1>4, <2>1 DEF Conclude, Ending, ExInv, Run, LogType
  <2>. QED  BY <1>1, <2>2, EndingInv DEF FetchSource
<1>. QED  BY <1>2, <1>3, <1>4 DEF FetchSource

\* The directory is there before the controller.
LEMMA StageFilesInv == ASSUME ExInv, StageFiles PROVE ExInv'
<1>1. /\ ex.at = "stage" /\ ex.lease \in Token /\ ex.lease \in taken /\ Executing
      /\ doomed = {} /\ result = NoResult
  BY DEF StageFiles, ExInv, Run, Jobs, Between, Away, Executing, Doomed, Concluded
<1>2. /\ ex'.lease = ex.lease /\ ExType' /\ LogType' /\ ex'.at \in {"launch", "stop"}
      /\ MailType' /\ Answered'
      /\ log'.visible => log.visible \/ ex.lease \notin Private
      /\ ex'.at = "launch" => result' = NoResult
      /\ Sound(result', ex.lease)
  <2>1. CASE Abort
    <3>1. Ending
      BY <2>1, AbortEnds DEF ExInv, Run
    <3>2. ex'.at = "stop" /\ ex'.lease = ex.lease /\ ex'.serving = Nothing /\ ExType'
      BY <3>1 DEF Ending, EndExecution, ExInv, Run, ExType, ExStep
    <3>3. MailType' /\ Answered'
      BY <3>1, <3>2 DEF Ending, EndExecution, MailType, Answered, NoMail
    <3>. QED  BY <3>1, <3>2, <3>3 DEF Ending
  <2>2. CASE ExGoto("launch") /\ UNCHANGED execution
    <3>1. ex'.at = "launch" /\ ex'.lease = ex.lease /\ ex'.serving = ex.serving /\ ExType'
      BY <2>2, GotoType DEF ExStep
    <3>. QED  BY <1>1, <2>2, <3>1
              DEF execution, exchange, ExInv, Run, LogType, MailType, Answered, Concluded
  <2>. QED  BY <2>1, <2>2 DEF StageFiles
<1>3. Between' /\ Concluded'
  BY <1>1, <1>2 DEF StageFiles, ExInv, Run, Between, Away, Concluded, Executing
<1>4. /\ UNCHANGED <<taken, kube, arriving, aged, doomed, strays>>
      /\ dir' = [dir EXCEPT ![ex.lease] = "staged"]
  BY DEF StageFiles
<1>5. KubeType' /\ Stopped' /\ Aged' /\ Doomed'
  BY <1>1, <1>2, <1>4 DEF ExInv, Jobs, KubeType, Stopped, Aged, Doomed
<1>6. PodKeepsItsFiles' /\ NoJobOutlivesItsRun'
  BY <1>1, <1>2, <1>4
  DEF strays, ExInv, Jobs, PodKeepsItsFiles, NoJobOutlivesItsRun, HasPod, KubeType
<1>. QED  BY <1>2, <1>3, <1>5, <1>6 DEF ExInv, Run, Jobs

\* A Job of the lease that runs.
LEMMA CreateJobs ==
  ASSUME ExInv, NEW j \in JobName, CreateJob(j), ex.at \in {"launch", "run"},
         ex'.lease = ex.lease, ex'.at = "run", UNCHANGED <<taken, arriving, disk, strays>>
  PROVE  Jobs'
<1>1. /\ ex.lease \in Token /\ ex.lease \in taken /\ dir[ex.lease] = "staged"
      /\ doomed = {} /\ ex.lease \notin aged
  BY DEF ExInv, Run, Jobs, Between, Away, Stopped, Doomed, Aged
<1>2. /\ kube' \in [Token -> [JobName -> JobStatus]]
      /\ kube'[ex.lease][j] = "created"
      /\ \A m \in Token, k \in JobName : m # ex.lease \/ k # j => kube'[m][k] = kube[m][k]
  <2>1. "created" \in JobStatus /\ KubeType /\ kube' = [kube EXCEPT ![ex.lease][j] = "created"]
    BY DEF JobStatus, ExInv, Jobs, CreateJob
  <2>. QED  BY <1>1, <2>1 DEF KubeType
<1>3. \A m \in Token : HasPod(m)' => HasPod(m)
  BY <1>2 DEF HasPod, Listed
<1>4. KubeType' /\ Stopped'
  BY <1>1, <1>2 DEF disk, strays, ExInv, Jobs, KubeType, Stopped
<1>5. Aged'
  BY <1>1, <1>2 DEF disk, ExInv, Jobs, Aged
<1>6. Doomed' /\ PodKeepsItsFiles'
  BY <1>1, <1>3 DEF disk, strays, ExInv, Jobs, Doomed, PodKeepsItsFiles
<1>7. NoJobOutlivesItsRun'
  BY <1>1, <1>2 DEF strays, ExInv, Jobs, NoJobOutlivesItsRun
<1>. QED  BY <1>4, <1>5, <1>6, <1>7 DEF Jobs

LEMMA LaunchInv == ASSUME ExInv, LaunchController PROVE ExInv'
<1>1. /\ ex.at = "launch" /\ "controller" \in JobName /\ CreateJob("controller")
      /\ UNCHANGED <<taken, arriving, disk, execution, strays>>
  BY DEF LaunchController, CreateController, JobName
<1>2. ex'.lease = ex.lease /\ ex'.at = "run" /\ ex'.serving = ex.serving /\ ExType'
  BY GotoType DEF LaunchController, ExStep
<1>3. Jobs'
  BY <1>1, <1>2, CreateJobs
<1>4. Run'
  BY <1>1, <1>2, SameRun DEF Away, Executing
<1>. QED  BY <1>3, <1>4 DEF ExInv

-----------------------------------------------------------------------------
(* The run.                                                                *)

LEMMA AskInv ==
  ASSUME ExInv, NEW q \in RequestId, NEW b \in Body, Ask(q, b) PROVE ExInv'
<1>1. /\ ex.at = "run" /\ UNCHANGED <<ex, taken, kube, arriving, disk, strays>>
      /\ UNCHANGED <<handled, answered, result, log>>
  BY DEF Ask, Running
<1>2. MailType' /\ ExType' /\ LogType'
  BY <1>1 DEF Ask, ExInv, Run, MailType, ExType, LogType, Request
<1>3. Between' /\ Concluded' /\ Answered'
  BY <1>1 DEF ExInv, Run, Between, Concluded, Executing, Answered
<1>4. Jobs'
  BY <1>1, SameJobs DEF Away
<1>. QED  BY <1>2, <1>3, <1>4 DEF ExInv, Run

LEMMA ServeInv == ASSUME ExInv, ServeRequest PROVE ExInv'
<1>1. /\ channel.request \in Request /\ ex.at = "run"
      /\ \A h \in handled : h[1] # channel.request[1]
  BY DEF ServeRequest, IsFresh, Running, ExInv, Run, MailType
<1>2. channel.request[1] \in JobName
  BY <1>1 DEF Request, JobName
<1>3. ex'.lease = ex.lease /\ ex'.at = "run" /\ ex'.serving = channel.request /\ ExType'
  BY <1>1 DEF ServeRequest, ExInv, Run, ExType
<1>4. /\ CreateJob(channel.request[1])
      /\ UNCHANGED <<taken, arriving, disk, strays>>
      /\ UNCHANGED <<channel, handled, answered, result, log>>
  BY DEF ServeRequest, CreateStudentJob, execution, exchange
<1>5. Jobs'
  BY <1>1, <1>2, <1>3, <1>4, CreateJobs
<1>6. MailType' /\ LogType' /\ Answered'
  BY <1>1, <1>3, <1>4 DEF ExInv, Run, MailType, LogType, Answered
<1>7. Between' /\ Concluded'
  BY <1>1, <1>3, <1>4 DEF ExInv, Run, Between, Concluded, Executing
<1>. QED  BY <1>3, <1>5, <1>6, <1>7 DEF ExInv, Run

\* A request that is refused, or sent again with other contents.
LEMMA RefuseInv ==
  ASSUME ExInv, RefuseRequest \/ RefuseReplay PROVE ExInv'
<1>1. Executing /\ Abort
  BY DEF RefuseRequest, RefuseReplay, IsFresh, Running, Executing
<1>2. UNCHANGED <<taken, kube, arriving, disk, strays>>
  BY DEF RefuseRequest, RefuseReplay
<1>. QED  BY <1>1, <1>2, AbortEnds, EndingInv DEF ExInv, Run

\* The request was not answered before; its Job is deleted.
LEMMA AnswerInv == ASSUME ExInv, AnswerRequest PROVE ExInv'
<1>. DEFINE q == ex.serving[1]
<1>1. ex.at = "run" /\ Executing /\ ex.at \notin Away /\ ex.lease \in Token
      /\ ex.serving \in Request /\ q \in RequestId /\ q \in JobName
  BY DEF AnswerRequest, Running, Executing, Away, ExInv, Run, Between, ExType, Request, JobName
<1>2. UNCHANGED <<taken, arriving, disk, strays>>
  BY DEF AnswerRequest
<1>3. CASE Abort /\ UNCHANGED kube
  BY <1>1, <1>2, <1>3, AbortEnds, EndingInv DEF ExInv, Run
<1>4. CASE /\ LogOutput
           /\ DeleteJob(ex.lease, q)
           /\ handled' = Remember(ex.serving)
           /\ answered' = answered \cup {ex.serving}
           /\ channel' = [channel EXCEPT !.response = q]
           /\ ex' = [ex EXCEPT !.serving = Nothing]
           /\ UNCHANGED <<over, result>>
  <2>1. kube' \in [Token -> [JobName -> JobStatus]] /\ OnlyDeletes
    BY <1>1, <1>4, DeleteOne DEF DeleteJob, ExInv, Jobs
  <2>2. LogType' /\ (log'.visible => log.visible \/ ex.lease \notin Private)
    <3>1. PICK bytes \in 1 .. 2 : log' = Push(ex.lease \notin Private, bytes)
      BY <1>4 DEF LogOutput
    <3>2. bytes \in Nat /\ (ex.lease \notin Private) \in BOOLEAN /\ LogType
      BY DEF ExInv, Run
    <3>. QED  BY <3>1, <3>2, PushKeepsLimits DEF LogType
  <2>3. ex'.lease = ex.lease /\ ex'.at = "run" /\ ex'.serving = Nothing /\ ExType'
    BY <1>1, <1>4 DEF ExInv, Run, ExType
  <2>4. MailType'
    BY <1>1, <1>4 DEF ExInv, Run, MailType, Remember
  <2>5. Answered'
    <3>1. ex.serving # Nothing
      BY DEF AnswerRequest
    <3>. QED  BY <1>4, <2>3, <3>1 DEF ExInv, Run, Answered, Remember
  <2>6. Between' /\ Concluded'
    BY <1>1, <1>2, <1>4, <2>2, <2>3 DEF ExInv, Run, Between, Concluded, Executing
  <2>7. Jobs'
    BY <1>1, <1>2, <2>1, <2>3, CalmJobs DEF disk, strays
  <2>. QED  BY <2>2, <2>3, <2>4, <2>5, <2>6, <2>7 DEF ExInv, Run
<1>. QED  BY <1>3, <1>4 DEF AnswerRequest

LEMMA TimesOutInv == ASSUME ExInv, RunTimesOut PROVE ExInv'
<1>1. LogType' /\ (log'.visible => log.visible)
  BY PushKeepsLimits DEF RunTimesOut, ExInv, Run, LogType
<1>2. Ending
  BY <1>1, FailureIsSound DEF RunTimesOut, Conclude, Ending
<1>. QED  BY <1>2, EndingInv DEF RunTimesOut, Running, Executing

\* A valid score makes a result that is valid.
LEMMA CollectInv == ASSUME ExInv, CollectScore PROVE ExInv'
<1>1. LogType
  BY DEF ExInv, Run
<1>2. ASSUME log' = Push(FALSE, 1) PROVE LogType' /\ (log'.visible => log.visible)
  BY <1>1, <1>2, PushKeepsLimits DEF LogType
<1>3. ASSUME NEW score \in Score, ScoreIsValid(score, ex.lease),
             Conclude([status |-> IF score.points = "invalidated" THEN "invalidated"
                                  ELSE "completed",
                       findings |-> 0, score |-> score]),
             log' = Push(FALSE, 1)
      PROVE  Ending
  <2>1. Sound([status |-> IF score.points = "invalidated" THEN "invalidated" ELSE "completed",
               findings |-> 0, score |-> score], ex.lease)
    BY <1>3 DEF Sound
  <2>. QED  BY <1>2, <1>3, <2>1 DEF Conclude, Ending
<1>4. ASSUME Conclude(Failure("infrastructure_failed")), log' = Push(FALSE, 1) PROVE Ending
  BY <1>2, <1>4, FailureIsSound DEF Conclude, Ending
<1>5. Ending
  BY <1>1, <1>3, <1>4, AbortEnds DEF CollectScore
<1>. QED  BY <1>5, EndingInv DEF CollectScore, DeleteJob, Running, Executing

-----------------------------------------------------------------------------
(* The end of a run.                                                       *)

\* The execution is dropped by the heartbeat or ended by a failing call.
LEMMA DroppedInv == ASSUME ExInv, LoseHeartbeat \/ CallFails PROVE ExInv'
<1>1. Executing /\ UNCHANGED <<taken, kube, disk, strays>>
  BY DEF LoseHeartbeat, CallFails
<1>2. arriving' \subseteq arriving \cup UnderWay
  BY DEF LoseHeartbeat, CallFails, GiveUp
<1>3. CASE LoseHeartbeat
  <2>1. LogType' /\ ~log'.visible
    BY <1>3, ExecutorAssumption DEF LoseHeartbeat, LogType, NoLog
  <2>2. Ending
    BY <1>3, <2>1, FailureIsSound DEF LoseHeartbeat, Ending, NoResult
  <2>. QED  BY <1>1, <1>2, <2>2, EndingInv
<1>4. CASE CallFails
  BY <1>1, <1>2, <1>4, AbortEnds, EndingInv DEF CallFails, ExInv, Run
<1>. QED  BY <1>3, <1>4

\* After the stop no Job of the lease is at work, unless the stop has failed.
LEMMA StopInv == ASSUME ExInv, StopJobs \/ StopFails PROVE ExInv'
<1>1. ex.lease \in Token /\ ex.at = "stop" /\ ex.at \notin Away
  BY DEF StopJobs, StopFails, ExInv, Run, Between, Away
<1>2. /\ ex'.lease = ex.lease /\ ex'.serving = ex.serving /\ ExType'
      /\ ex'.at \in {"mark", "post"} /\ ex'.at \notin Away
      /\ ex'.at = "post" => result # NoResult
  <2>1. {"mark", "post"} \subseteq ExStep /\ "mark" \notin Away /\ "post" \notin Away
    BY DEF ExStep, Away
  <2>. QED  BY <2>1, GotoType DEF StopJobs, StopFails, AfterStop
<1>3. UNCHANGED <<taken, arriving, disk, execution, tardy>>
  BY DEF StopJobs, StopFails, strays
<1>4. /\ kube' \in [Token -> [JobName -> JobStatus]] /\ OnlyDeletes
      /\ astray \subseteq astray'
      /\ ex.lease \in astray' \/ \A j \in JobName : kube'[ex.lease][j] \notin AtWork
  <2>1. CASE StopFails
    BY <2>1 DEF StopFails, OnlyDeletes, ExInv, Jobs, KubeType
  <2>2. CASE StopJobs
    <3>1. kube' = [kube EXCEPT ![ex.lease] =
                     [j \in JobName |-> DeletedJob(kube[ex.lease][j])]]
      BY <2>2 DEF StopJobs
    <3>2. /\ kube \in [Token -> [JobName -> JobStatus]]
          /\ \A j \in JobName : kube[ex.lease][j] \in JobStatus
      BY <1>1 DEF ExInv, Jobs, KubeType
    <3>3. \A j \in JobName : DeletedJob(kube[ex.lease][j]) \in JobStatus
                             /\ DeletedJob(kube[ex.lease][j]) \notin AtWork
      BY <3>2, DeletedStatus
    <3>4. kube' \in [Token -> [JobName -> JobStatus]]
          /\ \A j \in JobName : kube'[ex.lease][j] = DeletedJob(kube[ex.lease][j])
          /\ \A m \in Token : m # ex.lease => kube'[m] = kube[m]
      BY <1>1, <3>1, <3>2, <3>3
    <3>5. OnlyDeletes
      BY <3>2, <3>4, DeletedStatus DEF OnlyDeletes
    <3>. QED  BY <2>2, <3>3, <3>4, <3>5 DEF StopJobs, strays
  <2>. QED  BY <2>1, <2>2
<1>5. Run'
  BY <1>1, <1>2, <1>3, SameRun DEF Executing
<1>6. Jobs'
  BY <1>1, <1>2, <1>3, <1>4, CalmJobs DEF disk
<1>. QED  BY <1>5, <1>6 DEF ExInv

LEMMA PostInv == ASSUME ExInv, PostResult PROVE ExInv'
<1>1. ex.at = "post" /\ ex.at \notin Away /\ "mark" \in ExStep /\ "mark" \notin Away
  BY DEF PostResult, ExStep, Away
<1>2. /\ ex'.at = "mark" /\ ex'.lease = ex.lease /\ ex'.serving = ex.serving /\ ExType'
      /\ UNCHANGED <<taken, kube, arriving, disk, execution, strays>>
  BY <1>1, GotoType DEF PostResult
<1>. QED  BY <1>1, <1>2, SameRun, SameJobs DEF Executing, ExInv

\* The process has no lease any more and keeps nothing of the last one.
LEMMA ForgetRun ==
  ASSUME Forget, ex'.lease = NoToken, ex'.at \in Away, ex'.serving = Nothing, ExType'
  PROVE  Run'
<1>1. MailType' /\ LogType' /\ Answered'
  BY ExecutorAssumption DEF Forget, MailType, LogType, Answered, NoMail, NoLog
<1>2. Between' /\ Concluded'
  BY ExecutorAssumption, FailureIsSound
  DEF Forget, Between, Concluded, Executing, NoLog, NoResult, Away
<1>. QED  BY <1>1, <1>2 DEF Run

\* The lease is given up: its Jobs are not at work, or it is astray.
LEMMA LeaveJobs ==
  ASSUME ExInv, ex'.lease = NoToken, ex'.at \in Away,
         UNCHANGED <<taken, kube, aged, tardy>>, doomed' = {},
         arriving' \subseteq arriving \cup UnderWay, astray \subseteq astray',
         dir' \in [Token -> {"none", "staged", "finished", "removed"}],
         \A l \in Token : dir'[l] # dir[l] => dir[l] = "staged" /\ dir'[l] = "finished",
         \/ ex.lease = NoToken
         \/ ex.lease \in astray'
         \/ \A j \in JobName : kube[ex.lease][j] \notin AtWork
  PROVE  Jobs'
<1>1. KubeType' /\ \A p \in arriving' : p \in arriving \/ (p[1] = ex.lease /\ p[1] \in taken)
  BY UnderWayType DEF ExInv, Jobs, KubeType
<1>2. \A l \in Token : HasPod(l)' <=> HasPod(l)
  BY DEF HasPod
<1>3. Stopped'
  BY <1>1 DEF ExInv, Jobs, Stopped, Away
<1>4. Aged'
  <2>1. \A l \in aged : l \in Token /\ l # NoToken
    BY ExecutorAssumption DEF ExInv, Jobs, Aged
  <2>2. \A l \in aged, j \in JobName : <<l, j>> \in arriving' => <<l, j>> \in arriving
    BY <1>1 DEF ExInv, Jobs, Aged
  <2>. QED  BY <2>1, <2>2 DEF ExInv, Jobs, Aged
<1>5. Doomed' /\ PodKeepsItsFiles'
  BY <1>2 DEF ExInv, Jobs, Doomed, PodKeepsItsFiles
<1>6. NoJobOutlivesItsRun'
  BY DEF ExInv, Jobs, NoJobOutlivesItsRun, AtWork
<1>. QED  BY <1>1, <1>3, <1>4, <1>5, <1>6 DEF Jobs

LEMMA MarkInv == ASSUME ExInv, MarkFinished PROVE ExInv'
<1>1. /\ ex.lease \in Token /\ doomed = {}
      /\ ex.lease \in astray \/ \A j \in JobName : kube[ex.lease][j] \notin AtWork
  BY DEF MarkFinished, ExInv, Run, Jobs, Between, Stopped, Doomed, Away
<1>2. ex'.lease = NoToken /\ ex'.at \in Away /\ ex'.serving = Nothing /\ ExType'
  BY DEF MarkFinished, Idle, ExType, ExStep, Away
<1>3. /\ dir' \in [Token -> {"none", "staged", "finished", "removed"}]
      /\ \A l \in Token : dir'[l] # dir[l] => dir[l] = "staged" /\ dir'[l] = "finished"
  BY <1>1 DEF MarkFinished, ExInv, Jobs, KubeType
<1>4. Jobs'
  BY <1>1, <1>2, <1>3, LeaveJobs DEF MarkFinished, strays
<1>5. Run'
  BY <1>2, ForgetRun DEF MarkFinished
<1>. QED  BY <1>4, <1>5 DEF ExInv

LEMMA DiesInv == ASSUME ExInv, ExecutorDies PROVE ExInv'
<1>1. ex'.lease = NoToken /\ ex'.at \in Away /\ ex'.serving = Nothing /\ ExType'
  BY DEF ExecutorDies, Idle, ExType, ExStep, Away
<1>2. arriving' \subseteq arriving \cup UnderWay
  BY DEF ExecutorDies, GiveUp
<1>3. Jobs'
  BY <1>1, <1>2, LeaveJobs DEF ExecutorDies, ExInv, Jobs, KubeType
<1>4. Run'
  BY <1>1, ForgetRun DEF ExecutorDies
<1>. QED  BY <1>3, <1>4 DEF ExInv

-----------------------------------------------------------------------------
(* Cleanup, Kubernetes and time.                                           *)

\* Only a directory without a Pod is chosen, and only a chosen one is removed.
LEMMA SweepInv ==
  ASSUME ExInv, BeginSweep \/ ListPods \/ ListFails \/ RemoveDirs PROVE ExInv'
<1>1. /\ ex.at \in Away /\ ex.lease = NoToken
      /\ ex'.at \in Away /\ ex'.lease = NoToken /\ ExType'
      /\ ex'.serving = ex.serving \/ ex'.serving = Nothing
      /\ ex'.at = "remove" <=> ListPods
  BY DEF BeginSweep, ListPods, ListFails, RemoveDirs, ExGoto, Idle, ExInv, Run, Between, ExType,
         ExStep, Away
<1>2. UNCHANGED <<taken, kube, arriving, aged, execution, strays>>
  BY DEF BeginSweep, ListPods, ListFails, RemoveDirs, disk
<1>3. MailType' /\ LogType' /\ Answered'
  BY <1>1, <1>2 DEF execution, exchange, ExInv, Run, MailType, LogType, Answered
<1>4. Between' /\ Concluded'
  BY <1>1, <1>2, FailureIsSound
  DEF execution, ExInv, Run, Between, Concluded, Executing, NoLog, NoResult, Away
<1>5. /\ dir' \in [Token -> {"none", "staged", "finished", "removed"}]
      /\ \A l \in Token : dir'[l] = dir[l] \/ (l \in doomed /\ dir'[l] = "removed")
      /\ doomed' # {} => ListPods
  <2>1. doomed # {} => ex.at = "remove"
    BY DEF ExInv, Jobs, Doomed
  <2>. QED  BY <2>1 DEF BeginSweep, ListPods, ListFails, RemoveDirs, disk, ExInv, Jobs, KubeType
<1>6. KubeType' /\ \A l \in Token : HasPod(l)' <=> HasPod(l)
  BY <1>2, <1>5 DEF ExInv, Jobs, KubeType, HasPod
<1>7. Stopped'
  <2>1. \A l \in Token \ taken : l \notin doomed
    BY DEF ExInv, Jobs, Stopped, Doomed
  <2>. QED  BY <1>1, <1>2, <1>5, <2>1 DEF strays, ExInv, Jobs, Stopped, Away
<1>8. Aged'
  BY <1>1, <1>2, <1>5 DEF ExInv, Jobs, Aged
<1>9. Doomed'
  <2>1. CASE ListPods
    BY <1>1, <1>2, <1>6, <2>1 DEF ListPods, IsRemovable, Doomed
  <2>2. CASE ~ListPods
    BY <1>5, <2>2 DEF Doomed
  <2>. QED  BY <2>1, <2>2
<1>10. PodKeepsItsFiles'
  BY <1>2, <1>5, <1>6 DEF strays, ExInv, Jobs, Doomed, PodKeepsItsFiles
<1>11. NoJobOutlivesItsRun'
  BY <1>1, <1>2 DEF strays, ExInv, Jobs, NoJobOutlivesItsRun
<1>. QED  BY <1>1, <1>3, <1>4, <1>6, <1>7, <1>8, <1>9, <1>10, <1>11 DEF ExInv, Run, Jobs

\* A step of Kubernetes or of the clock leaves the run as it is.
LEMMA SameRunElsewhere ==
  ASSUME ExInv, UNCHANGED <<ex, taken, channel, handled, answered, result, log>> PROVE Run'
<1>1. ExType' /\ MailType' /\ LogType' /\ Answered'
  BY DEF ExInv, Run, ExType, MailType, LogType, Answered
<1>2. Between' /\ Concluded'
  BY DEF ExInv, Run, Between, Concluded, Executing
<1>. QED  BY <1>1, <1>2 DEF Run

\* A Job ends, or its Pod goes.
LEMMA JobEndsInv ==
  ASSUME ExInv, NEW l \in Token, NEW j \in JobName,
         JobEnds(l, j) \/ PodGoes(l, j) \/ OrphanGoes(l, j)
  PROVE  ExInv'
<1>1. UNCHANGED <<ex, taken, arriving, disk, execution, strays>>
  BY DEF JobEnds, PodGoes, OrphanGoes
<1>2. PICK s \in {"ended", "gone"} : /\ kube' = [kube EXCEPT ![l][j] = s]
                                     /\ kube[l][j] \in Listed
  BY DEF JobEnds, PodGoes, OrphanGoes, Listed
<1>3. s \in JobStatus /\ s \notin AtWork /\ kube[l][j] # "none"
  BY <1>2 DEF JobStatus, Listed, AtWork
<1>4. /\ kube' \in [Token -> [JobName -> JobStatus]]
      /\ kube'[l][j] = s
      /\ \A m \in Token, k \in JobName : m # l \/ k # j => kube'[m][k] = kube[m][k]
      /\ l \in taken
  <2>1. KubeType /\ Stopped
    BY DEF ExInv, Jobs
  <2>. QED  BY <1>2, <1>3, <2>1 DEF KubeType, Stopped
<1>5. \A m \in Token : HasPod(m)' => HasPod(m)
  BY <1>2, <1>4 DEF HasPod
<1>6. KubeType' /\ Stopped'
  BY <1>1, <1>3, <1>4 DEF disk, strays, ExInv, Run, Between, Jobs, KubeType, Stopped, Away
<1>7. Aged'
  BY <1>1, <1>3, <1>4 DEF disk, ExInv, Jobs, Aged, AtWork
<1>8. Doomed' /\ PodKeepsItsFiles'
  BY <1>1, <1>5 DEF disk, strays, ExInv, Jobs, Doomed, PodKeepsItsFiles
<1>9. NoJobOutlivesItsRun'
  BY <1>1, <1>3, <1>4 DEF strays, ExInv, Jobs, NoJobOutlivesItsRun, AtWork
<1>10. Run'
  BY <1>1, SameRunElsewhere DEF execution, exchange
<1>. QED  BY <1>6, <1>7, <1>8, <1>9, <1>10 DEF ExInv, Jobs

\* A Pod starts: beside its files, or after the mark.
LEMMA PodStartsInv ==
  ASSUME ExInv, NEW l \in Token, NEW j \in JobName, PodStarts(l, j) PROVE ExInv'
<1>1. /\ UNCHANGED <<ex, taken, arriving, disk, execution, astray>>
      /\ kube[l][j] = "created" /\ kube' = [kube EXCEPT ![l][j] = "running"]
      /\ tardy \subseteq tardy' /\ (dir[l] # "staged" => l \in tardy')
  BY DEF PodStarts
<1>2. /\ kube' \in [Token -> [JobName -> JobStatus]]
      /\ kube'[l][j] = "running"
      /\ \A m \in Token, k \in JobName : m # l \/ k # j => kube'[m][k] = kube[m][k]
      /\ l \in taken
  <2>1. "running" \in JobStatus /\ KubeType /\ Stopped
    BY DEF JobStatus, Listed, ExInv, Jobs
  <2>. QED  BY <1>1, <2>1 DEF KubeType, Stopped
<1>3. \A m \in Token : HasPod(m)' => HasPod(m) \/ m = l
  BY <1>2 DEF HasPod
<1>4. KubeType' /\ Stopped'
  BY <1>1, <1>2 DEF disk, ExInv, Run, Between, Jobs, KubeType, Stopped, AtWork, Away
<1>5. Aged'
  BY <1>1, <1>2 DEF disk, ExInv, Jobs, Aged
<1>6. l \in doomed => l \in tardy'
  BY <1>1 DEF ExInv, Jobs, Aged, Doomed
<1>7. Doomed' /\ PodKeepsItsFiles'
  BY <1>1, <1>3, <1>6 DEF disk, ExInv, Jobs, Doomed, PodKeepsItsFiles
<1>8. NoJobOutlivesItsRun'
  BY <1>1, <1>2 DEF ExInv, Jobs, NoJobOutlivesItsRun
<1>9. Run'
  BY <1>1, SameRunElsewhere DEF execution, exchange
<1>. QED  BY <1>4, <1>5, <1>7, <1>8, <1>9 DEF ExInv, Jobs

\* A Job that arrives when its run has been stopped is astray.
LEMMA JobArrivesInv ==
  ASSUME ExInv, NEW l \in Token, NEW j \in JobName, JobArrives(l, j) PROVE ExInv'
<1>. DEFINE s == IF kube[l][j] = "none" THEN "created" ELSE kube[l][j]
<1>1. /\ UNCHANGED <<ex, taken, disk, execution, tardy>>
      /\ <<l, j>> \in arriving /\ arriving' \subseteq arriving /\ astray \subseteq astray'
      /\ kube' = [kube EXCEPT ![l][j] = s]
      /\ l \in astray' \/ (ex.lease = l /\ ex.at = "stop")
  BY DEF JobArrives
<1>2. s \in JobStatus /\ l \in taken /\ (s = kube[l][j] \/ s = "created")
  BY <1>1 DEF JobStatus, ExInv, Jobs, KubeType, Stopped
<1>. HIDE DEF s
<1>3. /\ kube' \in [Token -> [JobName -> JobStatus]]
      /\ kube'[l][j] = s
      /\ \A m \in Token, k \in JobName : m # l \/ k # j => kube'[m][k] = kube[m][k]
  <2>1. KubeType
    BY DEF ExInv, Jobs
  <2>. QED  BY <1>1, <1>2, <2>1 DEF KubeType
<1>4. \A m \in Token : HasPod(m)' => HasPod(m)
  BY <1>2, <1>3 DEF HasPod, Listed
<1>5. KubeType' /\ Stopped'
  BY <1>1, <1>2, <1>3 DEF disk, ExInv, Run, Between, Jobs, KubeType, Stopped, Away
<1>6. Aged'
  BY <1>1, <1>3 DEF disk, ExInv, Jobs, Aged
<1>7. Doomed' /\ PodKeepsItsFiles'
  BY <1>1, <1>4 DEF disk, ExInv, Jobs, Doomed, PodKeepsItsFiles
<1>8. NoJobOutlivesItsRun'
  BY <1>1, <1>3 DEF ExInv, Jobs, NoJobOutlivesItsRun
<1>9. Run'
  BY <1>1, SameRunElsewhere DEF execution, exchange
<1>. QED  BY <1>5, <1>6, <1>7, <1>8, <1>9 DEF ExInv, Jobs

\* Time passes.
LEMMA TimeInv ==
  ASSUME ExInv, TimeIsUp \/ (\E l \in Token : GrowOld(l)) \/ UNCHANGED exVars PROVE ExInv'
<1>1. /\ UNCHANGED <<ex, taken, kube, arriving, dir, doomed, strays>>
      /\ UNCHANGED <<channel, handled, answered, result, log>>
      /\ aged \subseteq aged'
  BY DEF TimeIsUp, GrowOld, exVars, execution, exchange, disk
<1>2. Run'
  BY <1>1, SameRunElsewhere
<1>3. KubeType' /\ Stopped' /\ Doomed'
  BY <1>1 DEF strays, ExInv, Jobs, KubeType, Stopped, Doomed, HasPod
<1>4. Aged'
  <2>1. CASE UNCHANGED aged
    BY <1>1, <2>1 DEF ExInv, Jobs, Aged
  <2>2. ASSUME NEW l \in Token, GrowOld(l) PROVE Aged'
    <3>1. l \in taken
      BY <2>2 DEF GrowOld, ExInv, Jobs, Stopped
    <3>. QED  BY <1>1, <2>2, <3>1 DEF GrowOld, ExInv, Jobs, Aged
  <2>. QED  BY <2>1, <2>2 DEF TimeIsUp, exVars, disk
<1>5. PodKeepsItsFiles' /\ NoJobOutlivesItsRun'
  BY <1>1 DEF strays, ExInv, Jobs, PodKeepsItsFiles, NoJobOutlivesItsRun, HasPod
<1>. QED  BY <1>2, <1>3, <1>4, <1>5 DEF ExInv, Jobs

-----------------------------------------------------------------------------
\* Every step keeps the invariant.
LEMMA ExStepInv == ExInv /\ [ExNext]_exVars => ExInv'
<1>. SUFFICES ASSUME ExInv, [ExNext]_exVars PROVE ExInv'
  OBVIOUS
<1>1. CASE ExecutorStep
  BY <1>1, ApproveInv, FetchSourceInv, StageFilesInv, LaunchInv, ServeInv, RefuseInv, AnswerInv,
     TimesOutInv, CollectInv, StopInv, PostInv, MarkInv, SweepInv
  DEF ExecutorStep
<1>2. CASE LoseHeartbeat \/ CallFails \/ StopFails \/ ListFails \/ ExecutorDies
  BY <1>2, DroppedInv, StopInv, SweepInv, DiesInv
<1>3. CASE TimeIsUp
  BY <1>3, TimeInv
<1>4. ASSUME NEW l \in Token, TakeLease(l) PROVE ExInv'
  BY <1>4, TakeLeaseInv
<1>5. ASSUME NEW l \in Token, KubeStep(l) PROVE ExInv'
  BY <1>5, TimeInv, PodStartsInv, JobEndsInv, JobArrivesInv DEF KubeStep
<1>6. ASSUME NEW l \in Token, NEW j \in JobName, OrphanGoes(l, j) PROVE ExInv'
  BY <1>6, JobEndsInv
<1>7. ASSUME NEW q \in RequestId, NEW b \in Body, Ask(q, b) PROVE ExInv'
  BY <1>7, AskInv
<1>8. CASE UNCHANGED exVars
  BY <1>8, TimeInv
<1>. QED  BY <1>1, <1>2, <1>3, <1>4, <1>5, <1>6, <1>7, <1>8 DEF ExNext

\* The inductive invariant, for any leases, requests, limits and number of
\* troubles.
THEOREM ExecutorInvariant == ExSpec => []ExInv
  BY ExInitially, ExStepInv, PTL DEF ExSpec

\* RunResult::validate takes what the executor posts: logs within the limits
\* and hidden where the run is private, status, findings and score in agreement;
\* only the number of findings is not limited.
THEOREM ResultsAreAcceptable == ExSpec => []PostedIsAcceptable
<1>1. ExInv => PostedIsAcceptable
  BY DEF ExInv, Run, LogType, Concluded, Sound, PostedIsAcceptable, IsAcceptable
<1>. QED  BY <1>1, ExecutorInvariant, PTL

\* cleanup::reconcile never takes a directory from under a Pod, after a failed stop
\* or a crash either, unless the Pod starts when the run is marked as finished.
THEOREM PodsKeepTheirFiles == ExSpec => []PodKeepsItsFiles
<1>1. ExInv => PodKeepsItsFiles
  BY DEF ExInv, Jobs
<1>. QED  BY <1>1, ExecutorInvariant, PTL

\* All Jobs of a lease are deleted before the executor goes on.
THEOREM JobsEndWithTheirRun == ExSpec => []NoJobOutlivesItsRun
<1>1. ExInv => NoJobOutlivesItsRun
  BY DEF ExInv, Jobs
<1>. QED  BY <1>1, ExecutorInvariant, PTL

-----------------------------------------------------------------------------
(* Requests are executed once.                                             *)

\* Troubles are counted, one at a time.
TroubleType == trouble \in Nat

LEMMA TroublesCount == ExSpec => []TroubleType
<1>1. ExInit => TroubleType
  BY DEF ExInit, TroubleType
<1>2. TroubleType /\ [ExNext]_exVars => TroubleType'
  <2>. SUFFICES ASSUME TroubleType, [ExNext]_exVars
                PROVE  trouble' = trouble \/ trouble' = trouble + 1
    BY DEF TroubleType
  <2>1. CASE ExecutorStep
    BY <2>1
    DEF ExecutorStep, Approve, FetchSource, StageFiles, LaunchController, ServeRequest,
        RefuseRequest, RefuseReplay, AnswerRequest, RunTimesOut, CollectScore, StopJobs,
        PostResult, MarkFinished, BeginSweep, ListPods, RemoveDirs
  <2>2. CASE LoseHeartbeat \/ CallFails \/ StopFails \/ ListFails \/ ExecutorDies
    BY <2>2 DEF LoseHeartbeat, CallFails, StopFails, ListFails, ExecutorDies
  <2>3. ASSUME TimeIsUp \/ \E l \in Token : TakeLease(l) \/ KubeStep(l)
                          \/ \E j \in JobName : OrphanGoes(l, j)
        PROVE  trouble' = trouble
    BY <2>3
    DEF TimeIsUp, TakeLease, KubeStep, GrowOld, PodStarts, JobEnds, PodGoes, JobArrives,
        OrphanGoes
  <2>4. ASSUME NEW q \in RequestId, NEW b \in Body, Ask(q, b) PROVE trouble' = trouble
    BY <2>4 DEF Ask
  <2>5. CASE UNCHANGED exVars
    BY <2>5 DEF exVars
  <2>. QED  BY <2>1, <2>2, <2>3, <2>4, <2>5 DEF ExNext
<1>. QED  BY <1>1, <1>2, PTL DEF ExSpec

\* What AnsweredOnce says of one step.
OnceStep ==
    \A h \in answered :
        Running /\ ex.serving = Nothing /\ channel.request[1] = h[1] =>
          /\ ex'.serving = Nothing
          /\ /\ channel.request = h
             /\ ~over /\ kube[ex.lease]["controller"] # "ended" /\ trouble' = trouble
             => ex'.at = "run"

\* An answered id is not fresh, and with the contents it was answered for it is
\* no conflict either; what else ends a run is told by the time limit, the
\* controller's end or a trouble.
LEMMA OnceStepHolds == ExInv /\ TroubleType /\ [ExNext]_exVars => [OnceStep]_exVars
<1>. SUFFICES ASSUME ExInv, trouble \in Nat, ExNext, NEW h \in answered,
                     Running, ex.serving = Nothing, channel.request[1] = h[1]
              PROVE  /\ ex'.serving = Nothing
                     /\ /\ channel.request = h
                        /\ ~over /\ kube[ex.lease]["controller"] # "ended" /\ trouble' = trouble
                        => ex'.at = "run"
  BY DEF OnceStep, TroubleType
<1>1. h \in handled /\ \A g \in handled : g[1] = h[1] => g = h
  BY DEF ExInv, Run, Answered
<1>2. ~IsFresh
  BY <1>1 DEF IsFresh
<1>3. ex.at = "run" /\ ex \in [at : ExStep, lease : Token \cup {NoToken},
                               serving : Request \cup {Nothing}]
  BY DEF Running, ExInv, Run, ExType
<1>4. CASE UNCHANGED ex
  BY <1>3, <1>4
<1>5. CASE RefuseReplay
  <2>1. channel.request # h
    BY <1>1, <1>5 DEF RefuseReplay
  <2>. QED  BY <1>3, <1>5, <2>1 DEF RefuseReplay, Abort, Conclude, EndExecution
<1>6. CASE RunTimesOut
  BY <1>3, <1>6 DEF RunTimesOut, Conclude, EndExecution
<1>7. CASE CollectScore
  BY <1>3, <1>7 DEF CollectScore, Abort, Conclude, EndExecution
<1>8. CASE LoseHeartbeat \/ CallFails \/ StopFails \/ ListFails \/ ExecutorDies
  <2>1. ~StopFails /\ ~ListFails
    BY <1>3 DEF StopFails, ListFails
  <2>2. trouble' # trouble
    BY <1>8, <2>1 DEF LoseHeartbeat, CallFails, ExecutorDies
  <2>3. ex' = Idle \/ EndExecution
    BY <1>8, <2>1 DEF LoseHeartbeat, CallFails, ExecutorDies, Abort, Conclude
  <2>4. ex'.serving = Nothing
    <3>1. CASE ex' = Idle
      BY <3>1 DEF Idle
    <3>2. CASE EndExecution
      BY <1>3, <3>2 DEF EndExecution
    <3>. QED  BY <2>3, <3>1, <3>2
  <2>. QED  BY <2>2, <2>4
<1>9. CASE ExecutorStep /\ ~RefuseReplay /\ ~RunTimesOut /\ ~CollectScore
  BY <1>2, <1>3, <1>9
  DEF ExecutorStep, Approve, FetchSource, StageFiles, LaunchController, ServeRequest,
      RefuseRequest, AnswerRequest, StopJobs, PostResult, MarkFinished, BeginSweep, ListPods,
      RemoveDirs
<1>10. ASSUME NEW l \in Token, TakeLease(l) PROVE FALSE
  BY <1>3, <1>10 DEF TakeLease
<1>11. ASSUME TimeIsUp \/ \E l \in Token : KubeStep(l) \/ \E j \in JobName : OrphanGoes(l, j)
       PROVE  UNCHANGED ex
  BY <1>11 DEF TimeIsUp, KubeStep, GrowOld, PodStarts, JobEnds, PodGoes, JobArrives, OrphanGoes
<1>12. ASSUME NEW q \in RequestId, NEW b \in Body, Ask(q, b) PROVE UNCHANGED ex
  BY <1>12 DEF Ask
<1>. QED  BY <1>4, <1>5, <1>6, <1>7, <1>8, <1>9, <1>10, <1>11, <1>12 DEF ExNext

\* serve executes a request once, in whatever order requests are written again, and
\* a faithful repetition ends no run.
THEOREM RequestsAreAnsweredOnce == ExSpec => AnsweredOnce
<1>1. [OnceStep]_exVars =>
        [\A h \in answered :
          Running /\ ex.serving = Nothing /\ channel.request[1] = h[1] =>
            /\ ex'.serving = Nothing
            /\ /\ channel.request = h
               /\ ~over /\ kube[ex.lease]["controller"] # "ended" /\ trouble' = trouble
               => ex'.at = "run"]_exVars
  BY DEF OnceStep
<1>. QED  BY <1>1, ExecutorInvariant, TroublesCount, OnceStepHolds, PTL DEF ExSpec, AnsweredOnce
=============================================================================
