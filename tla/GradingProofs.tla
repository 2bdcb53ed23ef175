---------------------------- MODULE GradingProofs ----------------------------
(***************************************************************************)
(* Grading for any repositories, submissions and workers and any limits:   *)
(* one live lease per worker and enrollment, results that are final and    *)
(* come from the holder of the lease, private runs whose baseline stays    *)
(* what it was, and final submissions that are not left ungraded.          *)
(***************************************************************************)
EXTENDS Grading, FiniteSetTheorems, TLAPS

UnderWay == {"pending", "running"}

\* Numbers that are not given out yet have no row and no task; a row has a
\* submission.
Fresh ==
    /\ \A i \in Run : i > runs => task[i] = "absent" /\ result[i] = None /\ status[i] = "absent"
    /\ \A i \in Run : i <= runs => of[i] \in Sub

\* A result, the status of its run and the end of its task come together.
Stored ==
    /\ \A i \in Run : result[i] # None => task[i] = "done" /\ status[i] = result[i]
    /\ \A i \in Run : status[i] = "completed" => result[i] = "completed"

\* A final choice belongs to the repository, which is closed.
Chosen == \A r \in Repo : final[r] # None => closed[r] /\ RepoOf[final[r]] = r

\* The baseline of a private run.
Pinned ==
    \A i \in Run : i <= runs /\ base[i] # None =>
        /\ base[i] \in Run /\ base[i] < i /\ base[base[i]] = None
        /\ of[base[i]] = of[i]
        /\ result[base[i]] = "completed"
        /\ closed[RepoOf[of[i]]] /\ due[RepoOf[of[i]]]

\* The task of a private run is never cancelled, and has ended if the run has;
\* of the private runs of one baseline with one grader only the last may be
\* under way.
Followed ==
    /\ \A i \in Run : i <= runs /\ base[i] # None =>
          task[i] # "cancelled" /\ (status[i] \notin UnderWay => task[i] \in {"done", "failed"})
    /\ \A i, j \in Run :
          j <= runs /\ i < j /\ base[i] # None /\ base[i] = base[j] /\ rev[i] = rev[j] =>
          status[i] \notin UnderWay

\* OneLiveLease, by numbers.
Apart ==
    \A i, j \in Run : i <= runs /\ j <= runs /\ i # j /\ LiveLease(i) /\ LiveLease(j) =>
        /\ owner[i] # owner[j]
        /\ EnrollmentOf[RepoOf[of[i]]] # EnrollmentOf[RepoOf[of[j]]]

GradingInv == TypeOK /\ Fresh /\ Stored /\ Chosen /\ Pinned /\ Followed /\ Apart

\* A row number.
LEMMA RowsAreRuns == TypeOK => \A i : i \in Rows <=> i \in Run /\ i <= runs
  BY GradingAssumption DEF TypeOK, Rows, Run

\* At the start there is no run.
LEMMA GradingInitially == Init => GradingInv
<1>. SUFFICES ASSUME Init PROVE GradingInv
  OBVIOUS
<1>1. TypeOK
  BY GradingAssumption DEF Init, TypeOK, RunStatus, TaskStatus
<1>2. \A i \in Run : i > 0 /\ ~(i <= 0)
  BY GradingAssumption DEF Run
<1>3. Fresh /\ Stored /\ Chosen /\ Pinned /\ Followed /\ Apart
  BY <1>2 DEF Init, Fresh, Stored, Chosen, Pinned, Followed, Apart
<1>. QED  BY <1>1, <1>3 DEF GradingInv

-----------------------------------------------------------------------------
(* Steps of the repository.                                                *)

\* A closed repository stays due, and its choice a choice.
LEMMA RepositoryInv ==
  ASSUME GradingInv, TypeOK', Chosen', UNCHANGED <<runRows, task, lease, job, posts>>,
         \A r \in Repo : closed[r] => closed'[r] /\ (due[r] => due'[r])
  PROVE  GradingInv'
<1>1. Fresh' /\ Stored' /\ Followed' /\ Apart'
  BY DEF GradingInv, Fresh, Stored, Followed, Apart, LiveLease, runRows, lease
<1>2. \A i \in Run : i <= runs => RepoOf[of[i]] \in Repo
  BY GradingAssumption DEF GradingInv, Fresh
<1>3. Pinned'
  BY <1>2 DEF GradingInv, Pinned, runRows
<1>. QED  BY <1>1, <1>3 DEF GradingInv

LEMMA ArriveInv == ASSUME GradingInv, NEW s \in Sub, Arrive(s) \/ Retain(s) PROVE GradingInv'
<1>1. TypeOK'
  BY DEF Arrive, Retain, GradingInv, TypeOK, runRows, lease
<1>2. Chosen'
  BY DEF Arrive, Retain, GradingInv, Chosen
<1>. QED  BY <1>1, <1>2, RepositoryInv DEF Arrive, Retain

LEMMA DeadlineInv ==
  ASSUME GradingInv, NEW r \in Repo, PassDeadline(r) \/ Extend(r) PROVE GradingInv'
<1>1. TypeOK'
  BY DEF PassDeadline, Extend, GradingInv, TypeOK, runRows, lease
<1>2. Chosen'
  BY DEF PassDeadline, Extend, GradingInv, Chosen
<1>3. \A q \in Repo : closed[q] => closed'[q] /\ (due[q] => due'[q])
  BY DEF PassDeadline, Extend, GradingInv, TypeOK
<1>. QED  BY <1>1, <1>2, <1>3, RepositoryInv DEF PassDeadline, Extend

LEMMA UpdateGraderInv ==
  ASSUME GradingInv, NEW r \in Repo, NEW v \in Revision, UpdateGrader(r, v) PROVE GradingInv'
<1>1. TypeOK'
  BY DEF UpdateGrader, GradingInv, TypeOK, runRows, lease
<1>2. Chosen'
  BY DEF UpdateGrader, GradingInv, Chosen
<1>. QED  BY <1>1, <1>2, RepositoryInv DEF UpdateGrader

LEMMA SelectInv == ASSUME GradingInv, NEW s \in Sub, Select(s) PROVE GradingInv'
<1>0. RepoOf[s] \in Repo
  BY GradingAssumption
<1>1. TypeOK'
  BY <1>0 DEF Select, GradingInv, TypeOK, runRows, lease
<1>2. Chosen'
  BY <1>0 DEF Select, GradingInv, Chosen, TypeOK
<1>. QED  BY <1>1, <1>2, RepositoryInv DEF Select

LEMMA ReadFinalsInv == ASSUME GradingInv, ReadFinals PROVE GradingInv'
<1>1. TypeOK'
  BY DEF ReadFinals, GradingInv, TypeOK, runRows, lease
<1>2. Chosen'
  BY DEF ReadFinals, GradingInv, Chosen
<1>. QED  BY <1>1, <1>2, RepositoryInv DEF ReadFinals

\* close revives tasks of the final submission, which has no private run yet.
LEMMA CloseInv == ASSUME GradingInv, NEW r \in Repo, Close(r) PROVE GradingInv'
<1>1. /\ ~closed[r] /\ closed' = [closed EXCEPT ![r] = TRUE]
      /\ \E extended \in BOOLEAN : due' = [due EXCEPT ![r] = ~extended]
      /\ UNCHANGED <<subs, source, manual, repair, revision, runs, of, base, rev,
                     status, result, owner, token, live, job, posts>>
  BY DEF Close, runRows
<1>2. /\ task' \in [Run -> TaskStatus] /\ attempts' \in [Run -> 0..MaxAttempts]
      /\ \A i \in Run : task'[i] # task[i] =>
            /\ i <= runs /\ RepoOf[of[i]] = r
            /\ task[i] \in {"failed", "cancelled"} /\ task'[i] = "pending"
      /\ final' = final \/ \E s \in Sub : RepoOf[s] = r /\ final' = [final EXCEPT ![r] = s]
  <2>1. CASE UNCHANGED <<final, task, attempts>>
    BY <2>1 DEF GradingInv, TypeOK
  <2>2. CASE \E s \in subs :
               LET revived == {i \in RunsOf(s) : task[i] \in {"failed", "cancelled"}} IN
               /\ IsNewest(r, s)
               /\ final' = [final EXCEPT ![r] = s]
               /\ task' = [i \in Run |-> IF i \in revived THEN "pending" ELSE task[i]]
               /\ attempts' = [i \in Run |-> IF i \in revived THEN 0 ELSE attempts[i]]
    <3>. PICK s \in subs :
               LET revived == {i \in RunsOf(s) : task[i] \in {"failed", "cancelled"}} IN
               /\ IsNewest(r, s)
               /\ final' = [final EXCEPT ![r] = s]
               /\ task' = [i \in Run |-> IF i \in revived THEN "pending" ELSE task[i]]
               /\ attempts' = [i \in Run |-> IF i \in revived THEN 0 ELSE attempts[i]]
      BY <2>2
    <3>1. \A i \in RunsOf(s) : i \in Run /\ i <= runs /\ of[i] = s
      BY RowsAreRuns DEF GradingInv, RunsOf
    <3>2. s \in Sub /\ RepoOf[s] = r
      BY DEF GradingInv, TypeOK, IsNewest
    <3>3. task' \in [Run -> TaskStatus] /\ attempts' \in [Run -> 0..MaxAttempts]
      BY GradingAssumption DEF GradingInv, TypeOK, TaskStatus
    <3>. QED  BY <3>1, <3>2, <3>3
  <2>. QED  BY <2>1, <2>2, Zenon DEF Close
<1>3. TypeOK'
  <2>1. /\ due' \in [Repo -> BOOLEAN] /\ closed' \in [Repo -> BOOLEAN]
        /\ final' \in [Repo -> Sub \cup {None}]
    BY <1>1, <1>2 DEF GradingInv, TypeOK
  <2>. QED  BY <1>1, <1>2, <2>1 DEF GradingInv, TypeOK
<1>4. \A i \in Run : i <= runs => RepoOf[of[i]] \in Repo
  BY GradingAssumption DEF GradingInv, Fresh
<1>5. /\ \A q \in Repo : closed[q] => closed'[q] /\ due'[q] = due[q]
      /\ \A q \in Repo : q # r => final'[q] = final[q]
  BY <1>1, <1>2 DEF GradingInv, TypeOK
<1>6. Chosen'
  BY <1>1, <1>2, <1>5, GradingAssumption DEF GradingInv, Chosen, TypeOK
<1>7. Pinned'
  BY <1>1, <1>4, <1>5 DEF GradingInv, Pinned
<1>8. \A i \in Run : i <= runs /\ base[i] # None => task'[i] = task[i]
  BY <1>1, <1>2 DEF GradingInv, Pinned
<1>9. Followed'
  BY <1>1, <1>8 DEF GradingInv, Followed
<1>10. \A i \in Run : task'[i] # task[i] =>
         task[i] \in {"failed", "cancelled"} /\ task'[i] = "pending"
                                           /\ i <= runs
  BY <1>2
<1>11. Fresh' /\ Stored'
  BY <1>1, <1>10 DEF GradingInv, Fresh, Stored
<1>12. Apart'
  BY <1>1, <1>10 DEF GradingInv, Apart, LiveLease
<1>. QED  BY <1>3, <1>6, <1>7, <1>9, <1>11, <1>12 DEF GradingInv

-----------------------------------------------------------------------------
(* New runs.                                                               *)

\* A row is inserted with a task or as superseded; pending public runs may give
\* way.  A private run follows a completed public one, and no other of its
\* baseline and grader that is under way.
LEMMA InsertInv ==
  ASSUME GradingInv, TypeOK', UNCHANGED <<due, closed, final, lease>>,
         NEW s \in Sub, NEW b \in Run \cup {None}, NEW v, InsertRun(s, b, v),
         \A i \in Run : i # runs + 1 =>
            /\ task'[i] = task[i] \/ (task[i] = "pending" /\ base[i] = None /\ i <= runs
                                      /\ task'[i] = "cancelled")
            /\ status'[i] = status[i] \/ (status[i] = "pending" /\ task'[i] = "cancelled"
                                          /\ status'[i] = "superseded"),
         task'[runs + 1] \in {"absent", "pending"},
         status'[runs + 1] \in {"pending", "superseded"},
         b # None => /\ status'[runs + 1] = "pending" /\ task'[runs + 1] = "pending"
                     /\ b <= runs /\ base[b] = None /\ of[b] = s /\ result[b] = "completed"
                     /\ closed[RepoOf[s]] /\ due[RepoOf[s]]
                     /\ \A k \in Run : k <= runs /\ base[k] = b /\ rev[k] = v
                                        => status[k] \notin UnderWay
  PROVE  GradingInv'
<1>. DEFINE n == runs + 1
<1>1. /\ n \in Run /\ runs' = n /\ result' = result
      /\ \A i \in Run : i <= n <=> i = n \/ i <= runs
      /\ runs \in Nat
  BY GradingAssumption DEF InsertRun, GradingInv, TypeOK, Run
<1>2. /\ of'[n] = s /\ base'[n] = b /\ rev'[n] = v
      /\ \A i \in Run : i # n => of'[i] = of[i] /\ base'[i] = base[i] /\ rev'[i] = rev[i]
  BY <1>1 DEF InsertRun, GradingInv, TypeOK
<1>3. result[n] = None /\ task[n] = "absent" /\ status[n] = "absent"
  BY <1>1 DEF GradingInv, Fresh
<1>4. \A i \in Run : i # n /\ i > runs => task'[i] = "absent" /\ status'[i] = "absent"
  BY <1>1 DEF GradingInv, Fresh
<1>5. Fresh'
  BY <1>1, <1>2, <1>4 DEF GradingInv, Fresh, Run
<1>6. \A i \in Run : result[i] # None => /\ i # n /\ i <= runs
                                         /\ task'[i] = task[i] /\ status'[i] = status[i]
  <2>. SUFFICES ASSUME NEW i \in Run, result[i] # None
                PROVE  /\ i # n /\ i <= runs
                       /\ task'[i] = task[i] /\ status'[i] = status[i]
    OBVIOUS
  <2>1. i # n /\ task[i] = "done"
    BY <1>3 DEF GradingInv, Stored
  <2>2. i <= runs
    BY <1>1 DEF GradingInv, Fresh, Run
  <2>. QED  BY <2>1, <2>2
<1>7. Stored'
  <2>1. \A i \in Run : result'[i] # None => task'[i] = "done" /\ status'[i] = result'[i]
    BY <1>1, <1>6 DEF GradingInv, Stored
  <2>2. \A i \in Run : status'[i] = "completed" => result'[i] = "completed"
    BY <1>1 DEF GradingInv, Stored
  <2>. QED  BY <2>1, <2>2 DEF Stored
<1>8. Chosen'
  BY DEF GradingInv, Chosen
<1>9. Pinned'
  <2>. SUFFICES ASSUME NEW i \in Run, i <= n, base'[i] # None
                PROVE  /\ base'[i] \in Run /\ base'[i] < i /\ base'[base'[i]] = None
                       /\ of'[base'[i]] = of'[i] /\ result'[base'[i]] = "completed"
                       /\ closed'[RepoOf[of'[i]]] /\ due'[RepoOf[of'[i]]]
    BY <1>1 DEF Pinned
  <2>1. CASE i = n
    BY <2>1, <1>1, <1>2 DEF Run
  <2>2. CASE i # n
    BY <2>2, <1>1, <1>2 DEF GradingInv, Pinned, Run
  <2>. QED  BY <2>1, <2>2
<1>10. \A i \in Run : i <= runs /\ base[i] # None => /\ task'[i] = task[i]
                                                     /\ status'[i] = status[i]
  BY <1>1 DEF GradingInv, Followed, Run
<1>11. Followed'
  <2>1. \A i \in Run : i <= n /\ base'[i] # None =>
          /\ task'[i] # "cancelled"
          /\ status'[i] \notin UnderWay => task'[i] \in {"done", "failed"}
    BY <1>1, <1>2, <1>10 DEF GradingInv, Followed, UnderWay
  <2>2. ASSUME NEW i \in Run, NEW j \in Run, j <= n, i < j, base'[i] # None,
               base'[i] = base'[j], rev'[i] = rev'[j]
        PROVE  status'[i] \notin UnderWay
    <3>1. i # n /\ i <= runs
      BY <2>2, <1>1 DEF Run
    <3>2. CASE j = n
      BY <2>2, <3>1, <3>2, <1>2, <1>10
    <3>3. CASE j # n
      BY <2>2, <3>1, <3>3, <1>1, <1>2, <1>10 DEF GradingInv, Followed
    <3>. QED  BY <3>2, <3>3
  <2>. QED  BY <2>1, <2>2, <1>1 DEF Followed
<1>12. \A i \in Run : i <= n /\ LiveLease(i)' => i # n /\ i <= runs /\ LiveLease(i)
  BY <1>1 DEF LiveLease, lease
<1>13. Apart'
  BY <1>1, <1>2, <1>12 DEF GradingInv, Apart, lease
<1>. QED  BY <1>5, <1>7, <1>8, <1>9, <1>11, <1>13 DEF GradingInv

\* enqueue_run, whoever calls it.
LEMMA EnqueueRunInv ==
  ASSUME GradingInv, NEW s \in Sub, NEW regrade \in BOOLEAN, EnqueueRun(s, regrade),
         manual' \in [Repo -> BOOLEAN], repair' \subseteq Sub
  PROVE  GradingInv'
<1>. DEFINE n == runs + 1
<1>1. /\ n \in Run /\ InsertRun(s, None, revision[RepoOf[s]])
      /\ UNCHANGED <<subs, source, due, closed, final, revision, lease, job, posts>>
      /\ runs' \in 0..MaxRuns
  BY GradingAssumption DEF EnqueueRun, InsertRun, GradingInv, TypeOK, Run
<1>2. \A i \in Replaced(s) : i \in Run /\ i <= runs /\ task[i] = "pending" /\ base[i] = None
  BY RowsAreRuns DEF GradingInv, Replaced, IsPublic
<1>3. /\ task' \in [Run -> TaskStatus] /\ status' \in [Run -> RunStatus]
      /\ task'[n] \in {"absent", "pending"} /\ status'[n] \in {"pending", "superseded"}
      /\ \A i \in Run : i # n =>
            /\ task'[i] = task[i] \/ (task[i] = "pending" /\ base[i] = None /\ i <= runs
                                      /\ task'[i] = "cancelled")
            /\ status'[i] = status[i] \/ (status[i] = "pending" /\ task'[i] = "cancelled"
                                          /\ status'[i] = "superseded")
  <2>1. CASE status' = [status EXCEPT ![n] = "superseded"] /\ task' = task
    <3>1. n > runs
      BY GradingAssumption DEF GradingInv, TypeOK
    <3>2. task[n] = "absent"
      BY <1>1, <3>1 DEF GradingInv, Fresh
    <3>. QED  BY <2>1, <3>2, <1>1 DEF GradingInv, TypeOK, RunStatus
  <2>2. CASE /\ task' = [i \in Run |-> IF i = n THEN "pending"
                                       ELSE IF i \in Replaced(s) THEN "cancelled" ELSE task[i]]
             /\ status' = [i \in Run |->
                  IF i = n THEN "pending"
                  ELSE IF status[i] = "pending" /\ task'[i] = "cancelled" THEN "superseded"
                  ELSE status[i]]
    <3>1. task' \in [Run -> TaskStatus]
      BY <2>2 DEF GradingInv, TypeOK, TaskStatus
    <3>2. status' \in [Run -> RunStatus]
      BY <2>2 DEF GradingInv, TypeOK, RunStatus
    <3>3. task'[n] = "pending" /\ status'[n] = "pending"
      BY <2>2, <1>1
    <3>4. \A i \in Run : i # n => task'[i] = IF i \in Replaced(s) THEN "cancelled" ELSE task[i]
      BY <2>2
    <3>5. \A i \in Run : i # n =>
             status'[i] = IF status[i] = "pending" /\ task'[i] = "cancelled" THEN "superseded"
                          ELSE status[i]
      BY <2>2
    <3>. QED  BY <3>1, <3>2, <3>3, <3>4, <3>5, <1>2
  <2>. QED  BY <2>1, <2>2 DEF EnqueueRun
<1>4. TypeOK'
  <2>1. revision[RepoOf[s]] \in Revision
    BY GradingAssumption DEF GradingInv, TypeOK
  <2>. QED  BY <1>1, <1>3, <2>1 DEF GradingInv, TypeOK, InsertRun, lease
<1>. QED  BY <1>1, <1>3, <1>4, InsertInv

\* A private run, the first of its baseline and grader or after a failure.
LEMMA PrivateInv ==
  ASSUME GradingInv, NEW s \in Sub, NEW b \in Run, NEW v \in Revision \cup {None},
         InsertRun(s, b, v),
         status' = [status EXCEPT ![runs + 1] = "pending"],
         task' = [task EXCEPT ![runs + 1] = "pending"],
         UNCHANGED <<repository, lease, job, posts>>,
         b <= runs, base[b] = None, of[b] = s, result[b] = "completed",
         closed[RepoOf[s]], due[RepoOf[s]],
         \A k \in Run : k <= runs /\ base[k] = b /\ rev[k] = v => status[k] \notin UnderWay
  PROVE  GradingInv'
<1>1. runs + 1 \in Run /\ runs' \in 0..MaxRuns
  BY GradingAssumption DEF InsertRun, GradingInv, TypeOK, Run
<1>2. TypeOK'
  BY <1>1 DEF GradingInv, TypeOK, InsertRun, lease, repository, TaskStatus, RunStatus
<1>. QED  BY <1>1, <1>2, InsertInv DEF GradingInv, TypeOK, repository

LEMMA EnqueuePrivateInv == ASSUME GradingInv, NEW r \in Repo, EnqueuePrivate(r) PROVE GradingInv'
<1>. DEFINE s == final[r]
<1>1. s \in Sub /\ closed[r] /\ RepoOf[s] = r /\ due[r]
  BY DEF EnqueuePrivate, GradingInv, Chosen, TypeOK
<1>2. PICK b \in Rows : /\ IsLast({i \in RunsOf(s) : IsPublic(i)}, b)
                        /\ status[b] = "completed"
                        /\ \A i \in Rows : base[i] = b => rev[i] # revision[r]
                        /\ InsertRun(s, b, revision[r])
  BY DEF EnqueuePrivate
<1>3. b \in Run /\ b <= runs /\ of[b] = s /\ base[b] = None
  BY <1>2, RowsAreRuns DEF GradingInv, IsLast, RunsOf, IsPublic
<1>4. result[b] = "completed"
  BY <1>2, <1>3 DEF GradingInv, Stored
<1>5. \A k \in Run : k <= runs /\ base[k] = b => rev[k] # revision[r]
  BY <1>2, RowsAreRuns DEF GradingInv
<1>6. revision[r] \in Revision
  BY DEF GradingInv, TypeOK
<1>. QED  BY <1>1, <1>2, <1>3, <1>4, <1>5, <1>6, PrivateInv DEF EnqueuePrivate

LEMMA RetryPrivateInv == ASSUME GradingInv, NEW i \in Run, RetryPrivate(i) PROVE GradingInv'
<1>. DEFINE s == of[i]
            b == base[i]
<1>1. i <= runs /\ b # None /\ b \in Run /\ s \in Sub /\ rev[i] \in Revision \cup {None}
  BY RowsAreRuns DEF RetryPrivate, GradingInv, IsPublic, TypeOK, Fresh
<1>2. /\ b < i /\ base[b] = None /\ of[b] = s /\ result[b] = "completed"
      /\ closed[RepoOf[s]] /\ due[RepoOf[s]]
  BY <1>1 DEF GradingInv, Pinned
<1>3. b <= runs
  BY <1>1, <1>2, GradingAssumption DEF GradingInv, TypeOK, Run
<1>4. ASSUME NEW k \in Run, k <= runs, base[k] = b, rev[k] = rev[i]
      PROVE  status[k] \notin UnderWay
  <2>1. of[k] = s
    BY <1>1, <1>2, <1>4 DEF GradingInv, Pinned
  <2>2. k \in RunsOf(s)
    BY <1>4, <2>1, RowsAreRuns DEF GradingInv, RunsOf
  <2>3. k <= i
    BY <2>2 DEF RetryPrivate, IsLast
  <2>4. CASE k = i
    BY <2>4 DEF RetryPrivate, UnderWay
  <2>5. CASE k < i
    BY <1>1, <1>4, <2>5 DEF GradingInv, Followed
  <2>. QED  BY <2>3, <2>4, <2>5 DEF Run
<1>. QED  BY <1>1, <1>2, <1>3, <1>4, PrivateInv DEF RetryPrivate

-----------------------------------------------------------------------------
(* Leases and results.                                                     *)

\* sync fails runs whose task has failed.
LEMMA FailRunsInv == ASSUME GradingInv, FailRuns PROVE GradingInv'
<1>1. UNCHANGED <<repository, runs, of, base, rev, result, task, lease, job, posts>>
  BY DEF FailRuns
<1>2. /\ status' \in [Run -> RunStatus]
      /\ \A i \in Run : \/ status'[i] = status[i]
                        \/ /\ status[i] \in UnderWay /\ task[i] = "failed"
                           /\ status'[i] = "infrastructure_failed"
  BY DEF FailRuns, GradingInv, TypeOK, RunStatus, UnderWay
<1>3. TypeOK'
  BY <1>1, <1>2 DEF GradingInv, TypeOK, repository, lease
<1>4. Fresh' /\ Stored' /\ Chosen' /\ Pinned'
  BY <1>1, <1>2 DEF GradingInv, Fresh, Stored, Chosen, Pinned, repository
<1>5. Followed'
  BY <1>1, <1>2 DEF GradingInv, Followed, UnderWay
<1>6. Apart'
  BY <1>1 DEF GradingInv, Apart, LiveLease, lease
<1>. QED  BY <1>3, <1>4, <1>5, <1>6 DEF GradingInv

\* A lease ends.
LEMMA ExpireInv == ASSUME GradingInv, NEW i \in Run, Expire(i) PROVE GradingInv'
<1>1. UNCHANGED <<repository, runRows, task, attempts, owner, token, job, posts>>
  BY DEF Expire
<1>2. TypeOK'
  BY <1>1 DEF Expire, GradingInv, TypeOK, repository, runRows
<1>3. Fresh' /\ Stored' /\ Chosen' /\ Pinned' /\ Followed'
  BY <1>1 DEF GradingInv, Fresh, Stored, Chosen, Pinned, Followed, repository, runRows
<1>4. \A j \in Run : LiveLease(j)' => LiveLease(j)
  BY <1>1 DEF Expire, LiveLease, GradingInv, TypeOK
<1>5. Apart'
  BY <1>1, <1>4 DEF GradingInv, Apart, runRows
<1>. QED  BY <1>2, <1>3, <1>5 DEF GradingInv

\* A task whose last lease ran out has failed.
LEMMA ExhaustInv == ASSUME GradingInv, NEW i \in Run, Exhaust(i) PROVE GradingInv'
<1>1. UNCHANGED <<repository, runRows, lease, job, posts>> /\ task[i] = "leased"
  BY DEF Exhaust
<1>2. /\ task' \in [Run -> TaskStatus] /\ task'[i] = "failed"
      /\ \A j \in Run : j # i => task'[j] = task[j]
  BY DEF Exhaust, GradingInv, TypeOK, TaskStatus
<1>3. TypeOK'
  BY <1>1, <1>2 DEF GradingInv, TypeOK, repository, runRows, lease
<1>4. Fresh' /\ Stored' /\ Chosen' /\ Pinned' /\ Followed'
  BY <1>1, <1>2 DEF GradingInv, Fresh, Stored, Chosen, Pinned, Followed, repository, runRows
<1>5. \A j \in Run : LiveLease(j)' => LiveLease(j)
  BY <1>1, <1>2 DEF LiveLease, lease
<1>6. Apart'
  BY <1>1, <1>5 DEF GradingInv, Apart, runRows, lease
<1>. QED  BY <1>3, <1>4, <1>6 DEF GradingInv

\* The bound on leases bounds the leases of a row.
LEMMA TokenIsBounded ==
  ASSUME TypeOK, NEW i \in Rows, Cardinality(Leases) < MaxLeases PROVE token[i] < MaxLeases
<1>. SUFFICES ASSUME token[i] = MaxLeases PROVE FALSE
  <2>1. i \in Run
    BY RowsAreRuns
  <2>. QED  BY <2>1, GradingAssumption DEF TypeOK
<1>. DEFINE T == {i} \X (1..MaxLeases)
<1>1. MaxLeases \in Nat /\ runs \in Nat
  BY GradingAssumption DEF TypeOK
<1>2. IsFiniteSet(Rows) /\ IsFiniteSet(1..MaxLeases) /\ Cardinality(1..MaxLeases) = MaxLeases
  BY <1>1, FS_Interval DEF Rows
<1>3. IsFiniteSet(Rows \X (1..MaxLeases))
  BY <1>2, FS_Product
<1>4. IsFiniteSet(Leases)
  BY <1>3, FS_Subset DEF Leases
<1>5. T \subseteq Leases
  BY <1>1 DEF Leases
<1>6. Cardinality(T) <= Cardinality(Leases) /\ IsFiniteSet(T)
  BY <1>4, <1>5, FS_Subset
<1>7. IsFiniteSet({i}) /\ Cardinality({i}) = 1
  BY FS_Singleton
<1>8. Cardinality(T) = 1 * MaxLeases
  BY <1>2, <1>7, FS_Product
<1>9. Cardinality(Leases) \in Nat
  BY <1>4, FS_CardinalityType
<1>. QED  BY <1>1, <1>6, <1>8, <1>9

\* A worker without a live lease takes a task of an enrollment without one.
LEMMA LeaseInv ==
  ASSUME GradingInv, NEW w \in Worker, NEW i \in Run, Lease(w, i) PROVE GradingInv'
<1>1. /\ UNCHANGED <<repository, runs, of, base, rev, result, posts>>
      /\ i \in Rows /\ i <= runs /\ Ready(i) /\ task[i] \in {"pending", "leased"}
  BY RowsAreRuns DEF Lease, GradingInv, Ready
<1>2. token[i] < MaxLeases
  BY <1>1, TokenIsBounded DEF Lease, GradingInv
<1>3. /\ task' \in [Run -> TaskStatus] /\ task'[i] = "leased"
      /\ \A j \in Run : j # i => task'[j] = task[j]
      /\ status' \in [Run -> RunStatus] /\ status'[i] = "running"
      /\ \A j \in Run : j # i => status'[j] = status[j]
  BY DEF Lease, GradingInv, TypeOK, TaskStatus, RunStatus
<1>4. /\ owner' \in [Run -> Worker \cup {None}] /\ owner'[i] = w
      /\ \A j \in Run : j # i => owner'[j] = owner[j] /\ live'[j] = live[j]
      /\ live' \in [Run -> BOOLEAN]
  BY DEF Lease, GradingInv, TypeOK
<1>5. /\ token' \in [Run -> 0..MaxLeases] /\ token'[i] \in 1..MaxLeases
      /\ attempts' \in [Run -> 0..MaxAttempts]
  BY <1>1, <1>2, GradingAssumption DEF Lease, GradingInv, TypeOK, Ready
<1>6. job' \in [Worker -> Job \cup {None}]
  <2>1. [run |-> i, token |-> token'[i], result |-> None] \in Job
    BY <1>5 DEF Job
  <2>. QED  BY <2>1 DEF Lease, OwnedLease, GradingInv, TypeOK
<1>7. TypeOK'
  BY <1>1, <1>3, <1>4, <1>5, <1>6 DEF GradingInv, TypeOK, repository
<1>8. result[i] = None
  BY <1>1 DEF GradingInv, Stored
<1>9. Fresh' /\ Stored' /\ Chosen' /\ Pinned'
  BY <1>1, <1>3, <1>8 DEF GradingInv, Fresh, Stored, Chosen, Pinned, repository
<1>10. Followed'
  BY <1>1, <1>3 DEF GradingInv, Followed, UnderWay
<1>11. \A j \in Run : j <= runs /\ j # i /\ LiveLease(j)' =>
          LiveLease(j) /\ owner'[j] = owner[j] /\ owner[j] # w
          /\ EnrollmentOf[RepoOf[of[j]]] # EnrollmentOf[RepoOf[of[i]]]
  BY <1>1, <1>3, <1>4, RowsAreRuns
  DEF Lease, GradingInv, LiveLease, WorkerBusy, EnrollmentBusy, RepoOfRun
<1>12. Apart'
  BY <1>1, <1>4, <1>11 DEF GradingInv, Apart
<1>. QED  BY <1>7, <1>9, <1>10, <1>12 DEF GradingInv

\* The worker's side, and the first half of accept.
LEMMA WorkerInv ==
  ASSUME GradingInv, TypeOK', UNCHANGED <<repository, runRows, task, lease>> PROVE GradingInv'
  BY
  DEF GradingInv, Fresh, Stored, Chosen, Pinned, Followed, Apart, LiveLease, repository,
      runRows, lease

LEMMA PostResultInv ==
  ASSUME GradingInv, NEW w \in Worker, NEW res \in Outcome, PostResult(w, res) PROVE GradingInv'
<1>1. job[w] \in Job
  BY DEF PostResult, GradingInv, TypeOK
<1>2. job' \in [Worker -> Job \cup {None}]
  BY <1>1 DEF PostResult, GradingInv, TypeOK, Job
<1>3. posts' \subseteq Post
  <2>1. [worker |-> w, run |-> job[w].run, token |-> job[w].token, result |-> res,
         checked |-> FALSE] \in Post
    BY <1>1 DEF Job, Post
  <2>. QED  BY <2>1 DEF PostResult, GradingInv, TypeOK
<1>4. TypeOK'
  BY <1>2, <1>3 DEF PostResult, GradingInv, TypeOK, repository, runRows, lease
<1>. QED  BY <1>4, WorkerInv DEF PostResult

LEMMA LeaveInv == ASSUME GradingInv, NEW w \in Worker, Leave(w) PROVE GradingInv'
<1>1. TypeOK'
  BY DEF Leave, GradingInv, TypeOK, repository, runRows, lease
<1>. QED  BY <1>1, WorkerInv DEF Leave

LEMMA CheckInv == ASSUME GradingInv, NEW p \in posts, Check(p) PROVE GradingInv'
<1>1. p \in Post
  BY DEF GradingInv, TypeOK
<1>2. [p EXCEPT !.checked = TRUE] \in Post
  BY <1>1 DEF Post
<1>3. posts' \subseteq Post
  BY <1>2 DEF Check, GradingInv, TypeOK
<1>4. TypeOK'
  BY <1>3 DEF Check, GradingInv, TypeOK, repository, runRows, lease
<1>. QED  BY <1>4, WorkerInv DEF Check

\* What a result that is stored changes.
LEMMA StoreFacts ==
  ASSUME GradingInv, NEW p \in posts, Store(p)
  PROVE  /\ p \in Post /\ p.run \in Run /\ p.result \in Outcome
         /\ status' \in [Run -> RunStatus] /\ result' \in [Run -> Outcome \cup {None}]
         /\ task' \in [Run -> TaskStatus]
         /\ status'[p.run] = p.result /\ result'[p.run] = p.result /\ task'[p.run] = "done"
         /\ \A j \in Run : j # p.run => /\ status'[j] = status[j] /\ result'[j] = result[j]
                                        /\ task'[j] = task[j]
<1>1. p \in Post /\ p.run \in Run /\ p.result \in Outcome
  BY DEF GradingInv, TypeOK, Post
<1>2. p.result \in RunStatus
  BY <1>1, GradingAssumption DEF RunStatus
<1>. QED  BY <1>1, <1>2 DEF Store, GradingInv, TypeOK, TaskStatus

\* The second half of accept: the result of the holder is stored.
LEMMA CommitInv == ASSUME GradingInv, NEW p \in posts, Commit(p) PROVE GradingInv'
<1>1. UNCHANGED <<repository, runs, of, base, rev, lease, job>> /\ posts' \subseteq posts
  BY DEF Commit
<1>2. CASE UNCHANGED <<status, result, task>>
  <2>1. TypeOK'
    BY <1>1, <1>2 DEF GradingInv, TypeOK, repository, lease
  <2>. QED  BY <1>1, <1>2, <2>1, WorkerInv DEF runRows
<1>3. CASE Owned(p) /\ LiveLease(p.run) /\ Store(p)
  <2>1. TypeOK'
    BY <1>1, <1>3, StoreFacts DEF GradingInv, TypeOK, repository, lease
  <2>2. task[p.run] = "leased" /\ result[p.run] = None
    BY <1>3, StoreFacts DEF LiveLease, GradingInv, Stored
  <2>3. p.result \notin UnderWay
    BY <1>3, StoreFacts, GradingAssumption DEF UnderWay
  <2>4. p.run <= runs
    <3>1. p.run \in Run /\ ~(p.run > runs)
      BY <1>3, <2>2, StoreFacts DEF GradingInv, Fresh
    <3>. QED  BY <3>1, GradingAssumption DEF GradingInv, TypeOK, Run
  <2>5. Fresh' /\ Stored' /\ Chosen'
    <3>1. Fresh'
      BY <1>1, <1>3, <2>4, StoreFacts DEF GradingInv, Fresh, TypeOK, Run
    <3>2. Stored'
      BY <1>3, StoreFacts DEF GradingInv, Stored
    <3>3. Chosen'
      BY <1>1 DEF GradingInv, Chosen, repository
    <3>. QED  BY <3>1, <3>2, <3>3
  <2>6. Pinned'
    <3>1. \A j \in Run : result[j] = "completed" => result'[j] = "completed"
      BY <1>3, <2>2, StoreFacts, GradingAssumption DEF RunStatus
    <3>. QED  BY <1>1, <3>1 DEF GradingInv, Pinned, repository
  <2>7. Followed'
    BY <1>1, <1>3, <2>3, StoreFacts DEF GradingInv, Followed
  <2>8. \A j \in Run : LiveLease(j)' => LiveLease(j)
    BY <1>1, <1>3, StoreFacts DEF LiveLease, lease
  <2>9. Apart'
    BY <1>1, <2>8 DEF GradingInv, Apart, lease
  <2>. QED  BY <2>1, <2>5, <2>6, <2>7, <2>9 DEF GradingInv
<1>. QED  BY <1>2, <1>3 DEF Commit

-----------------------------------------------------------------------------
\* Every step keeps the invariant.
LEMMA GradingStep == GradingInv /\ [Next]_vars => GradingInv'
<1>. SUFFICES ASSUME GradingInv, [Next]_vars PROVE GradingInv'
  OBVIOUS
<1>1. ASSUME NEW s \in Sub, Arrive(s) \/ Retain(s) \/ Select(s) PROVE GradingInv'
  BY <1>1, ArriveInv, SelectInv
<1>2. ASSUME NEW s \in Sub, GradeSubmission(s) \/ Regrade(s) \/ RegradeFinal(s) PROVE GradingInv'
  <2>1. manual' \in [Repo -> BOOLEAN] /\ repair' \subseteq Sub
    BY <1>2 DEF GradeSubmission, Regrade, RegradeFinal, GradingInv, TypeOK
  <2>. QED  BY <1>2, <2>1, EnqueueRunInv DEF GradeSubmission, Regrade, RegradeFinal
<1>3. ASSUME NEW r \in Repo, PassDeadline(r) \/ Extend(r) \/ Close(r) \/ EnqueuePrivate(r)
      PROVE  GradingInv'
  BY <1>3, DeadlineInv, CloseInv, EnqueuePrivateInv
<1>4. CASE ReadFinals \/ FailRuns
  BY <1>4, ReadFinalsInv, FailRunsInv
<1>5. ASSUME NEW i \in Run, RetryPrivate(i) \/ Expire(i) \/ Exhaust(i) PROVE GradingInv'
  BY <1>5, RetryPrivateInv, ExpireInv, ExhaustInv
<1>6. ASSUME NEW w \in Worker, \/ \E i \in Run : Lease(w, i)
                               \/ \E res \in Outcome : PostResult(w, res)
                               \/ Leave(w)
      PROVE  GradingInv'
  BY <1>6, LeaseInv, PostResultInv, LeaveInv
<1>7. ASSUME NEW p \in posts, Check(p) \/ Commit(p) PROVE GradingInv'
  BY <1>7, CheckInv, CommitInv
<1>8. CASE UNCHANGED vars
  <2>1. UNCHANGED <<repository, runRows, task, lease, job, posts>>
    BY <1>8 DEF vars
  <2>2. TypeOK'
    BY <2>1 DEF GradingInv, TypeOK, repository, runRows, lease
  <2>. QED  BY <2>1, <2>2, WorkerInv
<1>9. ASSUME NEW r \in Repo, NEW v \in Revision, UpdateGrader(r, v) PROVE GradingInv'
  BY <1>9, UpdateGraderInv
<1>. QED  BY <1>1, <1>2, <1>3, <1>4, <1>5, <1>6, <1>7, <1>8, <1>9, Zenon DEF Next

\* The invariant of grading, for any repositories, submissions, workers and
\* limits.
THEOREM GradingInvariant == Spec => []GradingInv
  BY GradingInitially, GradingStep, PTL DEF Spec

\* The rows, leases, jobs and posts keep their types: in particular no grade
\* task is leased more often than it has attempts.
THEOREM TypesOfGrading == Spec => []TypeOK
<1>1. GradingInv => TypeOK
  BY DEF GradingInv
<1>. QED  BY <1>1, GradingInvariant, PTL

\* However leases expire and workers come and go, a worker has one live lease,
\* and so has an enrollment.
THEOREM LeasesAreApart == Spec => []OneLiveLease
<1>1. GradingInv => OneLiveLease
  BY RowsAreRuns DEF GradingInv, Apart, OneLiveLease, RepoOfRun
<1>. QED  BY <1>1, GradingInvariant, PTL

\* A private run keeps its completed public baseline and its deadline through
\* regrades, retries, closure and extensions, and is alone with its grader,
\* however often the grader of the repository is updated.
THEOREM PrivateRunsArePinned == Spec => []PrivateIsPinned
<1>1. GradingInv => PrivateIsPinned
  <2>. SUFFICES ASSUME GradingInv PROVE PrivateIsPinned
    OBVIOUS
  <2>1. ASSUME NEW i \in Rows, base[i] # None
        PROVE  /\ base[i] < i /\ base[base[i]] = None /\ of[base[i]] = of[i]
               /\ status[base[i]] = "completed" /\ result[base[i]] = "completed"
               /\ closed[RepoOf[of[i]]] /\ due[RepoOf[of[i]]]
    <3>1. /\ base[i] \in Run /\ base[i] < i /\ base[base[i]] = None /\ of[base[i]] = of[i]
          /\ result[base[i]] = "completed"
          /\ closed[RepoOf[of[i]]] /\ due[RepoOf[of[i]]]
      BY <2>1, RowsAreRuns DEF GradingInv, Pinned
    <3>2. "completed" # None
      BY GradingAssumption DEF RunStatus
    <3>. QED  BY <3>1, <3>2 DEF GradingInv, Stored
  <2>2. ASSUME NEW i \in Rows, NEW j \in Rows, base[i] # None, base[i] = base[j],
               rev[i] = rev[j], i # j
        PROVE  ~(status[i] \in UnderWay /\ status[j] \in UnderWay)
    <3>1. i \in Run /\ j \in Run /\ i <= runs /\ j <= runs
      BY RowsAreRuns DEF GradingInv
    <3>2. i < j \/ j < i
      BY <2>2, <3>1 DEF Run
    <3>. QED  BY <2>2, <3>1, <3>2 DEF GradingInv, Followed
  <2>. QED  BY <2>1, <2>2 DEF PrivateIsPinned, IsPublic, RepoOfRun, UnderWay
<1>. QED  BY <1>1, GradingInvariant, PTL

-----------------------------------------------------------------------------
(* What a step may not do to results.                                      *)

\* Only accept stores results.
LEMMA OnlyAccept ==
  ASSUME GradingInv, [Next]_vars, result' # result
  PROVE  \E p \in posts : Commit(p) /\ Owned(p) /\ LiveLease(p.run) /\ Store(p)
<1>1. ASSUME NEW s \in Sub, Arrive(s) \/ Retain(s) \/ Select(s) PROVE result' = result
  BY <1>1 DEF Arrive, Retain, Select, runRows
<1>2. ASSUME NEW s \in Sub, GradeSubmission(s) \/ Regrade(s) \/ RegradeFinal(s)
      PROVE  result' = result
  BY <1>2 DEF GradeSubmission, Regrade, RegradeFinal, EnqueueRun, InsertRun
<1>3. ASSUME NEW r \in Repo, PassDeadline(r) \/ Extend(r) \/ Close(r) \/ EnqueuePrivate(r)
      PROVE  result' = result
  BY <1>3 DEF PassDeadline, Extend, Close, EnqueuePrivate, InsertRun, runRows
<1>4. ReadFinals \/ FailRuns => result' = result
  BY DEF ReadFinals, FailRuns, runRows
<1>5. ASSUME NEW i \in Run, RetryPrivate(i) \/ Expire(i) \/ Exhaust(i) PROVE result' = result
  BY <1>5 DEF RetryPrivate, Expire, Exhaust, InsertRun, runRows
<1>6. ASSUME NEW w \in Worker, \/ \E i \in Run : Lease(w, i)
                               \/ \E res \in Outcome : PostResult(w, res)
                               \/ Leave(w)
      PROVE  result' = result
  BY <1>6 DEF Lease, PostResult, Leave, runRows
<1>7. ASSUME NEW p \in posts, Check(p) PROVE result' = result
  BY <1>7 DEF Check, runRows
<1>8. UNCHANGED vars => result' = result
  BY DEF vars, runRows
<1>9. ASSUME NEW r \in Repo, NEW v \in Revision, UpdateGrader(r, v) PROVE result' = result
  BY <1>9 DEF UpdateGrader, runRows
<1>10. PICK p \in posts : Commit(p)
  BY <1>1, <1>2, <1>3, <1>4, <1>5, <1>6, <1>7, <1>8, <1>9, Zenon DEF Next
<1>. QED  BY <1>10 DEF Commit

\* A run with a result is left alone by every action.
LEMMA ResultStays ==
  ASSUME GradingInv, [Next]_vars, NEW i \in Run, result[i] # None
  PROVE  result'[i] = result[i] /\ status'[i] = status[i] /\ task'[i] = task[i]
<1>. DEFINE Stays == status'[i] = status[i] /\ task'[i] = task[i]
<1>1. task[i] = "done" /\ status[i] \notin UnderWay
  BY GradingAssumption DEF GradingInv, Stored, TypeOK, UnderWay
<1>2. i # runs + 1 /\ i \notin {runs + 1}
  BY GradingAssumption DEF GradingInv, Fresh, TypeOK, Run
<1>3. result'[i] = result[i]
  <2>1. ASSUME NEW p \in posts, LiveLease(p.run), Store(p) PROVE result'[i] = result[i]
    BY <2>1, <1>1, StoreFacts DEF LiveLease
  <2>. QED  BY <2>1, OnlyAccept
<1>4. ASSUME NEW s \in Sub, Arrive(s) \/ Retain(s) \/ Select(s) PROVE Stays
  BY <1>4 DEF Arrive, Retain, Select, runRows
<1>5. ASSUME NEW s \in Sub, NEW regrade \in BOOLEAN, EnqueueRun(s, regrade) PROVE Stays
  <2>1. i \notin Replaced(s)
    BY <1>1 DEF Replaced
  <2>2. CASE status' = [status EXCEPT ![runs + 1] = "superseded"] /\ task' = task
    BY <2>2, <1>2 DEF GradingInv, TypeOK
  <2>3. CASE /\ task' = [j \in Run |-> IF j = runs + 1 THEN "pending"
                                       ELSE IF j \in Replaced(s) THEN "cancelled" ELSE task[j]]
             /\ status' = [j \in Run |->
                  IF j = runs + 1 THEN "pending"
                  ELSE IF status[j] = "pending" /\ task'[j] = "cancelled" THEN "superseded"
                  ELSE status[j]]
    BY <2>1, <2>3, <1>1, <1>2 DEF UnderWay
  <2>. QED  BY <1>5, <2>2, <2>3 DEF EnqueueRun
<1>6. ASSUME NEW s \in Sub, GradeSubmission(s) \/ Regrade(s) \/ RegradeFinal(s) PROVE Stays
  BY <1>5, <1>6 DEF GradeSubmission, Regrade, RegradeFinal
<1>7. ASSUME NEW r \in Repo, PassDeadline(r) \/ Extend(r) \/ EnqueuePrivate(r) PROVE Stays
  BY <1>2, <1>7 DEF PassDeadline, Extend, EnqueuePrivate, runRows, GradingInv, TypeOK
<1>8. ASSUME NEW r \in Repo, Close(r) PROVE Stays
  BY <1>1, <1>8 DEF Close, runRows
<1>9. ReadFinals \/ FailRuns => Stays
  BY <1>1 DEF ReadFinals, FailRuns, runRows, UnderWay
<1>10. ASSUME NEW j \in Run, RetryPrivate(j) \/ Expire(j) \/ Exhaust(j) PROVE Stays
  BY <1>1, <1>2, <1>10 DEF RetryPrivate, Expire, Exhaust, runRows, GradingInv, TypeOK
<1>11. ASSUME NEW w \in Worker, NEW j \in Run, Lease(w, j) PROVE Stays
  BY <1>1, <1>11 DEF Lease, Ready, GradingInv, TypeOK
<1>12. ASSUME NEW w \in Worker, Leave(w) \/ \E res \in Outcome : PostResult(w, res) PROVE Stays
  BY <1>12 DEF Leave, PostResult, runRows
<1>13. ASSUME NEW p \in posts, Check(p) \/ Commit(p) PROVE Stays
  BY <1>1, <1>13, StoreFacts DEF Check, Commit, LiveLease, runRows
<1>14. UNCHANGED vars => Stays
  BY DEF vars, runRows
<1>15. ASSUME NEW r \in Repo, NEW v \in Revision, UpdateGrader(r, v) PROVE Stays
  BY <1>15 DEF UpdateGrader, runRows
<1>16. Stays
  BY <1>4, <1>6, <1>7, <1>8, <1>9, <1>10, <1>11, <1>12, <1>13, <1>14, <1>15, Zenon
  DEF Next
<1>. QED  BY <1>3, <1>16

\* A result, the status of its run and its task are final.
THEOREM ResultsAreFinal == Spec => ResultIsFinal
<1>1. GradingInv /\ [Next]_vars =>
        [\A i \in Run : result[i] # None =>
           /\ result'[i] = result[i]
           /\ status'[i] = status[i]
           /\ task'[i] = task[i]]_vars
  BY ResultStays
<1>. QED  BY <1>1, GradingInvariant, PTL DEF Spec, ResultIsFinal

\* A result is the one that the holder of the live lease posted.
THEOREM ResultsOfTheHolder == Spec => ResultOfHolder
<1>1. GradingInv /\ [Next]_vars =>
        [\A i \in Run : result'[i] # result[i] =>
           /\ LiveLease(i)
           /\ \E p \in posts : /\ p.run = i /\ p.result = result'[i]
                               /\ p.worker = owner[i] /\ p.token = token[i]]_vars
  <2>. SUFFICES ASSUME GradingInv, [Next]_vars, NEW i \in Run, result'[i] # result[i]
                PROVE  /\ LiveLease(i)
                       /\ \E p \in posts : /\ p.run = i /\ p.result = result'[i]
                                           /\ p.worker = owner[i] /\ p.token = token[i]
    OBVIOUS
  <2>1. PICK p \in posts : Owned(p) /\ LiveLease(p.run) /\ Store(p)
    BY OnlyAccept
  <2>2. p.run = i /\ p.result = result'[i]
    BY <2>1, StoreFacts
  <2>. QED  BY <2>1, <2>2 DEF Owned
<1>. QED  BY <1>1, GradingInvariant, PTL DEF Spec, ResultOfHolder

-----------------------------------------------------------------------------
(* The final submission.                                                   *)

\* A task that is done left a result; a row without a task was superseded on
\* arrival, and is the first of its submission.
Taskless ==
    /\ \A i \in Run : i <= runs => /\ task[i] = "done" => result[i] # None
                                   /\ task[i] = "absent" => status[i] = "superseded"
    /\ \A i, j \in Run : j <= runs /\ i < j /\ of[i] = of[j] => task[j] # "absent"

\* A submission with runs has a last one.
Latest ==
    \A s \in Sub : \A k \in Run : k <= runs /\ of[k] = s =>
        \E i \in Run : /\ i <= runs /\ of[i] = s
                       /\ \A j \in Run : j <= runs /\ of[j] = s => j <= i

\* Unless an operator stepped in, no task of a final submission is cancelled,
\* and sync queues nothing but final submissions.
Undisturbed ==
    /\ \A r \in Repo : ~manual[r] /\ final[r] # None =>
          \A i \in Run : i <= runs /\ of[i] = final[r] => task[i] # "cancelled"
    /\ \A s \in repair : ~manual[RepoOf[s]] => final[RepoOf[s]] = s

FinalInv == Taskless /\ Latest /\ Undisturbed

LEMMA FinalInitially == Init => FinalInv
<1>. SUFFICES ASSUME Init PROVE FinalInv
  OBVIOUS
<1>1. \A i \in Run : ~(i <= runs)
  BY GradingAssumption DEF Init, Run
<1>2. repair = {}
  BY DEF Init
<1>. QED  BY <1>1, <1>2 DEF FinalInv, Taskless, Latest, Undisturbed

\* Steps that insert no row, choose no final submission and cancel no task.
LEMMA FinalStays ==
  ASSUME GradingInv, FinalInv, UNCHANGED <<runs, of, manual, final>>,
         \A s \in repair' : ~manual[RepoOf[s]] => final[RepoOf[s]] = s,
         \A i \in Run : i <= runs =>
            /\ task'[i] = task[i] \/ task'[i] \notin {"absent", "cancelled"}
            /\ task'[i] = "done" => result'[i] # None
            /\ task'[i] = "absent" => status'[i] = "superseded"
  PROVE  FinalInv'
<1>1. Taskless'
  <2>1. \A i, j \in Run : j <= runs /\ i < j /\ of[i] = of[j] => task'[j] # "absent"
    BY DEF FinalInv, Taskless
  <2>. QED  BY <2>1 DEF Taskless
<1>2. Latest'
  BY DEF FinalInv, Latest
<1>3. Undisturbed'
  BY DEF FinalInv, Undisturbed
<1>. QED  BY <1>1, <1>2, <1>3 DEF FinalInv

\* Steps around the runs.
LEMMA AroundFinal ==
  ASSUME GradingInv, FinalInv, UNCHANGED <<runRows, task, final, manual>>,
         \A s \in repair' : ~manual[RepoOf[s]] => final[RepoOf[s]] = s
  PROVE  FinalInv'
  BY FinalStays DEF FinalInv, Taskless, runRows

\* A selection is an operator's: the repository does not count any more.
LEMMA SelectFinal == ASSUME GradingInv, FinalInv, NEW s \in Sub, Select(s) PROVE FinalInv'
<1>1. UNCHANGED <<repair, runs, of, status, result, task>> /\ RepoOf[s] \in Repo
  BY GradingAssumption DEF Select, runRows
<1>2. \A r \in Repo : ~manual'[r] => r # RepoOf[s] /\ ~manual[r] /\ final'[r] = final[r]
  BY <1>1 DEF Select, GradingInv, TypeOK
<1>3. Taskless' /\ Latest'
  BY <1>1 DEF FinalInv, Taskless, Latest
<1>4. \A t \in repair : RepoOf[t] \in Repo
  BY GradingAssumption DEF GradingInv, TypeOK
<1>5. Undisturbed'
  <2>1. \A t \in repair : ~manual'[RepoOf[t]] => final'[RepoOf[t]] = t
    BY <1>2, <1>4 DEF FinalInv, Undisturbed
  <2>2. \A r \in Repo : ~manual'[r] /\ final'[r] # None =>
          \A i \in Run : i <= runs /\ of[i] = final'[r] => task[i] # "cancelled"
    BY <1>2 DEF FinalInv, Undisturbed
  <2>. QED  BY <1>1, <2>1, <2>2 DEF Undisturbed
<1>. QED  BY <1>3, <1>5 DEF FinalInv

\* close takes up what was cancelled of the submission it chooses.
LEMMA CloseFinal == ASSUME GradingInv, FinalInv, NEW r \in Repo, Close(r) PROVE FinalInv'
<1>1. UNCHANGED <<manual, repair, runs, of, status, result>> /\ ~closed[r]
  BY DEF Close, runRows
<1>2. CASE UNCHANGED <<final, task, attempts>>
  <2>1. \A s \in repair' : ~manual[RepoOf[s]] => final[RepoOf[s]] = s
    BY <1>1 DEF FinalInv, Undisturbed
  <2>. QED  BY <1>1, <1>2, <2>1, FinalStays DEF FinalInv, Taskless
<1>3. CASE \E s \in subs :
             LET revived == {i \in RunsOf(s) : task[i] \in {"failed", "cancelled"}} IN
             /\ IsNewest(r, s)
             /\ final' = [final EXCEPT ![r] = s]
             /\ task' = [i \in Run |-> IF i \in revived THEN "pending" ELSE task[i]]
             /\ attempts' = [i \in Run |-> IF i \in revived THEN 0 ELSE attempts[i]]
  <2>. PICK s \in subs :
             LET revived == {i \in RunsOf(s) : task[i] \in {"failed", "cancelled"}} IN
             /\ IsNewest(r, s)
             /\ final' = [final EXCEPT ![r] = s]
             /\ task' = [i \in Run |-> IF i \in revived THEN "pending" ELSE task[i]]
             /\ attempts' = [i \in Run |-> IF i \in revived THEN 0 ELSE attempts[i]]
    BY <1>3
  <2>1. /\ \A q \in Repo : q # r => final'[q] = final[q]
        /\ final'[r] = s
    BY DEF GradingInv, TypeOK
  <2>2. \A i \in Run : /\ task'[i] \in {task[i], "pending"}
                       /\ i <= runs /\ of[i] = s => task'[i] # "cancelled"
    <3>1. \A i \in Run : i <= runs /\ of[i] = s <=> i \in RunsOf(s)
      BY RowsAreRuns DEF GradingInv, RunsOf
    <3>. QED  BY <3>1
  <2>3. Taskless'
    <3>1. \A i \in Run : i <= runs => /\ task'[i] = "done" => result[i] # None
                                      /\ task'[i] = "absent" => status[i] = "superseded"
      BY <2>2 DEF FinalInv, Taskless
    <3>2. \A i, j \in Run : j <= runs /\ i < j /\ of[i] = of[j] => task'[j] # "absent"
      BY <2>2 DEF FinalInv, Taskless
    <3>. QED  BY <1>1, <3>1, <3>2 DEF Taskless
  <2>4. Latest'
    BY <1>1 DEF FinalInv, Latest
  <2>5. \A q \in Repo : ~manual[q] /\ final'[q] # None =>
          \A i \in Run : i <= runs /\ of[i] = final'[q] => task'[i] # "cancelled"
    BY <2>1, <2>2 DEF FinalInv, Undisturbed
  <2>6. final[r] = None
    BY <1>1 DEF GradingInv, Chosen
  <2>7. \A t \in repair : t # None /\ RepoOf[t] \in Repo
    BY GradingAssumption DEF GradingInv, TypeOK
  <2>8. \A t \in repair : ~manual[RepoOf[t]] => final'[RepoOf[t]] = t
    BY <2>1, <2>6, <2>7 DEF FinalInv, Undisturbed
  <2>9. Undisturbed'
    BY <1>1, <2>5, <2>8 DEF Undisturbed
  <2>. QED  BY <2>3, <2>4, <2>9 DEF FinalInv
<1>. QED  BY <1>2, <1>3, Zenon DEF Close

\* A row is inserted: with a task, unless it is the first of its submission;
\* tasks that give way are not those of a final submission.
LEMMA InsertFinal ==
  ASSUME GradingInv, FinalInv, NEW s \in Sub, NEW b, NEW v, InsertRun(s, b, v), UNCHANGED final,
         \A t \in repair' : ~manual'[RepoOf[t]] => final[RepoOf[t]] = t,
         \A r \in Repo : ~manual'[r] => ~manual[r],
         \A i \in Run : i # runs + 1 /\ i <= runs =>
            \/ task'[i] = task[i] /\ (status'[i] = status[i] \/ task[i] = "cancelled")
            \/ /\ task'[i] = "cancelled"
               /\ ~manual'[RepoOf[of[i]]] => final[RepoOf[of[i]]] # of[i],
         \/ task'[runs + 1] = "pending"
         \/ /\ task'[runs + 1] = "absent" /\ status'[runs + 1] = "superseded"
            /\ \A i \in Run : i <= runs => of[i] # s
  PROVE  FinalInv'
<1>. DEFINE n == runs + 1
<1>1. /\ n \in Run /\ runs' = n /\ result' = result /\ runs \in Nat
      /\ \A i \in Run : i <= n <=> i = n \/ i <= runs
      /\ \A i \in Run : i <= runs => i # n
  BY GradingAssumption DEF InsertRun, GradingInv, TypeOK, Run
<1>2. /\ of'[n] = s
      /\ \A i \in Run : i # n => of'[i] = of[i]
  BY <1>1 DEF InsertRun, GradingInv, TypeOK
<1>. HIDE DEF n
<1>3. Taskless'
  <2>1. ASSUME NEW i \in Run, i <= n
        PROVE  /\ task'[i] = "done" => result[i] # None
               /\ task'[i] = "absent" => status'[i] = "superseded"
    <3>1. CASE i = n
      BY <3>1 DEF n
    <3>2. CASE i # n
      BY <2>1, <3>2, <1>1 DEF FinalInv, Taskless, n
    <3>. QED  BY <3>1, <3>2
  <2>2. ASSUME NEW i \in Run, NEW j \in Run, j <= n, i < j, of'[i] = of'[j]
        PROVE  task'[j] # "absent"
    <3>1. i # n /\ i <= runs
      BY <2>2, <1>1 DEF Run, n
    <3>2. CASE j = n
      BY <2>2, <3>1, <3>2, <1>2 DEF n
    <3>3. CASE j # n
      <4>1. j <= runs /\ task[j] # "absent"
        BY <2>2, <3>1, <3>3, <1>1, <1>2 DEF FinalInv, Taskless
      <4>. QED  BY <3>3, <4>1 DEF n
    <3>. QED  BY <3>2, <3>3
  <2>. QED  BY <1>1, <2>1, <2>2 DEF Taskless
<1>4. Latest'
  <2>. SUFFICES ASSUME NEW t \in Sub, NEW k \in Run, k <= n, of'[k] = t
                PROVE  \E i \in Run : /\ i <= n /\ of'[i] = t
                                      /\ \A j \in Run : j <= n /\ of'[j] = t => j <= i
    BY <1>1 DEF Latest
  <2>1. CASE t = s
    BY <2>1, <1>1, <1>2 DEF n, Run
  <2>2. CASE t # s
    <3>1. k <= runs /\ of[k] = t
      BY <2>2, <1>1, <1>2
    <3>2. PICK i \in Run : /\ i <= runs /\ of[i] = t
                           /\ \A j \in Run : j <= runs /\ of[j] = t => j <= i
      BY <3>1 DEF FinalInv, Latest
    <3>. QED  BY <3>2, <2>2, <1>1, <1>2
  <2>. QED  BY <2>1, <2>2
<1>5. Undisturbed'
  <2>1. ASSUME NEW r \in Repo, ~manual'[r], final[r] # None,
               NEW i \in Run, i <= n, of'[i] = final[r]
        PROVE  task'[i] # "cancelled"
    <3>1. CASE i = n
      BY <3>1 DEF n
    <3>2. CASE i # n
      <4>1. i <= runs /\ of[i] = final[r] /\ RepoOf[of[i]] = r
        BY <2>1, <3>2, <1>1, <1>2 DEF GradingInv, Chosen
      <4>2. task[i] # "cancelled"
        BY <2>1, <4>1 DEF FinalInv, Undisturbed
      <4>. QED  BY <2>1, <3>2, <4>1, <4>2 DEF n
    <3>. QED  BY <3>1, <3>2
  <2>. QED  BY <1>1, <2>1 DEF Undisturbed
<1>. QED  BY <1>3, <1>4, <1>5 DEF FinalInv

\* The first public run of a submission is its first run.
LEMMA FirstPublic ==
  ASSUME GradingInv, NEW s \in Sub, \A i \in RunsOf(s) : ~IsPublic(i)
  PROVE  \A i \in Run : i <= runs => of[i] # s
<1>. SUFFICES ASSUME NEW i \in Run, i <= runs, of[i] = s PROVE FALSE
  OBVIOUS
<1>1. \A k \in Run : k <= runs /\ of[k] = s => base[k] # None
  BY RowsAreRuns DEF GradingInv, RunsOf, IsPublic
<1>2. base[i] \in Run /\ base[i] < i /\ base[base[i]] = None /\ of[base[i]] = s
  BY <1>1 DEF GradingInv, Pinned
<1>3. base[i] <= runs
  BY <1>2, GradingAssumption DEF GradingInv, TypeOK, Run
<1>. QED  BY <1>1, <1>2, <1>3

\* enqueue_run: what it cancels is not final, or an operator asked for it.
LEMMA EnqueueFinal ==
  ASSUME GradingInv, FinalInv, NEW s \in Sub, NEW regrade \in BOOLEAN, EnqueueRun(s, regrade),
         \A t \in repair' : ~manual'[RepoOf[t]] => final[RepoOf[t]] = t,
         \A r \in Repo : ~manual'[r] => ~manual[r],
         regrade /\ ~manual'[RepoOf[s]] => final[RepoOf[s]] = s
  PROVE  FinalInv'
<1>. DEFINE n == runs + 1
<1>1. /\ n \in Run /\ InsertRun(s, None, revision[RepoOf[s]]) /\ final' = final
      /\ \A i \in Run : i <= runs => i # n
  BY GradingAssumption DEF EnqueueRun, InsertRun, GradingInv, TypeOK, Run
<1>2. CASE /\ Superseded(s, regrade)
           /\ status' = [status EXCEPT ![n] = "superseded"] /\ task' = task
  <2>1. n > runs
    BY GradingAssumption DEF GradingInv, TypeOK
  <2>2. task'[n] = "absent" /\ status'[n] = "superseded"
    BY <1>1, <1>2, <2>1 DEF GradingInv, Fresh, TypeOK
  <2>3. \A i \in Run : i <= runs => of[i] # s
    BY <1>2, FirstPublic DEF EnqueueRun, Superseded
  <2>4. \A i \in Run : i # n => task'[i] = task[i] /\ status'[i] = status[i]
    BY <1>2 DEF GradingInv, TypeOK
  <2>. QED  BY <1>1, <2>2, <2>3, <2>4, InsertFinal
<1>3. CASE /\ ~Superseded(s, regrade)
           /\ task' = [i \in Run |-> IF i = n THEN "pending"
                                     ELSE IF i \in Replaced(s) THEN "cancelled" ELSE task[i]]
           /\ status' = [i \in Run |->
                IF i = n THEN "pending"
                ELSE IF status[i] = "pending" /\ task'[i] = "cancelled" THEN "superseded"
                ELSE status[i]]
  <2>1. task'[n] = "pending"
    BY <1>1, <1>3
  <2>2. ASSUME NEW i \in Replaced(s), ~manual'[RepoOf[of[i]]] PROVE final[RepoOf[of[i]]] # of[i]
    <3>1. RepoOf[of[i]] = RepoOf[s] /\ of[i] # s /\ i \in Run /\ i <= runs
      BY <2>2, RowsAreRuns DEF Replaced, RepoOfRun, GradingInv
    <3>2. of[i] \in Sub /\ RepoOf[s] \in Repo
      BY <3>1, GradingAssumption DEF GradingInv, Fresh
    <3>3. CASE regrade
      BY <2>2, <3>1, <3>3
    <3>4. CASE ~regrade
      <4>1. IsFinal(s) \/ ~closed[RepoOf[s]]
        BY <1>3, <3>4 DEF Superseded
      <4>2. final[RepoOf[s]] = s \/ final[RepoOf[s]] = None
        BY <4>1, <3>2 DEF IsFinal, GradingInv, Chosen
      <4>. QED  BY <3>1, <3>2, <4>2, GradingAssumption
    <3>. QED  BY <3>3, <3>4
  <2>3. ASSUME NEW i \in Run, i # n, i <= runs
        PROVE  \/ task'[i] = task[i] /\ (status'[i] = status[i] \/ task[i] = "cancelled")
               \/ /\ task'[i] = "cancelled"
                  /\ ~manual'[RepoOf[of[i]]] => final[RepoOf[of[i]]] # of[i]
    <3>1. CASE i \in Replaced(s)
      BY <1>3, <2>2, <2>3, <3>1
    <3>2. CASE i \notin Replaced(s)
      BY <1>3, <2>3, <3>2
    <3>. QED  BY <3>1, <3>2
  <2>. QED  BY <1>1, <2>1, <2>3, InsertFinal
<1>. QED  BY <1>2, <1>3, Zenon DEF EnqueueRun

\* A private run has a task.
LEMMA PrivateFinal ==
  ASSUME GradingInv, FinalInv, NEW s \in Sub, NEW b, NEW v, InsertRun(s, b, v),
         status' = [status EXCEPT ![runs + 1] = "pending"],
         task' = [task EXCEPT ![runs + 1] = "pending"],
         UNCHANGED repository
  PROVE  FinalInv'
<1>1. runs + 1 \in Run
  BY GradingAssumption DEF InsertRun, GradingInv, TypeOK, Run
<1>2. task'[runs + 1] = "pending"
  BY <1>1 DEF GradingInv, TypeOK
<1>3. \A i \in Run : i # runs + 1 => task'[i] = task[i] /\ status'[i] = status[i]
  BY DEF GradingInv, TypeOK
<1>4. \A t \in repair' : ~manual'[RepoOf[t]] => final[RepoOf[t]] = t
  BY DEF FinalInv, Undisturbed, repository
<1>. QED  BY <1>2, <1>3, <1>4, InsertFinal DEF repository

\* Leases, their ends and results.
LEMMA LeasesFinal ==
  ASSUME GradingInv, FinalInv, UNCHANGED repository,
         \/ FailRuns
         \/ \E i \in Run : Exhaust(i)
         \/ \E w \in Worker, i \in Run : Lease(w, i)
         \/ \E p \in posts : Commit(p)
  PROVE  FinalInv'
<1>1. UNCHANGED <<runs, of, manual, final, repair>>
  BY DEF FailRuns, Exhaust, Lease, Commit, repository, runRows
<1>2. \A s \in repair' : ~manual[RepoOf[s]] => final[RepoOf[s]] = s
  BY <1>1 DEF FinalInv, Undisturbed
<1>3. CASE FailRuns
  <2>1. \A i \in Run : status'[i] = status[i] \/ task[i] = "failed"
    BY <1>3 DEF FailRuns
  <2>2. task' = task /\ result' = result
    BY <1>3 DEF FailRuns
  <2>. QED  BY <1>1, <1>2, <2>1, <2>2, FinalStays DEF FinalInv, Taskless
<1>4. ASSUME NEW i \in Run, Exhaust(i) PROVE FinalInv'
  <2>1. /\ task'[i] = "failed" /\ \A j \in Run : j # i => task'[j] = task[j]
        /\ status' = status /\ result' = result
    BY <1>4 DEF Exhaust, runRows, GradingInv, TypeOK
  <2>. QED  BY <1>1, <1>2, <2>1, FinalStays DEF FinalInv, Taskless
<1>5. ASSUME NEW w \in Worker, NEW i \in Run, Lease(w, i) PROVE FinalInv'
  <2>1. /\ task'[i] = "leased" /\ result' = result
        /\ \A j \in Run : j # i => task'[j] = task[j] /\ status'[j] = status[j]
    BY <1>5 DEF Lease, GradingInv, TypeOK
  <2>. QED  BY <1>1, <1>2, <2>1, FinalStays DEF FinalInv, Taskless
<1>6. ASSUME NEW p \in posts, Commit(p) PROVE FinalInv'
  <2>1. CASE UNCHANGED <<status, result, task>>
    BY <1>1, <1>2, <2>1, FinalStays DEF FinalInv, Taskless
  <2>2. CASE Store(p)
    <3>1. /\ p.run \in Run /\ task'[p.run] = "done" /\ result'[p.run] \in Outcome
          /\ \A j \in Run : j # p.run => /\ status'[j] = status[j] /\ result'[j] = result[j]
                                         /\ task'[j] = task[j]
      BY <2>2, StoreFacts
    <3>2. None \notin Outcome
      BY GradingAssumption DEF RunStatus
    <3>. QED  BY <1>1, <1>2, <3>1, <3>2, FinalStays DEF FinalInv, Taskless
  <2>. QED  BY <1>6, <2>1, <2>2 DEF Commit
<1>. QED  BY <1>3, <1>4, <1>5, <1>6

LEMMA FinalStep == GradingInv /\ FinalInv /\ [Next]_vars => FinalInv'
<1>. SUFFICES ASSUME GradingInv, FinalInv, [Next]_vars PROVE FinalInv'
  OBVIOUS
<1>0. \A t \in repair : ~manual[RepoOf[t]] => final[RepoOf[t]] = t
  BY DEF FinalInv, Undisturbed
<1>1. ASSUME NEW s \in Sub, Arrive(s) \/ Retain(s) PROVE FinalInv'
  BY <1>0, <1>1, AroundFinal DEF Arrive, Retain
<1>2. ASSUME NEW s \in Sub, Select(s) PROVE FinalInv'
  BY <1>2, SelectFinal
<1>3. ASSUME NEW s \in Sub, GradeSubmission(s) PROVE FinalInv'
  <2>1. EnqueueRun(s, FALSE) /\ UNCHANGED <<manual, repair>>
    BY <1>3 DEF GradeSubmission
  <2>. QED  BY <1>0, <2>1, EnqueueFinal
<1>4. ASSUME NEW s \in Sub, Regrade(s) PROVE FinalInv'
  <2>1. EnqueueRun(s, TRUE) /\ UNCHANGED repair /\ RepoOf[s] \in Repo
    BY <1>4, GradingAssumption DEF Regrade
  <2>2. manual'[RepoOf[s]] /\ \A r \in Repo : ~manual'[r] => ~manual[r]
    BY <1>4, <2>1 DEF Regrade, GradingInv, TypeOK
  <2>3. \A t \in repair : RepoOf[t] \in Repo
    BY GradingAssumption DEF GradingInv, TypeOK
  <2>4. \A t \in repair' : ~manual'[RepoOf[t]] => final[RepoOf[t]] = t
    BY <1>0, <2>1, <2>2, <2>3
  <2>. QED  BY <2>1, <2>2, <2>4, EnqueueFinal
<1>5. ASSUME NEW s \in Sub, RegradeFinal(s) PROVE FinalInv'
  <2>1. EnqueueRun(s, TRUE) /\ UNCHANGED manual /\ s \in repair /\ repair' \subseteq repair
    BY <1>5 DEF RegradeFinal
  <2>. QED  BY <1>0, <2>1, EnqueueFinal
<1>6. ASSUME NEW r \in Repo, PassDeadline(r) \/ Extend(r) PROVE FinalInv'
  BY <1>0, <1>6, AroundFinal DEF PassDeadline, Extend
<1>7. ASSUME NEW r \in Repo, Close(r) PROVE FinalInv'
  BY <1>7, CloseFinal
<1>8. ASSUME NEW r \in Repo, EnqueuePrivate(r) PROVE FinalInv'
  <2>1. final[r] \in Sub
    BY <1>8 DEF EnqueuePrivate, GradingInv, TypeOK
  <2>. QED  BY <1>8, <2>1, PrivateFinal DEF EnqueuePrivate
<1>9. ASSUME NEW i \in Run, RetryPrivate(i) PROVE FinalInv'
  <2>1. of[i] \in Sub
    BY <1>9, RowsAreRuns DEF RetryPrivate, GradingInv, Fresh
  <2>. QED  BY <1>9, <2>1, PrivateFinal DEF RetryPrivate
<1>10. CASE ReadFinals
  <2>1. \A t \in repair' : final[RepoOf[t]] = t
    BY <1>10 DEF ReadFinals
  <2>. QED  BY <1>10, <2>1, AroundFinal DEF ReadFinals
<1>11. CASE \/ FailRuns
            \/ \E i \in Run : Exhaust(i)
            \/ \E w \in Worker, i \in Run : Lease(w, i)
            \/ \E p \in posts : Commit(p)
  <2>1. UNCHANGED repository
    BY <1>11 DEF FailRuns, Exhaust, Lease, Commit
  <2>. QED  BY <1>11, <2>1, LeasesFinal
<1>12. CASE \/ UNCHANGED vars
            \/ \E i \in Run : Expire(i)
            \/ \E w \in Worker : Leave(w) \/ \E res \in Outcome : PostResult(w, res)
            \/ \E p \in posts : Check(p)
  <2>1. UNCHANGED <<repository, runRows, task>>
    BY <1>12 DEF vars, Expire, Leave, PostResult, Check
  <2>. QED  BY <1>0, <2>1, AroundFinal DEF repository
<1>13. ASSUME NEW r \in Repo, NEW v \in Revision, UpdateGrader(r, v) PROVE FinalInv'
  BY <1>0, <1>13, AroundFinal DEF UpdateGrader
<1>. QED
  BY <1>1, <1>2, <1>3, <1>4, <1>5, <1>6, <1>7, <1>8, <1>9, <1>10, <1>11, <1>12, <1>13, Zenon
  DEF Next

\* The final submission of a repository no operator touched is graded, or sync,
\* a worker or the store will see to it; nothing strands it.
THEOREM FinalsAreGraded == Spec => []FinalIsGraded
<1>1. GradingInv /\ FinalInv => FinalIsGraded
  <2>. SUFFICES ASSUME GradingInv, FinalInv, NEW r \in Repo, final[r] # None, ~manual[r],
                       final[r] \in source, RunsOf(final[r]) # {}
                PROVE  \/ Unwanted(final[r])
                       \/ \E i \in RunsOf(final[r]) :
                            \/ task[i] \in {"pending", "leased"}
                            \/ /\ IsLast(RunsOf(final[r]), i)
                               /\ result[i] # None \/ task[i] = "failed"
    BY DEF FinalIsGraded, FinalIsSeenTo
  <2>. DEFINE f == final[r]
  <2>1. f \in Sub
    BY DEF GradingInv, TypeOK
  <2>2. \A i : i \in RunsOf(f) <=> i \in Run /\ i <= runs /\ of[i] = f
    BY RowsAreRuns DEF GradingInv, RunsOf
  <2>3. PICK i \in Run : /\ i <= runs /\ of[i] = f
                         /\ \A j \in Run : j <= runs /\ of[j] = f => j <= i
    BY <2>1, <2>2 DEF FinalInv, Latest
  <2>4. i \in RunsOf(f) /\ IsLast(RunsOf(f), i)
    BY <2>2, <2>3 DEF IsLast
  <2>5. task[i] \in TaskStatus /\ task[i] # "cancelled"
    BY <2>3 DEF GradingInv, TypeOK, FinalInv, Undisturbed
  <2>6. CASE task[i] = "absent"
    <3>1. \A j \in RunsOf(f) : j = i
      BY <2>2, <2>3, <2>6 DEF FinalInv, Taskless, Run
    <3>2. status[i] = "superseded"
      BY <2>3, <2>6 DEF FinalInv, Taskless
    <3>. QED  BY <3>1, <3>2 DEF Unwanted
  <2>7. CASE task[i] = "done"
    <3>1. result[i] # None
      BY <2>3, <2>7 DEF FinalInv, Taskless
    <3>. QED  BY <3>1, <2>4
  <2>. QED  BY <2>4, <2>5, <2>6, <2>7 DEF TaskStatus
<1>2. Init => GradingInv /\ FinalInv
  BY GradingInitially, FinalInitially
<1>3. GradingInv /\ FinalInv /\ [Next]_vars => (GradingInv /\ FinalInv)'
  BY GradingStep, FinalStep
<1>. QED  BY <1>1, <1>2, <1>3, PTL DEF Spec
=============================================================================
