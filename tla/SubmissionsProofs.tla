------------------------- MODULE SubmissionsProofs -------------------------
(***************************************************************************)
(* Receipts, deadlines and the final selection for any repositories,       *)
(* commits and bounds: what closure freezes, what a receipt is worth, and  *)
(* what becomes of the fetch of a submission.                              *)
(***************************************************************************)
EXTENDS Submissions, FiniteSetTheorems, TLAPS

\* Nothing is final and nothing selected before closure.
Selection ==
    /\ \A r \in Repo : ~closed[r] => final[r] = None /\ ~selected[r]
    /\ FinalIsNewest

\* Receipts lie in the past.  One that is inside the deadline its record has
\* read is inside the deadline in force: that may have moved back since, but
\* only to a time that was still to come.
Windows ==
    /\ \A m \in inflight :
         /\ m.at <= now
         /\ m.seen # None /\ m.at <= m.seen => m.at <= deadline[m.repo]
    /\ \A r \in Repo, n \in Stamp : events[r][n] # None => n <= now
    /\ EligibleStaysInWindow

\* Only a submission has a snapshot task and someone who processes it.
Fetches ==
    /\ DoneIsCaptured
    /\ FinalWillBeCaptured
    /\ \A r \in Repo, n \in Stamp :
         /\ fetch[r][n] # {} => task[r][n] # "absent"
         /\ task[r][n] # "absent" => n \in subs[r]

\* A stamp belongs to one receipt of its repository, which is under way or
\* recorded; a submission has an event row.
Stamps ==
    /\ \A m \in inflight : events[m.repo][m.at] = None
    /\ \A m, k \in inflight : m.repo = k.repo /\ m.at = k.at => m = k
    /\ \A r \in Repo : \A n \in subs[r] : events[r][n] # None

\* The newest submission of r has the commit of receipt n.
NewestHasCommitOf(r, n) ==
    \E s \in subs[r] : IsNewest(subs[r], s) /\ events[r][s].sha = events[r][n].sha

\* Receipts recorded in order leave the commit of the last one on top.
InOrder ==
    \A r \in Repo, n \in Stamp :
        ~late[r] /\ ~selected[r] /\ IsLastEligible(r, n) => NewestHasCommitOf(r, n)

\* One scheduling at a time has the advisory lock of an enrollment.  A record
\* among them has the row lock, so that its receipt stays eligible; what it is
\* about to cancel has been superseded, by a submission or by this receipt.
Locks ==
    /\ \A s, t \in sched : s.enrollment = t.enrollment => s = t
    /\ \A s \in sched : s.of # None =>
         /\ s.of \in inflight /\ s.of.seen # None /\ InWindow(s.of) /\ ~closed[s.of.repo]
         /\ s.enrollment = EnrollmentOf[s.of.repo]
    /\ \A s \in sched, q \in Repo, n \in Stamp : <<q, n>> \in s.cancel =>
         /\ n \in subs[q]
         /\ \/ \E k \in subs[q] : k > n
            \/ s.of # None /\ s.of.repo = q

SubInv == TypeOK /\ Selection /\ Windows /\ Fetches /\ Stamps /\ InOrder /\ Locks

\* At the start there is no receipt and no repository is closed.
LEMMA SubInitially == Init => SubInv
<1>. SUFFICES ASSUME Init PROVE SubInv
  OBVIOUS
<1>1. TypeOK
  BY SubmissionsAssumption DEF Init, TypeOK, Stamp, Status
<1>2. Selection /\ Windows
  BY SubmissionsAssumption
  DEF Init, Selection, Windows, FinalIsNewest, EligibleStaysInWindow
<1>3. Fetches /\ Stamps
  BY SubmissionsAssumption DEF Init, Fetches, Stamps, DoneIsCaptured, FinalWillBeCaptured
<1>4. InOrder
  BY SubmissionsAssumption DEF Init, InOrder, IsLastEligible
<1>5. Locks
  BY DEF Init, Locks
<1>. QED  BY <1>1, <1>2, <1>3, <1>4, <1>5 DEF SubInv

-----------------------------------------------------------------------------
(* Snapshot tasks.                                                         *)

\* Nothing that a scheduling is about to cancel is what closure has frozen.
LEMMA CancelSparesFinal ==
  ASSUME SubInv, NEW s \in sched, NEW q \in Repo, NEW n \in Stamp, <<q, n>> \in s.cancel,
         closed[q], ~selected[q]
  PROVE  n # final[q]
<1>. SUFFICES ASSUME n = final[q] PROVE FALSE
  OBVIOUS
<1>1. n \in subs[q] /\ ((\E k \in subs[q] : k > n) \/ (s.of # None /\ s.of.repo = q))
  BY DEF SubInv, Locks
<1>2. ~(s.of # None /\ s.of.repo = q)
  BY DEF SubInv, Locks
<1>3. PICK k \in subs[q] : k > n
  BY <1>1, <1>2
<1>4. IsNewest(subs[q], n)
  BY <1>1 DEF SubInv, Selection, FinalIsNewest
<1>5. k <= n /\ k \in Int /\ n \in Int
  BY <1>4 DEF IsNewest, SubInv, TypeOK, Stamp
<1>. QED  BY <1>3, <1>5

\* The last step of schedule_snapshots cancels what its first one found, and
\* adds tasks for submissions that have none.
LEMMA FillChanges ==
  ASSUME TypeOK, NEW s \in sched, NEW S \in [Repo -> SUBSET Stamp], FillPlaces(s, S)
  PROVE  /\ task' \in [Repo -> [Stamp -> Status]]
         /\ \A q \in Repo, n \in Stamp :
              \/ task'[q][n] = task[q][n]
              \/ task'[q][n] = "cancelled" /\ <<q, n>> \in s.cancel
              \/ /\ task'[q][n] = "pending" /\ task[q][n] = "absent" /\ n \in S[q]
                 /\ EnrollmentOf[q] = s.enrollment
         /\ sched' = sched \ {s}
         /\ restored' \subseteq restored
<1>. DEFINE wanted == {p \in Rows(s.enrollment, S) : Wanted(S[p[1]], p[1], p[2])}
<1>1. PICK new \in SUBSET wanted :
        task' = [q \in Repo |-> [n \in Stamp |->
                   IF <<q, n>> \in s.cancel THEN "cancelled"
                   ELSE IF <<q, n>> \in new THEN "pending"
                   ELSE task[q][n]]]
  BY DEF FillPlaces
<1>2. \A q \in Repo, n \in Stamp : <<q, n>> \in new =>
         task[q][n] = "absent" /\ n \in S[q] /\ EnrollmentOf[q] = s.enrollment
  BY <1>1 DEF Wanted, Rows
<1>. HIDE DEF wanted
<1>3. task' \in [Repo -> [Stamp -> Status]]
  BY <1>1 DEF TypeOK, Status
<1>4. sched' = sched \ {s} /\ restored' \subseteq restored
  BY DEF FillPlaces, RestoredElsewhere
<1>. QED  BY <1>1, <1>2, <1>3, <1>4

\* What a step of the fetches leaves alone.
Elsewhere == <<now, deadline, closed, final, events, subs, receipts, deciding, selected, late>>

\* A fetch is done with its source, cancelled unless it is final, and there is
\* none without a submission.
LEMMA FetchesChange ==
  ASSUME SubInv, UNCHANGED Elsewhere, TypeOK', sched' \subseteq sched,
         \A r \in Repo : captured[r] \subseteq captured'[r],
         \A r \in Repo, n \in Stamp :
            /\ task'[r][n] = "done" => task[r][n] = "done" \/ n \in captured[r]
            /\ task'[r][n] = "cancelled" =>
                 task[r][n] = "cancelled" \/ n # final[r] \/ ~closed[r] \/ selected[r]
            /\ fetch'[r][n] # {} => task'[r][n] # "absent"
            /\ task'[r][n] # "absent" => n \in subs[r]
  PROVE  SubInv'
<1>1. Selection' /\ Windows' /\ Stamps'
  BY DEF SubInv, Elsewhere, receipts, Selection, FinalIsNewest, IsNewest, Windows,
         EligibleStaysInWindow, Stamps
<1>2. InOrder'
  BY DEF SubInv, Elsewhere, InOrder, IsLastEligible, NewestHasCommitOf, IsNewest
<1>3. DoneIsCaptured'
  BY DEF SubInv, Fetches, DoneIsCaptured, TypeOK
<1>4. FinalWillBeCaptured'
  <2>. SUFFICES ASSUME NEW r \in Repo, closed[r], ~selected[r], final[r] # None
                PROVE  \/ final[r] \in captured'[r]
                       \/ task'[r][final[r]] \in {"absent", "pending", "leased", "failed"}
    BY DEF Elsewhere, FinalWillBeCaptured
  <2>1. final[r] \in Stamp /\ task'[r][final[r]] \in Status
    BY DEF SubInv, TypeOK, Elsewhere
  <2>2. \/ final[r] \in captured[r]
        \/ task[r][final[r]] \in {"absent", "pending", "leased", "failed"}
    BY DEF SubInv, Fetches, FinalWillBeCaptured
  <2>3. task'[r][final[r]] = "cancelled" => final[r] \in captured'[r]
    BY <2>1, <2>2
  <2>4. task'[r][final[r]] = "done" => final[r] \in captured'[r]
    BY <1>3, <2>1 DEF DoneIsCaptured
  <2>. QED  BY <2>1, <2>3, <2>4 DEF Status
<1>5. Fetches'
  BY <1>3, <1>4 DEF Fetches, Elsewhere
<1>6. Locks'
  BY DEF SubInv, Elsewhere, receipts, Locks, InWindow
<1>. QED  BY <1>1, <1>2, <1>5, <1>6 DEF SubInv

\* A refill that ends: what it cancels is not final, what it adds was wanted.
LEMMA FinishRefillInv == ASSUME SubInv, NEW s \in sched, FinishRefill(s) PROVE SubInv'
<1>1. /\ task' \in [Repo -> [Stamp -> Status]]
      /\ \A q \in Repo, n \in Stamp :
              \/ task'[q][n] = task[q][n]
              \/ task'[q][n] = "cancelled" /\ <<q, n>> \in s.cancel
              \/ task'[q][n] = "pending" /\ task[q][n] = "absent" /\ n \in subs[q]
      /\ sched' = sched \ {s}
      /\ restored' \subseteq restored
  BY FillChanges DEF FinishRefill, SubInv, TypeOK
<1>2. UNCHANGED <<Elsewhere, captured, fetch, review>>
  BY DEF FinishRefill, Elsewhere, repository
<1>3. TypeOK'
  BY <1>1, <1>2 DEF SubInv, TypeOK, Elsewhere, receipts, deciding
<1>4. \A q \in Repo, n \in Stamp : <<q, n>> \in s.cancel => n \in subs[q]
  BY DEF SubInv, Locks
<1>5. \A q \in Repo, n \in Stamp :
         /\ task'[q][n] = "done" => task[q][n] = "done"
         /\ fetch'[q][n] # {} => task'[q][n] # "absent"
         /\ task'[q][n] # "absent" => n \in subs[q]
  <2>. TAKE q \in Repo, n \in Stamp
  <2>1. fetch' = fetch
    BY <1>2
  <2>2. /\ fetch[q][n] # {} => task[q][n] # "absent"
        /\ task[q][n] # "absent" => n \in subs[q]
    BY DEF SubInv, Fetches
  <2>. QED  BY <1>1, <1>4, <2>1, <2>2
<1>6. \A q \in Repo, n \in Stamp :
         task'[q][n] = "cancelled" =>
            task[q][n] = "cancelled" \/ n # final[q] \/ ~closed[q] \/ selected[q]
  <2>. TAKE q \in Repo, n \in Stamp
  <2>1. task'[q][n] = "cancelled" => task[q][n] = "cancelled" \/ <<q, n>> \in s.cancel
    BY <1>1
  <2>2. <<q, n>> \in s.cancel => n # final[q] \/ ~closed[q] \/ selected[q]
    BY CancelSparesFinal
  <2>. QED  BY <2>1, <2>2
<1>. QED  BY <1>1, <1>2, <1>3, <1>5, <1>6, FetchesChange

\* What the first steps of a scheduling leave alone.
Unscheduled == <<now, repository, events, subs, captured, fetches, receipts, deciding, selected,
                 late>>

\* A scheduling comes, counts, or is rolled back.
LEMMA SchedulesChange ==
  ASSUME SubInv, UNCHANGED Unscheduled, sched' \subseteq Scheduling,
         restored' \subseteq Repo \X Stamp, Locks'
  PROVE  SubInv'
<1>1. TypeOK'
  BY DEF SubInv, TypeOK, Unscheduled, repository, fetches, receipts, deciding
<1>2. Selection' /\ Fetches'
  BY DEF SubInv, Unscheduled, repository, fetches, Selection, FinalIsNewest, IsNewest, Fetches,
         DoneIsCaptured, FinalWillBeCaptured
<1>3. Windows' /\ Stamps'
  BY DEF SubInv, Unscheduled, repository, receipts, Windows, EligibleStaysInWindow, Stamps
<1>4. InOrder'
  BY DEF SubInv, Unscheduled, InOrder, IsLastEligible, NewestHasCommitOf, IsNewest
<1>. QED  BY <1>1, <1>2, <1>3, <1>4 DEF SubInv

\* schedule_snapshots with its lock: what is obsolete has been superseded.
LEMMA StartScheduleLocks ==
  ASSUME SubInv, NEW e \in Enrollment, NEW S \in [Repo -> SUBSET Stamp], NEW of,
         StartSchedule(e, S, of), UNCHANGED Unscheduled,
         of = None \/ (/\ of \in inflight /\ of.seen # None /\ InWindow(of)
                       /\ ~closed[of.repo] /\ e = EnrollmentOf[of.repo]),
         \A q \in Repo : \A k \in S[q] : k \in subs[q] \/ (of # None /\ of.repo = q /\ k = of.at),
         of # None => events[of.repo][of.at] = None
  PROVE  sched' \subseteq Scheduling /\ Locks'
<1>. DEFINE cancel == {p \in Rows(e, S) : Obsolete(S[p[1]], p[1], p[2])}
            new == [enrollment |-> e, of |-> of, active |-> None, cancel |-> cancel]
<1>1. sched' = sched \cup {new} /\ \A s \in sched : s.enrollment # e
  BY DEF StartSchedule
<1>2. TypeOK /\ of \in Receipt \cup {None} /\ cancel \in SUBSET (Repo \X Stamp)
  BY DEF SubInv, TypeOK, Rows
<1>3. ASSUME NEW q \in Repo, NEW n \in Stamp, <<q, n>> \in cancel
      PROVE  /\ n \in subs[q]
             /\ (\E k \in subs[q] : k > n) \/ (of # None /\ of.repo = q)
  <2>1. n \in S[q] /\ ~IsNewest(S[q], n) /\ task[q][n] = "pending"
    BY <1>3 DEF Rows, Obsolete
  <2>2. n \in subs[q]
    BY <2>1 DEF SubInv, Fetches
  <2>3. PICK k \in S[q] : ~(k <= n)
    BY <2>1 DEF IsNewest
  <2>4. k \in Int /\ n \in Int
    BY DEF Stamp
  <2>. QED  BY <2>2, <2>3, <2>4
<1>. HIDE DEF cancel
<1>4. new \in Scheduling
  BY <1>2 DEF Scheduling
<1>5. /\ new.enrollment = e /\ new.of = of /\ new.cancel = cancel
  OBVIOUS
<1>. HIDE DEF new
<1>6. sched' \subseteq Scheduling
  BY <1>1, <1>2, <1>4 DEF TypeOK
<1>7. UNCHANGED <<closed, subs, inflight>>
  BY DEF Unscheduled, repository, receipts
<1>8. \A s, t \in sched' : s.enrollment = t.enrollment => s = t
  BY <1>1, <1>5 DEF SubInv, Locks
<1>9. \A s \in sched' : s.of # None =>
         /\ s.of \in inflight /\ s.of.seen # None /\ InWindow(s.of) /\ ~closed[s.of.repo]
         /\ s.enrollment = EnrollmentOf[s.of.repo]
  BY <1>1, <1>5 DEF SubInv, Locks
<1>10. \A s \in sched', q \in Repo, n \in Stamp : <<q, n>> \in s.cancel =>
         /\ n \in subs[q]
         /\ (\E k \in subs[q] : k > n) \/ (s.of # None /\ s.of.repo = q)
  BY <1>1, <1>3, <1>5 DEF SubInv, Locks
<1>. QED  BY <1>6, <1>7, <1>8, <1>9, <1>10 DEF Locks, InWindow

LEMMA StartInv ==
  ASSUME SubInv,
         \/ \E e \in Enrollment : StartRefill(e)
         \/ \E m \in inflight : StartRecord(m)
  PROVE  SubInv'
<1>1. TypeOK
  BY DEF SubInv
<1>2. ASSUME NEW e \in Enrollment, StartRefill(e) PROVE SubInv'
  <2>1. StartSchedule(e, subs, None) /\ UNCHANGED <<Unscheduled, restored>>
    BY <1>2 DEF StartRefill, Unscheduled, history
  <2>2. subs \in [Repo -> SUBSET Stamp]
    BY <1>1 DEF TypeOK
  <2>3. sched' \subseteq Scheduling /\ Locks'
    BY <2>1, <2>2, StartScheduleLocks
  <2>. QED  BY <1>1, <2>1, <2>3, SchedulesChange DEF TypeOK
<1>3. ASSUME NEW m \in inflight, StartRecord(m) PROVE SubInv'
  <2>. DEFINE S == [subs EXCEPT ![m.repo] = subs[m.repo] \cup {m.at}]
              e == EnrollmentOf[m.repo]
  <2>1. /\ StartSchedule(e, S, m) /\ UNCHANGED <<Unscheduled, restored>>
        /\ m.seen # None /\ InWindow(m) /\ ~closed[m.repo]
    BY <1>3 DEF StartRecord, Eligible, Unscheduled, history
  <2>2. m.repo \in Repo /\ m.at \in Stamp /\ m # None /\ events[m.repo][m.at] = None
    BY <1>1, SubmissionsAssumption DEF SubInv, TypeOK, Receipt, Stamps
  <2>3. /\ S \in [Repo -> SUBSET Stamp] /\ e \in Enrollment
        /\ \A q \in Repo : \A k \in S[q] : k \in subs[q] \/ (m.repo = q /\ k = m.at)
    BY <1>1, <2>2 DEF TypeOK, Enrollment
  <2>. HIDE DEF S, e
  <2>4. e = EnrollmentOf[m.repo]
    BY DEF e
  <2>5. sched' \subseteq Scheduling /\ Locks'
    BY <2>1, <2>2, <2>3, <2>4, StartScheduleLocks
  <2>. QED  BY <1>1, <2>1, <2>5, SchedulesChange DEF TypeOK
<1>. QED  BY <1>2, <1>3

LEMMA CountInv ==
  ASSUME SubInv, NEW s \in sched, CountFetches(s) \/ DropRefill(s)
  PROVE  SubInv'
<1>1. TypeOK /\ s \in Scheduling
  BY DEF SubInv, TypeOK
<1>2. UNCHANGED Unscheduled /\ restored' \subseteq Repo \X Stamp
  BY <1>1 DEF CountFetches, DropRefill, Unscheduled, RestoredElsewhere, TypeOK
<1>3. UNCHANGED <<closed, subs, inflight>>
  BY <1>2 DEF Unscheduled, repository, receipts
<1>4. CASE CountFetches(s)
  <2>. DEFINE active == {p \in Rows(s.enrollment, subs) \ s.cancel : Counts(p[1], p[2])}
              t == [s EXCEPT !.active = Cardinality(active)]
  <2>1. sched' = (sched \ {s}) \cup {t}
    BY <1>4 DEF CountFetches
  <2>2. Cardinality(active) \in Nat
    <3>1. IsFiniteSet(Repo \X Stamp)
      <4>1. IsFiniteSet(Stamp)
        BY SubmissionsAssumption, FS_Interval DEF Stamp
      <4>. QED  BY <4>1, SubmissionsAssumption, FS_Product
    <3>2. active \subseteq Repo \X Stamp
      BY DEF Rows
    <3>. HIDE DEF active
    <3>. QED  BY <3>1, <3>2, FS_Subset, FS_CardinalityType
  <2>. HIDE DEF active
  <2>3. t \in Scheduling /\ t.enrollment = s.enrollment /\ t.of = s.of /\ t.cancel = s.cancel
    BY <1>1, <2>2 DEF Scheduling
  <2>. HIDE DEF t
  <2>4. sched' \subseteq Scheduling
    BY <1>1, <2>1, <2>3 DEF TypeOK
  <2>5. \A u \in sched' : \E v \in sched :
           /\ u.enrollment = v.enrollment /\ u.of = v.of /\ u.cancel = v.cancel
           /\ u = v \/ (u = t /\ v = s)
    BY <2>1, <2>3
  <2>6. \A u, v \in sched' : u.enrollment = v.enrollment => u = v
    BY <2>1, <2>3 DEF SubInv, Locks
  <2>7. Locks'
    BY <1>3, <2>5, <2>6 DEF SubInv, Locks, InWindow
  <2>. QED  BY <1>2, <2>4, <2>7, SchedulesChange
<1>5. CASE DropRefill(s)
  <2>1. sched' \subseteq sched
    BY <1>5 DEF DropRefill
  <2>2. Locks'
    BY <1>3, <2>1 DEF SubInv, Locks, InWindow
  <2>. QED  BY <1>1, <1>2, <2>1, <2>2, SchedulesChange DEF TypeOK
<1>. QED  BY <1>4, <1>5

\* The processing of one task, from the lease to its outcome.
LEMMA FetchingInv ==
  ASSUME SubInv, NEW r \in Repo, NEW n \in Stamp, Fetching(r, n)
  PROVE  SubInv'
<1>. DEFINE Changed ==
       /\ UNCHANGED <<Elsewhere, sched>> /\ TypeOK'
       /\ \A q \in Repo : captured[q] \subseteq captured'[q]
       /\ \A q \in Repo, k \in Stamp :
            /\ task'[q][k] = "done" => task[q][k] = "done" \/ k \in captured[q]
            /\ task'[q][k] = "cancelled" => task[q][k] = "cancelled" \/ k # final[q]
            /\ fetch'[q][k] # {} => task'[q][k] # "absent"
            /\ task'[q][k] # "absent" => k \in subs[q]
<1>0. TypeOK
  BY DEF SubInv
<1>1. /\ TypeOK
      /\ \A q \in Repo, k \in Stamp :
            /\ fetch[q][k] # {} => task[q][k] # "absent"
            /\ task[q][k] # "absent" => k \in subs[q]
      /\ {"leased", "done", "pending", "failed"} \subseteq Status
  BY DEF SubInv, Fetches, Status
<1>2. CASE StartFetch(r, n)
  <2>1. /\ UNCHANGED <<Elsewhere, sched, restored, captured, review>>
        /\ task' = [task EXCEPT ![r][n] = "leased"]
        /\ task[r][n] \in {"pending", "leased"}
        /\ fetch' = [fetch EXCEPT ![r][n] = fetch[r][n] \cup {"live"}]
    BY <1>2 DEF StartFetch, Elsewhere, repository, history
  <2>2. fetch[r][n] \cup {"live"} \in SUBSET {"live", "stale"}
    BY <1>1 DEF TypeOK
  <2>3. /\ task' \in [Repo -> [Stamp -> Status]]
        /\ task'[r][n] = "leased"
        /\ \A q \in Repo, k \in Stamp : q # r \/ k # n => task'[q][k] = task[q][k]
    <3>1. "leased" \in Status
      BY DEF Status
    <3>2. task' = [task EXCEPT ![r][n] = "leased"]
      BY <2>1
    <3>. QED  BY <1>0, <3>1, <3>2 DEF TypeOK
  <2>4. /\ fetch' \in [Repo -> [Stamp -> SUBSET {"live", "stale"}]]
        /\ \A q \in Repo, k \in Stamp : q # r \/ k # n => fetch'[q][k] = fetch[q][k]
    <3>1. fetch' = [fetch EXCEPT ![r][n] = fetch[r][n] \cup {"live"}]
      BY <2>1
    <3>. QED  BY <1>0, <2>2, <3>1 DEF TypeOK
  <2>5. TypeOK'
    BY <1>1, <2>1, <2>3, <2>4 DEF TypeOK, Elsewhere, receipts, deciding
  <2>6. Changed
    BY <1>1, <2>1, <2>3, <2>4, <2>5
  <2>. QED  BY <2>6, FetchesChange
<1>3. CASE Capture(r, n)
  <2>1. /\ UNCHANGED <<Elsewhere, sched, restored, review, task, fetch>>
        /\ captured' = [captured EXCEPT ![r] = captured[r] \cup {n}]
    BY <1>3 DEF Capture, Elsewhere, repository, fetches, history
  <2>2. TypeOK' /\ \A q \in Repo : captured[q] \subseteq captured'[q]
    BY <1>1, <2>1 DEF TypeOK, Elsewhere, receipts, deciding
  <2>3. Changed
    BY <1>1, <2>1, <2>2
  <2>. QED  BY <2>3, FetchesChange
<1>4. CASE FetchOutcome(r, n)
  <2>1. PICK s \in {"done", "pending", "failed"} :
           /\ UNCHANGED <<Elsewhere, sched, restored, captured>>
           /\ task' = [task EXCEPT ![r][n] = s]
           /\ s = "done" => n \in captured[r]
           /\ review' = review \/ review' = [review EXCEPT ![r] = TRUE]
           /\ fetch' = [fetch EXCEPT ![r][n] = fetch[r][n] \ {"live"}]
           /\ fetch[r][n] # {}
    BY <1>4 DEF FetchOutcome, Elsewhere, Live, history
  <2>2. fetch[r][n] \ {"live"} \in SUBSET {"live", "stale"}
    BY <1>1 DEF TypeOK
  <2>3. /\ task' \in [Repo -> [Stamp -> Status]]
        /\ task'[r][n] = s
        /\ \A q \in Repo, k \in Stamp : q # r \/ k # n => task'[q][k] = task[q][k]
    <3>1. s \in Status
      BY DEF Status
    <3>2. task' = [task EXCEPT ![r][n] = s]
      BY <2>1
    <3>. QED  BY <1>0, <3>1, <3>2 DEF TypeOK
  <2>4. /\ fetch' \in [Repo -> [Stamp -> SUBSET {"live", "stale"}]]
        /\ \A q \in Repo, k \in Stamp : q # r \/ k # n => fetch'[q][k] = fetch[q][k]
    <3>1. fetch' = [fetch EXCEPT ![r][n] = fetch[r][n] \ {"live"}]
      BY <2>1
    <3>. QED  BY <1>0, <2>2, <3>1 DEF TypeOK
  <2>5. TypeOK'
    BY <1>1, <2>1, <2>3, <2>4 DEF TypeOK, Elsewhere, receipts, deciding
  <2>6. n \in subs[r]
    BY <1>1, <2>1
  <2>7. Changed
    BY <1>1, <2>1, <2>3, <2>4, <2>5, <2>6
  <2>. QED  BY <2>7, FetchesChange
<1>5. CASE LoseLease(r, n) \/ StaleOutcome(r, n)
  <2>1. PICK s \in SUBSET {"live", "stale"} :
           /\ UNCHANGED <<Elsewhere, sched, restored, captured, task>>
           /\ review' = review \/ review' = [review EXCEPT ![r] = TRUE]
           /\ fetch' = [fetch EXCEPT ![r][n] = s]
           /\ fetch[r][n] # {}
    <3>1. CASE LoseLease(r, n)
      <4>1. PICK s \in {{}, {"stale"}} :
                fetch' = [fetch EXCEPT ![r][n] = (fetch[r][n] \ {"live"}) \cup s]
        BY <3>1 DEF LoseLease
      <4>2. (fetch[r][n] \ {"live"}) \cup s \in SUBSET {"live", "stale"}
        BY <1>1 DEF TypeOK
      <4>. QED  BY <3>1, <4>1, <4>2 DEF LoseLease, Live, Elsewhere, repository, history
    <3>2. CASE StaleOutcome(r, n)
      <4>1. fetch[r][n] \ {"stale"} \in SUBSET {"live", "stale"}
        BY <1>1 DEF TypeOK
      <4>. QED  BY <3>2, <4>1 DEF StaleOutcome, Elsewhere, history
    <3>. QED  BY <1>5, <3>1, <3>2
  <2>2. /\ fetch' \in [Repo -> [Stamp -> SUBSET {"live", "stale"}]]
        /\ \A q \in Repo, k \in Stamp : q # r \/ k # n => fetch'[q][k] = fetch[q][k]
    BY <1>0, <2>1 DEF TypeOK
  <2>3. review' \in [Repo -> BOOLEAN]
    BY <1>1, <2>1 DEF TypeOK
  <2>4. TypeOK'
    BY <1>1, <2>1, <2>2, <2>3 DEF TypeOK, Elsewhere, receipts, deciding
  <2>5. Changed
    BY <1>1, <2>1, <2>2, <2>4
  <2>. QED  BY <2>5, FetchesChange
<1>6. CASE ExhaustFetch(r, n) \/ RetryFetch(r, n)
  <2>1. PICK s \in {"pending", "failed"} :
           /\ UNCHANGED <<Elsewhere, sched, captured, fetch, review>>
           /\ restored' \subseteq restored \cup {<<r, n>>}
           /\ task' = [task EXCEPT ![r][n] = s]
           /\ task[r][n] # "absent"
    BY <1>6 DEF ExhaustFetch, RetryFetch, PutBack, Elsewhere, repository, history
  <2>2. /\ task' \in [Repo -> [Stamp -> Status]]
        /\ task'[r][n] = s
        /\ \A q \in Repo, k \in Stamp : q # r \/ k # n => task'[q][k] = task[q][k]
    <3>1. s \in Status
      BY DEF Status
    <3>2. task' = [task EXCEPT ![r][n] = s]
      BY <2>1
    <3>. QED  BY <1>0, <3>1, <3>2 DEF TypeOK
  <2>3. TypeOK'
    BY <1>1, <2>1, <2>2 DEF TypeOK, Elsewhere, receipts, deciding
  <2>4. Changed
    BY <1>1, <2>1, <2>2, <2>3
  <2>. QED  BY <2>4, FetchesChange
<1>. QED  BY <1>2, <1>3, <1>4, <1>5, <1>6 DEF Fetching

\* A review is asked for; nothing depends on it.
LEMMA ReviewInv ==
  ASSUME SubInv, FlagFailedFetches \/ \E r \in Repo : BranchDeleted(r)
  PROVE  SubInv'
<1>1. UNCHANGED <<Elsewhere, sched, restored, captured, fetches>> /\ review' \in [Repo -> BOOLEAN]
  BY DEF FlagFailedFetches, BranchDeleted, Elsewhere, history, SubInv, TypeOK
<1>2. TypeOK'
  BY <1>1 DEF SubInv, TypeOK, Elsewhere, receipts, deciding, fetches
<1>3. \A r \in Repo, n \in Stamp :
         /\ fetch[r][n] # {} => task[r][n] # "absent"
         /\ task[r][n] # "absent" => n \in subs[r]
  BY DEF SubInv, Fetches
<1>. QED  BY <1>1, <1>2, <1>3, FetchesChange DEF fetches

-----------------------------------------------------------------------------
(* The handlers under way.                                                 *)

\* What the handlers leave alone.
Recorded == <<now, repository, events, subs, captured, fetches, deciding, selected, late>>

\* Handlers come and go: each has a stamp of its own, that no event has, and
\* keeps the deadline it has read as long as it schedules.
LEMMA HandlersChange ==
  ASSUME SubInv, UNCHANGED Recorded, admitted' \subseteq Repo, inflight' \subseteq Receipt,
         \A m \in inflight' : /\ m.at <= now
                              /\ m.seen # None /\ m.at <= m.seen => m.at <= deadline[m.repo]
                              /\ events[m.repo][m.at] = None,
         \A m, k \in inflight' : m.repo = k.repo /\ m.at = k.at => m = k,
         sched' \subseteq sched, restored' \subseteq restored,
         \A s \in sched' : s.of # None => s.of \in inflight'
  PROVE  SubInv'
<1>1. TypeOK'
  BY DEF SubInv, TypeOK, Recorded, repository, fetches, deciding
<1>2. Selection' /\ Fetches'
  BY DEF SubInv, Recorded, repository, fetches, Selection, FinalIsNewest, IsNewest, Fetches,
         DoneIsCaptured, FinalWillBeCaptured
<1>3. Windows' /\ Stamps'
  BY DEF SubInv, Recorded, repository, Windows, EligibleStaysInWindow, Stamps
<1>4. InOrder'
  BY DEF SubInv, Recorded, InOrder, IsLastEligible, NewestHasCommitOf, IsNewest
<1>5. Locks'
  BY DEF SubInv, Recorded, repository, Locks, InWindow
<1>. QED  BY <1>1, <1>2, <1>3, <1>4, <1>5 DEF SubInv

LEMMA HandlerInv ==
  ASSUME SubInv, NEW r \in Repo, Admit(r) \/ Abandon(r)
  PROVE  SubInv'
<1>1. UNCHANGED <<Recorded, inflight, sched, restored>> /\ admitted' \subseteq Repo
  BY DEF Admit, Abandon, Recorded, history, SubInv, TypeOK
<1>. QED  BY <1>1, HandlersChange DEF SubInv, TypeOK, Windows, Stamps, Locks

\* A new receipt has a stamp that no other receipt of its repository has.
LEMMA StampedInv ==
  ASSUME SubInv, NEW r \in Repo, NEW sha \in Sha, Push(r, sha) \/ Register(r, sha)
  PROVE  SubInv'
<1>1. PICK source \in {"webhook", "registration"} : Stamped(r, sha, source)
  BY DEF Push, Register
<1>2. admitted' \subseteq Repo
  BY DEF Push, Register, SubInv, TypeOK
<1>. DEFINE m == [repo |-> r, sha |-> sha, at |-> now, source |-> source, seen |-> None]
<1>3. /\ UNCHANGED <<Recorded, sched, restored>> /\ inflight' = inflight \cup {m}
      /\ events[r][now] = None
      /\ \A k \in inflight : ~(k.repo = r /\ k.at = now)
  BY <1>1 DEF Stamped, FreshStamp, Recorded, history
<1>4. m \in Receipt /\ m.repo = r /\ m.at = now /\ m.seen = None
  BY DEF SubInv, TypeOK, Receipt
<1>. HIDE DEF m
<1>5. inflight' \subseteq Receipt
  BY <1>3, <1>4 DEF SubInv, TypeOK
<1>6. \A k \in inflight' : /\ k.at <= now
                           /\ k.seen # None /\ k.at <= k.seen => k.at <= deadline[k.repo]
                           /\ events[k.repo][k.at] = None
  <2>1. now <= now
    BY DEF SubInv, TypeOK, Stamp
  <2>. QED  BY <1>3, <1>4, <2>1 DEF SubInv, Windows, Stamps
<1>7. \A k, j \in inflight' : k.repo = j.repo /\ k.at = j.at => k = j
  BY <1>3, <1>4 DEF SubInv, Stamps
<1>8. \A s \in sched : s.of # None => s.of \in inflight'
  BY <1>3 DEF SubInv, Locks
<1>. QED  BY <1>2, <1>3, <1>5, <1>6, <1>7, <1>8, HandlersChange

\* A handler reads its deadline, or is gone.
LEMMA BeginInv ==
  ASSUME SubInv, NEW m \in inflight, Begin(m) \/ Drop(m)
  PROVE  SubInv'
<1>. DEFINE k == [m EXCEPT !.seen = deadline[m.repo]]
<1>1. /\ UNCHANGED <<Recorded, admitted>>
      /\ inflight \ {m} \subseteq inflight' /\ inflight' \subseteq (inflight \ {m}) \cup {k}
  BY DEF Begin, Drop, Recorded, history
<1>2. m \in Receipt /\ deadline[m.repo] \in Stamp
  BY DEF SubInv, TypeOK, Receipt
<1>3. /\ k \in Receipt /\ k.repo = m.repo /\ k.at = m.at
      /\ k.seen = deadline[m.repo]
  BY <1>2 DEF Receipt, Stamp
<1>. HIDE DEF k
<1>4. inflight' \subseteq Receipt /\ admitted' \subseteq Repo
  BY <1>1, <1>3 DEF SubInv, TypeOK
<1>5. \A j \in inflight' : /\ j.at <= now
                           /\ j.seen # None /\ j.at <= j.seen => j.at <= deadline[j.repo]
                           /\ events[j.repo][j.at] = None
  BY <1>1, <1>3 DEF SubInv, Windows, Stamps
<1>6. \A i, j \in inflight' : i.repo = j.repo /\ i.at = j.at => i = j
  BY <1>1, <1>3 DEF SubInv, Stamps
<1>7. /\ sched' \subseteq sched /\ restored' \subseteq restored
      /\ \A s \in sched' : s.of # None => s.of # m
  <2>1. CASE Begin(m)
    BY <2>1 DEF Begin, history, SubInv, Locks
  <2>2. CASE Drop(m)
    BY <2>2 DEF Drop, RestoredElsewhere
  <2>. QED  BY <2>1, <2>2
<1>8. \A s \in sched' : s.of # None => s.of \in inflight'
  BY <1>1, <1>7 DEF SubInv, Locks
<1>. QED  BY <1>1, <1>4, <1>5, <1>6, <1>7, <1>8, HandlersChange

-----------------------------------------------------------------------------
(* Receipts become events.                                                 *)

\* An event that is not eligible changes nothing about the last eligible one.
LEMMA IneligibleEvent ==
  ASSUME SubInv, NEW r \in Repo, NEW n \in Stamp,
         events[r][n] = None, events'[r][n] # None, ~events'[r][n].eligible,
         \A q \in Repo, k \in Stamp : q # r \/ k # n => events'[q][k] = events[q][k],
         \A q \in Repo : late'[q] => late[q] \/ q = r,
         \A q \in Repo : late[q] => late'[q],
         UNCHANGED <<subs, selected>>
  PROVE  InOrder'
<1>. SUFFICES ASSUME NEW q \in Repo, NEW k \in Stamp, ~late[q], ~selected[q],
                     IsLastEligible(q, k)'
              PROVE  NewestHasCommitOf(q, k)'
  BY DEF InOrder
<1>1. q # r \/ k # n
  BY DEF IsLastEligible
<1>2. events'[q][k] = events[q][k]
  BY <1>1
<1>3. IsLastEligible(q, k)
  <2>1. events[q][k] # None /\ events[q][k].eligible
    BY <1>2 DEF IsLastEligible
  <2>2. ASSUME NEW j \in Stamp, events[q][j] # None, events[q][j].eligible PROVE j <= k
    <3>1. events'[q][j] = events[q][j]
      BY <2>2
    <3>. QED  BY <2>2, <3>1 DEF IsLastEligible
  <2>. QED  BY <2>1, <2>2 DEF IsLastEligible
<1>4. PICK s \in subs[q] : IsNewest(subs[q], s) /\ events[q][s].sha = events[q][k].sha
  BY <1>3 DEF SubInv, InOrder, NewestHasCommitOf
<1>5. events'[q][s] = events[q][s]
  <2>1. s \in Stamp /\ events[q][s] # None
    BY DEF SubInv, TypeOK, Stamps
  <2>. QED  BY <2>1
<1>. QED  BY <1>2, <1>4, <1>5 DEF NewestHasCommitOf, IsNewest

\* record commits: an event, and a submission with its fetch or none.
LEMMA RecordInv ==
  ASSUME SubInv, NEW m \in inflight, Record(m) \/ \E s \in sched : s.of = m /\ FinishRecord(s)
  PROVE  SubInv'
<1>. DEFINE r == m.repo
<1>1. TypeOK /\ m \in Receipt /\ r \in Repo /\ m.at \in Stamp /\ events[r][m.at] = None
  BY DEF SubInv, TypeOK, Receipt, Stamps
<1>2. PICK eligible \in BOOLEAN :
        /\ AddEvent(m, eligible)
        /\ eligible => m.seen # None /\ InWindow(m) /\ ~closed[r]
        /\ UNCHANGED <<now, deadline, closed, final, captured, fetch, admitted, deciding, selected>>
        /\ \/ /\ ~eligible \/ SameAsNewest(m)
              /\ review' = review \/ review' = [review EXCEPT ![r] = review[r] \/ NeedsReview(m)]
              /\ UNCHANGED <<subs, task, sched, restored>>
              /\ \A s \in sched : s.of # m
           \/ /\ eligible
              /\ subs' = [subs EXCEPT ![r] = subs[r] \cup {m.at}]
              /\ \E s \in sched : s.of = m /\ FillPlaces(s, subs')
              /\ UNCHANGED review
  <2>1. CASE Record(m)
    <3>1. Eligible(m) \in BOOLEAN
      BY DEF Eligible, InWindow
    <3>2. \A s \in sched : s.of # m
      BY <1>1, <2>1, SubmissionsAssumption DEF Record, RowFree
    <3>3. Eligible(m) => m.seen # None /\ InWindow(m) /\ ~closed[r]
      BY <2>1 DEF Record, Eligible
    <3>. QED  BY <2>1, <3>1, <3>2, <3>3 DEF Record, fetches
  <2>2. CASE \E s \in sched : s.of = m /\ FinishRecord(s)
    <3>1. PICK s \in sched : s.of = m /\ FinishRecord(s)
      BY <2>2
    <3>2. m.seen # None /\ InWindow(m) /\ ~closed[r]
      BY <1>1, <3>1, SubmissionsAssumption DEF SubInv, Locks
    <3>. QED  BY <3>1, <3>2 DEF FinishRecord, repository
  <2>. QED  BY <2>1, <2>2
<1>. DEFINE e == [sha |-> m.sha, eligible |-> eligible]
<1>3. e \in Event /\ e # None /\ e.eligible = eligible /\ e.sha = m.sha
  <2>1. m.sha \in Sha
    BY <1>1 DEF Receipt
  <2>2. e \in Event /\ e.eligible = eligible /\ e.sha = m.sha
    BY <2>1 DEF Event
  <2>. QED  BY <2>2, SubmissionsAssumption
<1>4. events' = [events EXCEPT ![r][m.at] = e]
  BY <1>2 DEF AddEvent
<1>5. /\ inflight' = inflight \ {m}
      /\ late' = [late EXCEPT ![r] = late[r] \/ \E n \in Stamp : n > m.at /\ events[r][n] # None]
      /\ UNCHANGED <<now, deadline, closed, final, captured, fetch, admitted, deciding, selected>>
  BY <1>2 DEF AddEvent
<1>6. \/ /\ ~eligible \/ SameAsNewest(m)
         /\ UNCHANGED <<subs, task>>
      \/ /\ eligible
         /\ subs' = [subs EXCEPT ![r] = subs[r] \cup {m.at}]
  BY <1>2
<1>7. eligible => Opens <= m.at /\ m.at <= m.seen /\ m.seen # None /\ ~closed[r]
  BY <1>2 DEF InWindow
<1>. HIDE DEF e, r
<1>8. /\ events' \in [Repo -> [Stamp -> Event \cup {None}]]
      /\ events'[r][m.at] = e
      /\ \A q \in Repo, k \in Stamp : q # r \/ k # m.at => events'[q][k] = events[q][k]
  <2>1. TypeOK /\ r \in Repo /\ m.at \in Stamp /\ e \in Event
    BY <1>1, <1>3
  <2>. QED  BY <1>4, <2>1 DEF TypeOK
<1>9. /\ late' \in [Repo -> BOOLEAN]
      /\ \A q \in Repo : late[q] => late'[q]
      /\ \A q \in Repo : q # r => late'[q] = late[q]
      /\ ~late'[r] => \A n \in Stamp : events[r][n] # None => ~(n > m.at)
  BY <1>1, <1>5 DEF TypeOK
<1>10. subs' \in [Repo -> SUBSET Stamp] /\ \A q \in Repo : subs[q] \subseteq subs'[q]
  <2>1. CASE UNCHANGED subs
    BY <1>1, <2>1 DEF TypeOK
  <2>2. CASE subs' = [subs EXCEPT ![r] = subs[r] \cup {m.at}]
    BY <1>1, <2>2 DEF TypeOK
  <2>. QED  BY <1>6, <2>1, <2>2
<1>11. /\ task' \in [Repo -> [Stamp -> Status]]
       /\ \A q \in Repo, n \in Stamp :
              \/ task'[q][n] = task[q][n]
              \/ /\ task'[q][n] = "cancelled" /\ n \in subs[q]
                 /\ n # final[q] \/ ~closed[q] \/ selected[q]
              \/ task'[q][n] = "pending" /\ task[q][n] = "absent" /\ n \in subs'[q]
       /\ sched' \subseteq sched /\ \A s \in sched' : s.of # m
       /\ restored' \subseteq restored
  <2>1. CASE UNCHANGED <<task, sched, restored>> /\ \A s \in sched : s.of # m
    BY <1>1, <2>1 DEF TypeOK
  <2>2. CASE \E s \in sched : s.of = m /\ FillPlaces(s, subs')
    <3>0. PICK s \in sched : s.of = m /\ FillPlaces(s, subs')
      BY <2>2
    <3>1. /\ task' \in [Repo -> [Stamp -> Status]]
          /\ \A q \in Repo, n \in Stamp :
               \/ task'[q][n] = task[q][n]
               \/ task'[q][n] = "cancelled" /\ <<q, n>> \in s.cancel
               \/ task'[q][n] = "pending" /\ task[q][n] = "absent" /\ n \in subs'[q]
          /\ sched' = sched \ {s}
          /\ restored' \subseteq restored
      BY <1>1, <1>10, <3>0, FillChanges
    <3>2. \A q \in Repo, n \in Stamp : <<q, n>> \in s.cancel =>
             n \in subs[q] /\ (n # final[q] \/ ~closed[q] \/ selected[q])
      BY CancelSparesFinal DEF SubInv, Locks
    <3>3. \A t \in sched : t.of = m => t = s
      <4>1. m # None
        BY <1>1, SubmissionsAssumption
      <4>. QED  BY <3>0, <4>1 DEF SubInv, Locks
    <3>4. \A q \in Repo, n \in Stamp :
              \/ task'[q][n] = task[q][n]
              \/ /\ task'[q][n] = "cancelled" /\ n \in subs[q]
                 /\ n # final[q] \/ ~closed[q] \/ selected[q]
              \/ task'[q][n] = "pending" /\ task[q][n] = "absent" /\ n \in subs'[q]
      <4>. TAKE q \in Repo, n \in Stamp
      <4>1. CASE <<q, n>> \in s.cancel /\ task'[q][n] = "cancelled"
        BY <3>2, <4>1
      <4>2. CASE ~(<<q, n>> \in s.cancel /\ task'[q][n] = "cancelled")
        BY <3>1, <4>2
      <4>. QED  BY <4>1, <4>2
    <3>5. sched' \subseteq sched /\ \A u \in sched' : u.of # m
      BY <3>1, <3>3
    <3>. QED  BY <3>1, <3>4, <3>5
  <2>. QED  BY <1>2, <2>1, <2>2
<1>12. review' \in [Repo -> BOOLEAN]
  <2>1. NeedsReview(m) \in BOOLEAN
    BY <1>1 DEF NeedsReview, TypeOK
  <2>. QED  BY <1>1, <1>2, <2>1 DEF TypeOK
<1>13. TypeOK'
  BY <1>1, <1>5, <1>8, <1>9, <1>10, <1>11, <1>12 DEF TypeOK, deciding
<1>14. Selection'
  <2>1. \A q \in Repo : closed[q] => subs'[q] = subs[q]
    BY <1>1, <1>6, <1>7 DEF TypeOK
  <2>. QED  BY <1>5, <2>1 DEF SubInv, Selection, FinalIsNewest, IsNewest
<1>15. Windows'
  <2>1. m.at <= now /\ m.at \in Int
    BY <1>1 DEF SubInv, Windows, Stamp
  <2>2. eligible => Opens <= m.at /\ m.at <= deadline[r]
    BY <1>7 DEF SubInv, Windows, r
  <2>3. EligibleStaysInWindow'
    BY <1>3, <1>5, <1>8, <2>2 DEF SubInv, Windows, EligibleStaysInWindow
  <2>4. \A q \in Repo, n \in Stamp : events'[q][n] # None => n <= now
    BY <1>8, <2>1 DEF SubInv, Windows
  <2>. QED  BY <1>5, <2>3, <2>4 DEF SubInv, Windows
<1>16. Fetches'
  <2>1. DoneIsCaptured'
    BY <1>5, <1>11 DEF SubInv, Fetches, DoneIsCaptured
  <2>2. FinalWillBeCaptured'
    <3>. SUFFICES ASSUME NEW q \in Repo, closed[q], ~selected[q], final[q] # None
                  PROVE  \/ final[q] \in captured[q]
                         \/ task'[q][final[q]] \in {"absent", "pending", "leased", "failed"}
      BY <1>5 DEF FinalWillBeCaptured
    <3>1. \/ final[q] \in captured[q]
          \/ task[q][final[q]] \in {"absent", "pending", "leased", "failed"}
      BY DEF SubInv, Fetches, FinalWillBeCaptured
    <3>2. final[q] \in Stamp
      BY <1>1 DEF TypeOK
    <3>. QED  BY <1>11, <3>1, <3>2
  <2>3. \A q \in Repo, n \in Stamp :
           /\ fetch[q][n] # {} => task[q][n] # "absent"
           /\ task[q][n] # "absent" => n \in subs[q]
    BY DEF SubInv, Fetches
  <2>4. \A q \in Repo, n \in Stamp :
           /\ fetch'[q][n] # {} => task'[q][n] # "absent"
           /\ task'[q][n] # "absent" => n \in subs'[q]
    BY <1>5, <1>10, <1>11, <2>3
  <2>. QED  BY <2>1, <2>2, <2>4 DEF Fetches
<1>17. Stamps'
  <2>1. \A k \in inflight' : events'[k.repo][k.at] = None
    <3>. SUFFICES ASSUME NEW k \in inflight, k # m PROVE events'[k.repo][k.at] = None
      BY <1>5
    <3>1. k.repo \in Repo /\ k.at \in Stamp
      BY <1>1 DEF TypeOK, Receipt
    <3>2. k.repo # r \/ k.at # m.at
      BY DEF SubInv, Stamps, r
    <3>3. events[k.repo][k.at] = None
      BY DEF SubInv, Stamps
    <3>. QED  BY <1>8, <3>1, <3>2, <3>3
  <2>2. \A k, j \in inflight' : k.repo = j.repo /\ k.at = j.at => k = j
    BY <1>5 DEF SubInv, Stamps
  <2>3. \A q \in Repo : \A n \in subs'[q] : events'[q][n] # None
    <3>. SUFFICES ASSUME NEW q \in Repo, NEW n \in subs'[q] PROVE events'[q][n] # None
      OBVIOUS
    <3>1. n \in Stamp
      BY <1>10
    <3>2. n \in subs[q] \/ (q = r /\ n = m.at)
      BY <1>1, <1>6 DEF TypeOK
    <3>3. n \in subs[q] => events[q][n] # None
      BY DEF SubInv, Stamps
    <3>. QED  BY <1>3, <1>8, <3>1, <3>2, <3>3
  <2>. QED  BY <2>1, <2>2, <2>3 DEF Stamps
<1>18. InOrder'
  <2>1. CASE ~eligible
    <3>1. UNCHANGED <<subs, selected>>
      BY <1>5, <1>6, <2>1
    <3>2. events'[r][m.at] # None /\ ~events'[r][m.at].eligible
      BY <1>3, <1>8, <2>1
    <3>3. \A q \in Repo : late'[q] => late[q] \/ q = r
      BY <1>9
    <3>. QED  BY <1>1, <1>8, <1>9, <3>1, <3>2, <3>3, IneligibleEvent
  <2>2. CASE eligible
    <3>. SUFFICES ASSUME NEW q \in Repo, NEW n \in Stamp, ~late'[q], ~selected[q],
                         IsLastEligible(q, n)'
                  PROVE  NewestHasCommitOf(q, n)'
      BY <1>5 DEF InOrder
    <3>1. CASE q # r
      <4>1. /\ subs'[q] = subs[q] /\ late'[q] = late[q]
            /\ \A k \in Stamp : events'[q][k] = events[q][k]
        BY <1>1, <1>6, <1>8, <1>9, <3>1 DEF TypeOK
      <4>2. IsLastEligible(q, n)
        BY <4>1 DEF IsLastEligible
      <4>3. NewestHasCommitOf(q, n) /\ subs[q] \subseteq Stamp
        BY <1>1, <4>1, <4>2 DEF SubInv, InOrder, TypeOK
      <4>. QED  BY <4>1, <4>3 DEF NewestHasCommitOf, IsNewest
    <3>2. CASE q = r
      <4>1. \A k \in Stamp : events'[r][k] # None => k <= m.at
        <5>. SUFFICES ASSUME NEW k \in Stamp, events'[r][k] # None PROVE k <= m.at
          OBVIOUS
        <5>1. k = m.at \/ events[r][k] # None
          BY <1>1, <1>8
        <5>2. k = m.at \/ ~(k > m.at)
          BY <1>9, <3>2, <5>1
        <5>. QED  BY <1>1, <5>2 DEF Stamp
      <4>2. events'[r][n] # None /\ m.at <= n
        BY <1>1, <1>3, <1>8, <2>2, <3>2 DEF IsLastEligible
      <4>3. n = m.at
        <5>1. n <= m.at
          BY <4>1, <4>2
        <5>. QED  BY <1>1, <4>2, <5>1 DEF Stamp
      <4>4. events'[r][n].sha = m.sha
        BY <1>3, <1>8, <4>3
      <4>5. CASE SameAsNewest(m) /\ UNCHANGED subs
        <5>1. PICK s \in subs[r] : IsNewest(subs[r], s) /\ events[r][s].sha = m.sha
          BY <4>5 DEF SameAsNewest, r
        <5>2. s \in Stamp /\ events[r][s] # None
          BY <1>1 DEF SubInv, TypeOK, Stamps
        <5>3. events'[r][s] = events[r][s]
          BY <1>1, <1>8, <5>2
        <5>. QED  BY <3>2, <4>4, <4>5, <5>1, <5>3 DEF NewestHasCommitOf, IsNewest
      <4>6. CASE subs' = [subs EXCEPT ![r] = subs[r] \cup {m.at}]
        <5>1. m.at \in subs'[r]
          BY <1>1, <4>6 DEF TypeOK
        <5>2. \A s \in subs'[r] : s <= m.at
          BY <1>1, <1>10, <1>17, <4>1 DEF Stamps
        <5>. QED  BY <3>2, <4>3, <5>1, <5>2 DEF NewestHasCommitOf, IsNewest
      <4>. QED  BY <1>6, <2>2, <4>5, <4>6
    <3>. QED  BY <3>1, <3>2
  <2>. QED  BY <2>1, <2>2
<1>19. Locks'
  <2>1. \A s \in sched' : s \in sched /\ (s.of # None => s.of \in inflight')
    BY <1>5, <1>11 DEF SubInv, Locks
  <2>2. \A s \in sched', q \in Repo, n \in Stamp : <<q, n>> \in s.cancel =>
           /\ n \in subs'[q]
           /\ (\E k \in subs'[q] : k > n) \/ (s.of # None /\ s.of.repo = q)
    <3>. SUFFICES ASSUME NEW s \in sched', NEW q \in Repo, NEW n \in Stamp, <<q, n>> \in s.cancel
                  PROVE  /\ n \in subs'[q]
                         /\ (\E k \in subs'[q] : k > n) \/ (s.of # None /\ s.of.repo = q)
      OBVIOUS
    <3>1. n \in subs[q] /\ ((\E k \in subs[q] : k > n) \/ (s.of # None /\ s.of.repo = q))
      BY <2>1 DEF SubInv, Locks
    <3>. QED  BY <1>10, <3>1
  <2>. QED  BY <1>5, <2>1, <2>2 DEF SubInv, Locks, InWindow
<1>. QED  BY <1>13, <1>14, <1>15, <1>16, <1>17, <1>18, <1>19 DEF SubInv

\* An observation is an event for review; no submission is made of it.
LEMMA ReconcileInv ==
  ASSUME SubInv, NEW r \in Repo, NEW sha \in Sha, Reconcile(r, sha)
  PROVE  SubInv'
<1>. DEFINE e == [sha |-> sha, eligible |-> FALSE]
<1>1. TypeOK /\ now \in Stamp
  BY DEF SubInv, TypeOK
<1>2. e \in Event /\ e # None /\ ~e.eligible
  <2>1. e \in Event /\ ~e.eligible
    BY DEF Event
  <2>. QED  BY <2>1, SubmissionsAssumption
<1>3. /\ events' = [events EXCEPT ![r][now] = e]
      /\ events[r][now] = None
      /\ \A k \in inflight : ~(k.repo = r /\ k.at = now)
      /\ review' = [review EXCEPT ![r] = TRUE]
      /\ UNCHANGED <<now, deadline, closed, final, subs, captured, task, fetch, sched, admitted,
                     inflight, deciding, selected, late, restored>>
  BY DEF Reconcile, FreshStamp, fetches, receipts, history
<1>. HIDE DEF e
<1>4. /\ events' \in [Repo -> [Stamp -> Event \cup {None}]]
      /\ events'[r][now] = e
      /\ \A q \in Repo, k \in Stamp : q # r \/ k # now => events'[q][k] = events[q][k]
  BY <1>1, <1>2, <1>3 DEF TypeOK
<1>5. TypeOK'
  BY <1>1, <1>3, <1>4 DEF TypeOK, deciding
<1>6. Selection' /\ Fetches' /\ Locks'
  BY <1>3 DEF SubInv, Selection, FinalIsNewest, IsNewest, Fetches, DoneIsCaptured,
              FinalWillBeCaptured, Locks, InWindow
<1>7. Windows'
  <2>1. EligibleStaysInWindow'
    BY <1>2, <1>3, <1>4 DEF SubInv, Windows, EligibleStaysInWindow
  <2>2. \A q \in Repo, n \in Stamp : events'[q][n] # None => n <= now
    BY <1>1, <1>4 DEF SubInv, Windows, Stamp
  <2>. QED  BY <1>3, <2>1, <2>2 DEF SubInv, Windows
<1>8. Stamps'
  <2>1. \A k \in inflight : k.repo \in Repo /\ k.at \in Stamp
    BY <1>1 DEF TypeOK, Receipt
  <2>2. \A k \in inflight : events'[k.repo][k.at] = None
    BY <1>3, <1>4, <2>1 DEF SubInv, Stamps
  <2>3. \A q \in Repo : \A n \in subs[q] : n \in Stamp /\ events[q][n] # None
    BY <1>1 DEF SubInv, Stamps, TypeOK
  <2>4. \A q \in Repo : \A n \in subs[q] : events'[q][n] # None
    BY <1>2, <1>4, <2>3
  <2>. QED  BY <1>3, <2>2, <2>4 DEF SubInv, Stamps
<1>9. InOrder'
  BY <1>1, <1>2, <1>3, <1>4, IneligibleEvent
<1>. QED  BY <1>5, <1>6, <1>7, <1>8, <1>9 DEF SubInv

-----------------------------------------------------------------------------
(* Deadlines and the final selection.                                      *)

\* The clock, and a close or an extension that starts or fails.
LEMMA ClockInv ==
  ASSUME SubInv,
         \/ Tick
         \/ \E r \in Repo : \/ BeginClose(r) \/ BeginExtend(r)
                            \/ \E p \in Stamp : ExtendFails(r, p)
  PROVE  SubInv'
<1>1. /\ UNCHANGED <<deadline, closed, final, review, events, subs, captured, fetches, sched,
                     receipts, history>>
      /\ now' \in Stamp /\ now <= now'
  <2>1. CASE Tick
    BY <2>1, SubmissionsAssumption DEF Tick, repository, SubInv, TypeOK, Stamp
  <2>2. CASE UNCHANGED now
    BY <2>2 DEF Tick, BeginClose, BeginExtend, ExtendFails, repository, SubInv, TypeOK, Stamp
  <2>. QED  BY <2>1, <2>2 DEF BeginClose, BeginExtend, ExtendFails
<1>2. TypeOK'
  <2>1. closing' \in [Repo -> BOOLEAN]
    BY DEF Tick, BeginClose, BeginExtend, ExtendFails, deciding, SubInv, TypeOK
  <2>2. extending' \in [Repo -> SUBSET Stamp]
    <3>1. CASE UNCHANGED extending
      BY <3>1 DEF SubInv, TypeOK
    <3>2. ASSUME NEW r \in Repo, BeginExtend(r) PROVE extending' \in [Repo -> SUBSET Stamp]
      <4>1. deadline[r] \in Stamp /\ extending \in [Repo -> SUBSET Stamp]
        BY DEF SubInv, TypeOK
      <4>. QED  BY <3>2, <4>1 DEF BeginExtend
    <3>3. ASSUME NEW r \in Repo, NEW p \in Stamp, ExtendFails(r, p)
          PROVE  extending' \in [Repo -> SUBSET Stamp]
      BY <3>3 DEF ExtendFails, SubInv, TypeOK
    <3>. QED  BY <3>1, <3>2, <3>3 DEF Tick, BeginClose, deciding
  <2>. QED  BY <1>1, <2>1, <2>2 DEF SubInv, TypeOK, fetches, receipts, history
<1>3. Selection' /\ Fetches'
  BY <1>1 DEF SubInv, fetches, history, Selection, FinalIsNewest, IsNewest, Fetches,
              DoneIsCaptured, FinalWillBeCaptured
<1>4. \A n \in Stamp : n <= now => n <= now'
  BY <1>1 DEF SubInv, TypeOK, Stamp
<1>5. \A m \in inflight : m.at \in Stamp
  BY DEF SubInv, TypeOK, Receipt
<1>6. Windows'
  BY <1>1, <1>4, <1>5 DEF SubInv, receipts, Windows, EligibleStaysInWindow
<1>7. Stamps' /\ InOrder' /\ Locks'
  BY <1>1 DEF SubInv, receipts, history, Stamps, InOrder, IsLastEligible, NewestHasCommitOf,
              IsNewest, Locks, InWindow
<1>. QED  BY <1>2, <1>3, <1>6, <1>7 DEF SubInv

\* The new deadline lies ahead, and so after every receipt there is.
LEMMA ExtendInv ==
  ASSUME SubInv, NEW r \in Repo, NEW p \in Stamp, NEW d \in Stamp, Extend(r, p, d)
  PROVE  SubInv'
<1>1. /\ UNCHANGED <<now, closed, final, review, events, subs, captured, fetches, sched, receipts,
                     closing, history>>
      /\ deadline' = [deadline EXCEPT ![r] = d]
      /\ d > now
  BY DEF Extend
<1>2. TypeOK
  BY DEF SubInv
<1>3. TypeOK'
  <2>1. extending' \in [Repo -> SUBSET Stamp]
    BY <1>2 DEF Extend, TypeOK
  <2>2. deadline' \in [Repo -> Stamp]
    BY <1>1, <1>2 DEF TypeOK
  <2>. QED  BY <1>1, <1>2, <2>1, <2>2 DEF TypeOK, fetches, receipts, history
<1>4. Selection' /\ Fetches'
  BY <1>1 DEF SubInv, fetches, history, Selection, FinalIsNewest, IsNewest, Fetches,
              DoneIsCaptured, FinalWillBeCaptured
<1>5. ASSUME NEW q \in Repo, NEW n \in Stamp, n <= now, n <= deadline[q] \/ q = r
      PROVE  n <= deadline'[q]
  <2>1. CASE q = r
    BY <1>1, <1>2, <1>5, <2>1 DEF TypeOK, Stamp
  <2>2. CASE q # r
    BY <1>1, <1>2, <1>5, <2>2 DEF TypeOK
  <2>. QED  BY <2>1, <2>2
<1>6. Windows'
  <2>1. ASSUME NEW m \in inflight
        PROVE  /\ m.at <= now
               /\ m.seen # None /\ m.at <= m.seen => m.at <= deadline'[m.repo]
    <3>1. m.at \in Stamp /\ m.repo \in Repo
      BY <1>2 DEF TypeOK, Receipt
    <3>. QED  BY <1>5, <3>1 DEF SubInv, Windows
  <2>2. ASSUME NEW q \in Repo, NEW n \in Stamp, events[q][n] # None, events[q][n].eligible
        PROVE  Opens <= n /\ n <= deadline'[q]
    <3>1. Opens <= n /\ n <= deadline[q] /\ n <= now
      BY <2>2 DEF SubInv, Windows, EligibleStaysInWindow
    <3>. QED  BY <1>5, <3>1
  <2>3. \A q \in Repo, n \in Stamp : events[q][n] # None => n <= now
    BY DEF SubInv, Windows
  <2>. QED  BY <1>1, <2>1, <2>2, <2>3 DEF receipts, Windows, EligibleStaysInWindow
<1>7. Stamps' /\ InOrder' /\ Locks'
  BY <1>1 DEF SubInv, receipts, history, Stamps, InOrder, IsLastEligible, NewestHasCommitOf,
              IsNewest, Locks, InWindow
<1>. QED  BY <1>3, <1>4, <1>6, <1>7 DEF SubInv

\* close freezes the newest submission and revives its fetch.
LEMMA CloseInv == ASSUME SubInv, NEW r \in Repo, Close(r) PROVE SubInv'
<1>1. /\ UNCHANGED <<now, deadline, review, events, subs, captured, fetch, sched, receipts,
                     extending, selected, late>>
      /\ closing' = [closing EXCEPT ![r] = FALSE]
      /\ closed' = closed \/ closed' = [closed EXCEPT ![r] = TRUE]
      /\ RowFree(r)
  BY DEF Close
<1>0. restored' \subseteq Repo \X Stamp
  <2>1. \A n \in subs[r] : n \in Stamp
    BY DEF SubInv, TypeOK
  <2>. QED  BY <2>1 DEF Close, PutBack, SubInv, TypeOK
<1>2. Windows' /\ Stamps' /\ InOrder' /\ Locks'
  <2>1. Windows' /\ Stamps'
    BY <1>1 DEF SubInv, receipts, Windows, EligibleStaysInWindow, Stamps
  <2>2. InOrder'
    BY <1>1 DEF SubInv, InOrder, IsLastEligible, NewestHasCommitOf, IsNewest
  <2>3. \A q \in Repo : q # r => closed'[q] = closed[q]
    BY <1>1 DEF SubInv, TypeOK
  <2>4. ASSUME NEW s \in sched, s.of # None PROVE ~closed'[s.of.repo]
    <3>1. s.of \in inflight /\ ~closed[s.of.repo] /\ s.of.repo # r
      BY <1>1, <2>4 DEF SubInv, Locks, RowFree
    <3>2. s.of.repo \in Repo
      BY <3>1 DEF SubInv, TypeOK, Receipt
    <3>. QED  BY <2>3, <3>1, <3>2
  <2>5. Locks'
    BY <1>1, <2>4 DEF SubInv, receipts, Locks, InWindow
  <2>. QED  BY <2>1, <2>2, <2>5
<1>3. TypeOK
  BY DEF SubInv
<1>4. CASE UNCHANGED <<closed, final, task>>
  <2>1. TypeOK' /\ Selection' /\ Fetches'
    BY <1>0, <1>1, <1>4 DEF SubInv, TypeOK, receipts, Selection, FinalIsNewest, IsNewest,
                      Fetches, DoneIsCaptured, FinalWillBeCaptured
  <2>. QED  BY <1>2, <2>1 DEF SubInv
<1>5. CASE /\ ~closed[r] /\ closed' = [closed EXCEPT ![r] = TRUE]
           /\ subs[r] = {} /\ UNCHANGED <<final, task>>
  <2>1. TypeOK'
    BY <1>0, <1>1, <1>5 DEF SubInv, TypeOK, receipts
  <2>2. final[r] = None
    BY <1>5 DEF SubInv, Selection
  <2>3. \A q \in Repo : q # r => closed'[q] = closed[q]
    BY <1>3, <1>5 DEF TypeOK
  <2>4. closed'[r]
    BY <1>3, <1>5 DEF TypeOK
  <2>5. Selection'
    BY <1>1, <1>5, <2>2, <2>3, <2>4 DEF SubInv, Selection, FinalIsNewest, IsNewest
  <2>6. Fetches'
    BY <1>1, <1>5, <2>2, <2>3 DEF SubInv, Fetches, DoneIsCaptured, FinalWillBeCaptured
  <2>. QED  BY <1>2, <2>1, <2>5, <2>6 DEF SubInv
<1>6. ASSUME ~closed[r], closed' = [closed EXCEPT ![r] = TRUE],
             NEW n \in subs[r], IsNewest(subs[r], n), final' = [final EXCEPT ![r] = n],
             task' = [task EXCEPT ![r][n] =
                        IF task[r][n] \in {"failed", "cancelled"} THEN "pending" ELSE task[r][n]]
      PROVE  SubInv'
  <2>. DEFINE s == IF task[r][n] \in {"failed", "cancelled"} THEN "pending" ELSE task[r][n]
  <2>1. n \in Stamp
    BY <1>3 DEF TypeOK
  <2>2. /\ s \in Status
        /\ s \notin {"failed", "cancelled"}
        /\ s = "done" => task[r][n] = "done"
        /\ s = "absent" <=> task[r][n] = "absent"
        /\ task' = [task EXCEPT ![r][n] = s]
    BY <1>3, <1>6, <2>1 DEF TypeOK, Status
  <2>. HIDE DEF s
  <2>3. /\ task' \in [Repo -> [Stamp -> Status]]
        /\ task'[r][n] = s
        /\ \A q \in Repo, k \in Stamp : q # r \/ k # n => task'[q][k] = task[q][k]
    <3>1. s \in Status /\ task' = [task EXCEPT ![r][n] = s]
      BY <2>2
    <3>. QED  BY <1>3, <2>1, <3>1 DEF TypeOK
  <2>4. /\ closed' \in [Repo -> BOOLEAN] /\ final' \in [Repo -> Stamp \cup {None}]
        /\ closed'[r] /\ final'[r] = n
        /\ \A q \in Repo : q # r => closed'[q] = closed[q] /\ final'[q] = final[q]
    BY <1>3, <1>6, <2>1 DEF TypeOK
  <2>5. TypeOK'
    BY <1>0, <1>1, <1>3, <2>3, <2>4 DEF TypeOK, receipts
  <2>6. Selection'
    <3>1. \A q \in Repo : ~closed'[q] => final'[q] = None /\ ~selected[q]
      BY <2>4 DEF SubInv, Selection
    <3>2. ASSUME NEW q \in Repo, closed'[q], ~selected[q]
          PROVE  IF subs[q] = {} THEN final'[q] = None ELSE IsNewest(subs[q], final'[q])
      <4>1. CASE q = r
        BY <1>6, <2>4, <4>1
      <4>2. CASE q # r
        BY <2>4, <3>2, <4>2 DEF SubInv, Selection, FinalIsNewest
      <4>. QED  BY <4>1, <4>2
    <3>. QED  BY <1>1, <3>1, <3>2 DEF Selection, FinalIsNewest, IsNewest
  <2>7. DoneIsCaptured'
    BY <1>1, <2>1, <2>2, <2>3 DEF SubInv, Fetches, DoneIsCaptured
  <2>8. FinalWillBeCaptured'
    <3>. SUFFICES ASSUME NEW q \in Repo, closed'[q], ~selected[q], final'[q] # None
                  PROVE  \/ final'[q] \in captured[q]
                         \/ task'[q][final'[q]] \in {"absent", "pending", "leased", "failed"}
      BY <1>1 DEF FinalWillBeCaptured
    <3>1. CASE q = r
      <4>1. s = "done" => n \in captured[r]
        BY <1>1, <2>1, <2>3, <2>7 DEF DoneIsCaptured
      <4>. QED  BY <2>2, <2>3, <2>4, <3>1, <4>1 DEF Status
    <3>2. CASE q # r
      <4>1. final[q] \in Stamp
        BY <1>3, <2>4, <3>2 DEF TypeOK
      <4>2. task'[q][final[q]] = task[q][final[q]]
        BY <2>3, <3>2, <4>1
      <4>. QED  BY <2>4, <3>2, <4>2 DEF SubInv, Fetches, FinalWillBeCaptured
    <3>. QED  BY <3>1, <3>2
  <2>9. \A q \in Repo, k \in Stamp :
           /\ fetch[q][k] # {} => task'[q][k] # "absent"
           /\ task'[q][k] # "absent" => k \in subs[q]
    BY <2>2, <2>3 DEF SubInv, Fetches
  <2>. QED  BY <1>1, <1>2, <2>5, <2>6, <2>7, <2>8, <2>9 DEF SubInv, Fetches
<1>7. ASSUME NEW n \in subs[r], IsNewest(subs[r], n), ~closed[r],
             closed' = [closed EXCEPT ![r] = TRUE], final' = [final EXCEPT ![r] = n],
             \/ task[r][n] \in {"failed", "cancelled"} /\ task' = [task EXCEPT ![r][n] = "pending"]
             \/ task[r][n] \notin {"failed", "cancelled"} /\ UNCHANGED task
      PROVE  SubInv'
  <2>1. n \in Stamp
    BY <1>3 DEF TypeOK
  <2>2. task' = [task EXCEPT ![r][n] =
                   IF task[r][n] \in {"failed", "cancelled"} THEN "pending" ELSE task[r][n]]
    <3>1. CASE task[r][n] \in {"failed", "cancelled"}
      BY <1>7, <3>1
    <3>2. CASE task[r][n] \notin {"failed", "cancelled"}
      <4>1. task = [task EXCEPT ![r][n] = task[r][n]]
        BY <1>3, <2>1 DEF TypeOK
      <4>. QED  BY <1>7, <3>2, <4>1
    <3>. QED  BY <3>1, <3>2
  <2>. QED  BY <1>6, <1>7, <2>2
<1>. QED  BY <1>4, <1>5, <1>7 DEF Close

\* select_submission: what is proved of closure is not claimed of a selection.
LEMMA SelectInv ==
  ASSUME SubInv, NEW r \in Repo, NEW n \in Stamp, Select(r, n)
  PROVE  SubInv'
<1>. DEFINE s == IF task[r][n] = "absent" THEN "pending" ELSE task[r][n]
<1>1. /\ closed[r] /\ events[r][n] # None
      /\ subs' = [subs EXCEPT ![r] = subs[r] \cup {n}]
      /\ final' = [final EXCEPT ![r] = n]
      /\ review' = [review EXCEPT ![r] = FALSE]
      /\ selected' = [selected EXCEPT ![r] = TRUE]
      /\ UNCHANGED <<now, deadline, closed, events, captured, fetch, sched, receipts, deciding,
                     late>>
  BY DEF Select
<1>2. TypeOK
  BY DEF SubInv
<1>0. task' = [task EXCEPT ![r][n] = s] /\ restored' \subseteq Repo \X Stamp
  <2>1. task = [task EXCEPT ![r][n] = task[r][n]]
    BY <1>2 DEF TypeOK
  <2>2. task' = [task EXCEPT ![r][n] = s]
    BY <2>1 DEF Select
  <2>. QED  BY <1>2, <2>2 DEF Select, PutBack, TypeOK
<1>3. s \in Status /\ s # "absent" /\ (s = "done" => task[r][n] = "done")
  BY <1>2 DEF TypeOK, Status
<1>. HIDE DEF s
<1>4. /\ task' \in [Repo -> [Stamp -> Status]]
      /\ task'[r][n] = s
      /\ \A q \in Repo, k \in Stamp : q # r \/ k # n => task'[q][k] = task[q][k]
  <2>1. s \in Status /\ task' = [task EXCEPT ![r][n] = s]
    BY <1>0, <1>3
  <2>. QED  BY <1>2, <2>1 DEF TypeOK
<1>5. /\ subs' \in [Repo -> SUBSET Stamp] /\ subs'[r] = subs[r] \cup {n} /\ selected'[r]
      /\ \A q \in Repo : q # r => /\ subs'[q] = subs[q] /\ final'[q] = final[q]
                                  /\ selected'[q] = selected[q]
  BY <1>1, <1>2 DEF TypeOK
<1>6. TypeOK'
  <2>1. final' \in [Repo -> Stamp \cup {None}]
    BY <1>1, <1>2 DEF TypeOK
  <2>. QED  BY <1>0, <1>1, <1>2, <1>4, <1>5, <2>1 DEF TypeOK, receipts, deciding
<1>7. Selection'
  BY <1>1, <1>5 DEF SubInv, Selection, FinalIsNewest, IsNewest
<1>8. Windows'
  BY <1>1 DEF SubInv, Windows, EligibleStaysInWindow, receipts
<1>9. Fetches'
  <2>1. DoneIsCaptured'
    BY <1>1, <1>3, <1>4 DEF SubInv, Fetches, DoneIsCaptured
  <2>2. FinalWillBeCaptured'
    <3>. SUFFICES ASSUME NEW q \in Repo, closed[q], ~selected'[q], final'[q] # None
                  PROVE  \/ final'[q] \in captured[q]
                         \/ task'[q][final'[q]] \in {"absent", "pending", "leased", "failed"}
      BY <1>1 DEF FinalWillBeCaptured
    <3>1. q # r /\ final'[q] = final[q] /\ ~selected[q]
      BY <1>5
    <3>2. final[q] \in Stamp
      BY <1>2, <3>1 DEF TypeOK
    <3>3. task'[q][final[q]] = task[q][final[q]]
      BY <1>4, <3>1, <3>2
    <3>. QED  BY <3>1, <3>3 DEF SubInv, Fetches, FinalWillBeCaptured
  <2>3. \A q \in Repo, k \in Stamp :
           /\ fetch[q][k] # {} => task'[q][k] # "absent"
           /\ task'[q][k] # "absent" => k \in subs'[q]
    BY <1>3, <1>4, <1>5 DEF SubInv, Fetches
  <2>. QED  BY <1>1, <2>1, <2>2, <2>3 DEF Fetches
<1>10. Stamps'
  BY <1>1, <1>5 DEF SubInv, Stamps, receipts
<1>11. InOrder'
  <2>. SUFFICES ASSUME NEW q \in Repo, NEW k \in Stamp, ~late[q], ~selected'[q],
                       IsLastEligible(q, k)'
                PROVE  NewestHasCommitOf(q, k)'
    BY <1>1 DEF InOrder
  <2>1. q # r /\ subs'[q] = subs[q] /\ ~selected[q] /\ IsLastEligible(q, k)
    BY <1>1, <1>5 DEF IsLastEligible
  <2>. QED  BY <1>1, <2>1 DEF SubInv, InOrder, NewestHasCommitOf, IsNewest
<1>12. Locks'
  <2>1. \A q \in Repo : subs[q] \subseteq subs'[q]
    BY <1>5
  <2>2. ASSUME NEW t \in sched, NEW q \in Repo, NEW k \in Stamp, <<q, k>> \in t.cancel
        PROVE  /\ k \in subs'[q]
               /\ (\E j \in subs'[q] : j > k) \/ (t.of # None /\ t.of.repo = q)
    <3>1. k \in subs[q] /\ ((\E j \in subs[q] : j > k) \/ (t.of # None /\ t.of.repo = q))
      BY <2>2 DEF SubInv, Locks
    <3>. QED  BY <2>1, <3>1
  <2>. QED  BY <1>1, <2>2 DEF SubInv, receipts, Locks, InWindow
<1>. QED  BY <1>6, <1>7, <1>8, <1>9, <1>10, <1>11, <1>12 DEF SubInv

\* Every step keeps the invariant.
LEMMA SubStep == SubInv /\ [Next]_vars => SubInv'
<1>. SUFFICES ASSUME SubInv, [Next]_vars PROVE SubInv'
  OBVIOUS
<1>1. CASE UNCHANGED vars
  <2>1. UNCHANGED <<now, deadline, closed, final, review, events, subs, captured, task, fetch,
                    sched, admitted, inflight, closing, extending, selected, late, restored>>
    BY <1>1 DEF vars, repository, fetches, receipts, deciding, history
  <2>2. UNCHANGED <<Recorded, admitted, inflight, sched, restored>>
    BY <2>1 DEF Recorded, repository, fetches, deciding
  <2>. QED  BY <2>2, HandlersChange DEF SubInv, TypeOK, Windows, Stamps, Locks
<1>2. ASSUME NEW r \in Repo,
             \/ BranchDeleted(r) \/ BeginClose(r) \/ Close(r) \/ BeginExtend(r)
             \/ Admit(r) \/ Abandon(r)
      PROVE  SubInv'
  BY <1>2, ReviewInv, ClockInv, CloseInv, HandlerInv
<1>3. ASSUME NEW r \in Repo, NEW sha \in Sha, Push(r, sha) \/ Register(r, sha) \/ Reconcile(r, sha)
      PROVE  SubInv'
  BY <1>3, StampedInv, ReconcileInv
<1>4. ASSUME NEW r \in Repo, NEW n \in Stamp, Fetching(r, n) \/ ExtendFails(r, n) \/ Select(r, n)
      PROVE  SubInv'
  BY <1>4, FetchingInv, ClockInv, SelectInv
<1>5. ASSUME NEW r \in Repo, NEW p \in Stamp, NEW d \in Stamp, Extend(r, p, d) PROVE SubInv'
  BY <1>5, ExtendInv
<1>6. ASSUME NEW e \in Enrollment, StartRefill(e) PROVE SubInv'
  BY <1>6, StartInv
<1>7. ASSUME NEW m \in inflight, Begin(m) \/ Record(m) \/ StartRecord(m) \/ Drop(m) PROVE SubInv'
  BY <1>7, BeginInv, RecordInv, StartInv
<1>8. ASSUME NEW s \in sched,
             CountFetches(s) \/ FinishRefill(s) \/ FinishRecord(s) \/ DropRefill(s)
      PROVE  SubInv'
  <2>1. CASE FinishRecord(s)
    <3>1. s.of \in inflight
      BY <2>1 DEF FinishRecord, SubInv, Locks
    <3>. QED  BY <2>1, <3>1, RecordInv
  <2>. QED  BY <1>8, <2>1, CountInv, FinishRefillInv
<1>9. CASE FlagFailedFetches \/ Tick
  BY <1>9, ReviewInv, ClockInv
<1>. QED  BY <1>1, <1>2, <1>3, <1>4, <1>5, <1>6, <1>7, <1>8, <1>9 DEF Next

-----------------------------------------------------------------------------
(* Results.                                                                *)

\* The inductive invariant of receipts, captures and the final selection
\* (submissions.rs, routes.rs and the snapshot tasks of lifecycle.rs).
THEOREM SubmissionsInvariant == Spec => []SubInv
<1>1. Init => SubInv
  BY SubInitially
<1>2. SubInv /\ [Next]_vars => SubInv'
  BY SubStep
<1>. QED  BY <1>1, <1>2, PTL DEF Spec

\* Every row and every handler keeps its type.
THEOREM SubmissionTypes == Spec => []TypeOK
<1>1. SubInv => TypeOK
  BY DEF SubInv
<1>. QED  BY <1>1, SubmissionsInvariant, PTL

\* close freezes the newest submission: no record that was under way while it
\* committed adds one behind its back.
THEOREM SelectionIsFrozen == Spec => []FinalIsNewest
<1>1. SubInv => FinalIsNewest
  BY DEF SubInv, Selection
<1>. QED  BY <1>1, SubmissionsInvariant, PTL

\* A receipt that counted stays inside the window, whatever is extended.
THEOREM ReceiptsStayInWindow == Spec => []EligibleStaysInWindow
<1>1. SubInv => EligibleStaysInWindow
  BY DEF SubInv, Windows
<1>. QED  BY <1>1, SubmissionsInvariant, PTL

\* Recorded in order, the last eligible receipt decides which commit is final,
\* although record makes no second submission of the newest one's commit.
THEOREM LastReceiptIsFinal == Spec => []InOrderFreezesLastReceipt
<1>1. SubInv => InOrderFreezesLastReceipt
  <2>. SUFFICES ASSUME SubInv, NEW r \in Repo, NEW n \in Stamp,
                       closed[r], ~selected[r], ~late[r], IsLastEligible(r, n)
                PROVE  final[r] # None /\ events[r][final[r]].sha = events[r][n].sha
    BY DEF InOrderFreezesLastReceipt
  <2>1. PICK s \in subs[r] : IsNewest(subs[r], s) /\ events[r][s].sha = events[r][n].sha
    BY DEF SubInv, InOrder, NewestHasCommitOf
  <2>2. IsNewest(subs[r], final[r])
    BY DEF SubInv, Selection, FinalIsNewest
  <2>3. s \in Stamp /\ final[r] \in Stamp
    BY <2>2 DEF SubInv, TypeOK, IsNewest
  <2>4. s <= final[r] /\ final[r] <= s
    BY <2>1, <2>2 DEF IsNewest
  <2>5. s = final[r]
    BY <2>3, <2>4 DEF Stamp
  <2>. QED  BY <2>1, <2>3, <2>5, SubmissionsAssumption
<1>. QED  BY <1>1, SubmissionsInvariant, PTL

\* The fetch of the final submission is never left cancelled, and is done only
\* with the source.
THEOREM FinalSourceIsNotLost == Spec => []FinalWillBeCaptured
<1>1. SubInv => FinalWillBeCaptured
  BY DEF SubInv, Fetches
<1>. QED  BY <1>1, SubmissionsInvariant, PTL

\* A snapshot task that is done has stored its source.
THEOREM DoneMeansStored == Spec => []DoneIsCaptured
<1>1. SubInv => DoneIsCaptured
  BY DEF SubInv, Fetches
<1>. QED  BY <1>1, SubmissionsInvariant, PTL

\* A receipt leaves only by record or by failing, and record counts it or asks
\* for a review.
THEOREM PushesAreNeverSilent == Spec => WebhookNeverSilent
<1>1. SubInv /\ [Next]_vars =>
        [\A m \in inflight \ inflight' :
           /\ m.source = "webhook" /\ m.seen # None
           /\ events'[m.repo][m.at] # None
           /\ Opens <= m.at /\ m.at <= deadline[m.repo]
           => events'[m.repo][m.at].eligible \/ review'[m.repo]]_vars
  <2>. SUFFICES ASSUME SubInv, Next, NEW m \in inflight, m \notin inflight',
                       m.source = "webhook", m.seen # None,
                       events'[m.repo][m.at] # None,
                       Opens <= m.at, m.at <= deadline[m.repo]
                PROVE  events'[m.repo][m.at].eligible \/ review'[m.repo]
    BY DEF vars, receipts
  <2>1. events[m.repo][m.at] = None /\ m \in Receipt /\ m.repo \in Repo /\ m.at \in Stamp
    BY DEF SubInv, Stamps, TypeOK, Receipt
  <2>2. inflight' # inflight /\ ~(inflight \subseteq inflight') /\ events' # events
    BY <2>1
  <2>3. Record(m) \/ \E s \in sched : s.of = m /\ FinishRecord(s)
    <3>1. ASSUME NEW r \in Repo, NEW sha \in Sha, Push(r, sha) \/ Register(r, sha) PROVE FALSE
      BY <2>2, <3>1 DEF Push, Register, Stamped
    <3>2. ASSUME NEW r \in Repo, NEW sha \in Sha, Reconcile(r, sha) PROVE FALSE
      BY <2>2, <3>2 DEF Reconcile, receipts
    <3>3. ASSUME NEW r \in Repo, NEW n \in Stamp,
                 Fetching(r, n) \/ ExtendFails(r, n) \/ Select(r, n)
          PROVE  FALSE
      BY <2>2, <3>3
      DEF Fetching, StartFetch, Capture, FetchOutcome, LoseLease, StaleOutcome, ExhaustFetch,
          RetryFetch, ExtendFails, Select, receipts
    <3>4. ASSUME NEW r \in Repo,
                 \/ BranchDeleted(r) \/ BeginClose(r) \/ Close(r) \/ BeginExtend(r)
                 \/ Admit(r) \/ Abandon(r)
          PROVE  FALSE
      BY <2>2, <3>4 DEF BranchDeleted, BeginClose, Close, BeginExtend, Admit, Abandon, receipts
    <3>5. ASSUME NEW r \in Repo, NEW p \in Stamp, NEW d \in Stamp, Extend(r, p, d) PROVE FALSE
      BY <2>2, <3>5 DEF Extend, receipts
    <3>6. ASSUME NEW k \in inflight, Begin(k) \/ StartRecord(k) \/ Drop(k) PROVE FALSE
      BY <2>2, <3>6 DEF Begin, StartRecord, Drop, receipts
    <3>7. ASSUME NEW k \in inflight, Record(k) PROVE k = m
      BY <3>7 DEF Record, AddEvent
    <3>8. ASSUME NEW s \in sched, FinishRecord(s) PROVE s.of = m
      BY <3>8 DEF FinishRecord, AddEvent
    <3>9. ASSUME NEW s \in sched, CountFetches(s) \/ FinishRefill(s) \/ DropRefill(s) PROVE FALSE
      BY <2>2, <3>9 DEF CountFetches, FinishRefill, DropRefill, receipts
    <3>10. ASSUME NEW e \in Enrollment, StartRefill(e) PROVE FALSE
      BY <2>2, <3>10 DEF StartRefill, receipts
    <3>11. ~FlagFailedFetches /\ ~Tick
      BY <2>2 DEF FlagFailedFetches, Tick, receipts
    <3>. QED  BY <3>1, <3>2, <3>3, <3>4, <3>5, <3>6, <3>7, <3>8, <3>9, <3>10, <3>11 DEF Next
  <2>4. ASSUME NEW eligible \in BOOLEAN, AddEvent(m, eligible)
        PROVE  events'[m.repo][m.at].eligible = eligible
    <3>1. events'[m.repo][m.at] = [sha |-> m.sha, eligible |-> eligible]
      BY <2>1, <2>4 DEF AddEvent, SubInv, TypeOK
    <3>. QED  BY <3>1
  <2>5. CASE \E s \in sched : s.of = m /\ FinishRecord(s)
    <3>1. AddEvent(m, TRUE)
      BY <2>5 DEF FinishRecord
    <3>. QED  BY <2>4, <3>1
  <2>6. CASE Record(m)
    <3>1. AddEvent(m, Eligible(m)) /\ Eligible(m) \in BOOLEAN
      BY <2>6 DEF Record, Eligible, InWindow
    <3>2. CASE Eligible(m)
      BY <2>4, <3>1, <3>2
    <3>3. CASE ~Eligible(m)
      <4>1. m.at \in Int /\ m.seen \in Int
        BY <2>1 DEF Receipt, Stamp
      <4>2. closed[m.repo] \/ m.at > m.seen
        BY <3>3, <4>1 DEF Eligible, InWindow
      <4>3. NeedsReview(m)
        BY <4>2 DEF NeedsReview
      <4>4. review' = [review EXCEPT ![m.repo] = review[m.repo] \/ NeedsReview(m)]
        BY <2>6, <3>3 DEF Record
      <4>. QED  BY <2>1, <4>3, <4>4 DEF SubInv, TypeOK
    <3>. QED  BY <3>2, <3>3
  <2>. QED  BY <2>3, <2>5, <2>6
<1>. QED  BY <1>1, SubmissionsInvariant, PTL DEF Spec, WebhookNeverSilent

-----------------------------------------------------------------------------
(* The cap on active fetches.                                              *)

\* The active fetches of the enrollment that s has counted: those it is about
\* to cancel and those put back since are left out.
Active(s) ==
    {p \in (Repo \X Stamp) \ (s.cancel \cup restored) :
        EnrollmentOf[p[1]] = s.enrollment /\ FetchIsActive(p[1], p[2])}

\* A scheduling that has counted has counted them all.
Counted == \A s \in sched : s.active # None => Cardinality(Active(s)) <= s.active

LEMMA RowsAreFinite == IsFiniteSet(Repo \X Stamp)
<1>1. IsFiniteSet(Stamp)
  BY SubmissionsAssumption, FS_Interval DEF Stamp
<1>. QED  BY <1>1, SubmissionsAssumption, FS_Product

\* Nothing becomes active behind a count but what is put back.
LEMMA CountedStays ==
  ASSUME Counted, TypeOK,
         \A s \in sched' : s.active # None => s \in sched,
         \A s \in sched', q \in Repo, n \in Stamp :
            s.active # None /\ EnrollmentOf[q] = s.enrollment =>
              /\ <<q, n>> \in restored => <<q, n>> \in restored'
              /\ FetchIsActive(q, n)' => FetchIsActive(q, n) \/ <<q, n>> \in restored'
  PROVE  Counted'
<1>. SUFFICES ASSUME NEW s \in sched', s.active # None PROVE Cardinality(Active(s)') <= s.active
  BY DEF Counted
<1>1. Active(s)' \subseteq Active(s)
  BY DEF Active
<1>2. IsFiniteSet(Active(s))
  <2>1. Active(s) \subseteq Repo \X Stamp
    BY DEF Active
  <2>. QED  BY <2>1, RowsAreFinite, FS_Subset
<1>3. /\ Cardinality(Active(s)') <= Cardinality(Active(s))
      /\ Cardinality(Active(s)') \in Nat /\ Cardinality(Active(s)) \in Nat
  BY <1>1, <1>2, FS_Subset, FS_CardinalityType
<1>4. Cardinality(Active(s)) <= s.active /\ s.active \in Nat
  BY DEF Counted, TypeOK, Scheduling
<1>. QED  BY <1>3, <1>4

\* The count itself.
LEMMA CountIsRight ==
  ASSUME SubInv, Counted, NEW s \in sched, CountFetches(s)
  PROVE  Counted'
<1>. DEFINE active == {p \in Rows(s.enrollment, subs) \ s.cancel : Counts(p[1], p[2])}
<1>1. PICK t :
        /\ t = [s EXCEPT !.active = Cardinality(active)]
        /\ sched' = (sched \ {s}) \cup {t}
        /\ restored' = RestoredElsewhere(s.enrollment)
        /\ UNCHANGED task
  BY DEF CountFetches, fetches
<1>2. t.enrollment = s.enrollment /\ t.cancel = s.cancel /\ t.active = Cardinality(active)
  BY <1>1 DEF SubInv, TypeOK, Scheduling
<1>3. Cardinality(Active(t)') <= Cardinality(active)
  <2>1. Active(t)' \subseteq active
    <3>. SUFFICES ASSUME NEW q \in Repo, NEW n \in Stamp, <<q, n>> \notin s.cancel,
                         EnrollmentOf[q] = s.enrollment, task[q][n] \in {"pending", "leased"}
                  PROVE  <<q, n>> \in active
      BY <1>1, <1>2 DEF Active, FetchIsActive
    <3>1. n \in subs[q]
      BY DEF SubInv, Fetches
    <3>. QED  BY <3>1 DEF Rows, Counts
  <2>2. active \subseteq Repo \X Stamp
    BY DEF Rows
  <2>. HIDE DEF active
  <2>. QED  BY <2>1, <2>2, RowsAreFinite, FS_Subset
<1>. HIDE DEF active
<1>4. ASSUME NEW u \in sched, u # s, u.active # None
      PROVE  Cardinality(Active(u)') <= u.active
  <2>1. u.enrollment # s.enrollment
    BY <1>4 DEF SubInv, Locks
  <2>2. Active(u)' = Active(u)
    BY <1>1, <2>1 DEF Active, RestoredElsewhere, FetchIsActive
  <2>. QED  BY <1>4, <2>2 DEF Counted
<1>. QED  BY <1>1, <1>2, <1>3, <1>4 DEF Counted

LEMMA CountedFill ==
  ASSUME SubInv, Counted, NEW s \in sched, NEW S \in [Repo -> SUBSET Stamp], FillPlaces(s, S)
  PROVE  Counted'
<1>1. /\ \A q \in Repo, n \in Stamp :
              \/ task'[q][n] = task[q][n]
              \/ task'[q][n] = "cancelled" /\ <<q, n>> \in s.cancel
              \/ /\ task'[q][n] = "pending" /\ task[q][n] = "absent" /\ n \in S[q]
                 /\ EnrollmentOf[q] = s.enrollment
      /\ sched' = sched \ {s}
  BY FillChanges DEF SubInv
<1>2. \A t \in sched' : t.enrollment # s.enrollment
  BY <1>1 DEF SubInv, Locks
<1>3. \A q \in Repo, n \in Stamp :
         EnrollmentOf[q] # s.enrollment /\ <<q, n>> \in restored => <<q, n>> \in restored'
  BY DEF FillPlaces, RestoredElsewhere
<1>4. \A q \in Repo, n \in Stamp :
         EnrollmentOf[q] # s.enrollment /\ FetchIsActive(q, n)' => FetchIsActive(q, n)
  BY <1>1 DEF FetchIsActive
<1>. QED  BY <1>1, <1>2, <1>3, <1>4, CountedStays DEF SubInv

\* A step that changes the row of one task: a fetch that becomes active was
\* active, or is put back.
LEMMA CountedTask ==
  ASSUME SubInv, Counted, NEW r \in Repo, NEW n \in Stamp, UNCHANGED sched,
         \A q \in Repo, k \in Stamp : q # r \/ k # n => task'[q][k] = task[q][k],
         \/ UNCHANGED restored /\ (FetchIsActive(r, n) \/ ~FetchIsActive(r, n)')
         \/ PutBack(r, n)
  PROVE  Counted'
<1>1. \A q \in Repo, k \in Stamp : <<q, k>> \in restored => <<q, k>> \in restored'
  BY DEF PutBack
<1>2. ASSUME NEW s \in sched, s.active # None, NEW q \in Repo, NEW k \in Stamp,
             EnrollmentOf[q] = s.enrollment, FetchIsActive(q, k)'
      PROVE  FetchIsActive(q, k) \/ <<q, k>> \in restored'
  <2>1. CASE q = r /\ k = n
    BY <1>2, <2>1 DEF PutBack
  <2>2. CASE q # r \/ k # n
    BY <1>2, <2>2 DEF FetchIsActive
  <2>. QED  BY <2>1, <2>2
<1>. QED  BY <1>1, <1>2, CountedStays DEF SubInv

LEMMA CountedFetching ==
  ASSUME SubInv, Counted, NEW r \in Repo, NEW n \in Stamp, Fetching(r, n)
  PROVE  Counted'
<1>1. TypeOK
  BY DEF SubInv
<1>2. ASSUME NEW st, task' = [task EXCEPT ![r][n] = st]
      PROVE  /\ task'[r][n] = st
             /\ \A q \in Repo, k \in Stamp : q # r \/ k # n => task'[q][k] = task[q][k]
  BY <1>1, <1>2 DEF TypeOK
<1>3. CASE StartFetch(r, n)
  <2>1. /\ task' = [task EXCEPT ![r][n] = "leased"] /\ task[r][n] \in {"pending", "leased"}
        /\ UNCHANGED <<sched, restored>>
    BY <1>3 DEF StartFetch, history
  <2>. QED  BY <1>2, <2>1, CountedTask DEF FetchIsActive
<1>4. CASE FetchOutcome(r, n)
  <2>1. /\ \E st : task' = [task EXCEPT ![r][n] = st]
        /\ task[r][n] = "leased" /\ UNCHANGED <<sched, restored>>
    BY <1>4 DEF FetchOutcome, history
  <2>. QED  BY <1>2, <2>1, CountedTask DEF FetchIsActive
<1>5. CASE ExhaustFetch(r, n)
  <2>1. /\ task' = [task EXCEPT ![r][n] = "failed"] /\ task[r][n] = "leased"
        /\ UNCHANGED <<sched, restored>>
    BY <1>5 DEF ExhaustFetch, history
  <2>. QED  BY <1>2, <2>1, CountedTask DEF FetchIsActive
<1>6. CASE RetryFetch(r, n)
  <2>1. task' = [task EXCEPT ![r][n] = "pending"] /\ PutBack(r, n) /\ UNCHANGED sched
    BY <1>6 DEF RetryFetch
  <2>. QED  BY <1>2, <2>1, CountedTask
<1>7. CASE Capture(r, n) \/ LoseLease(r, n) \/ StaleOutcome(r, n)
  <2>1. UNCHANGED <<task, sched, restored>>
    BY <1>7 DEF Capture, LoseLease, StaleOutcome, fetches, history
  <2>. QED  BY <1>1, <2>1, CountedStays DEF FetchIsActive
<1>. QED  BY <1>3, <1>4, <1>5, <1>6, <1>7 DEF Fetching

LEMMA CountedStep == SubInv /\ Counted /\ [Next]_vars => Counted'
<1>. SUFFICES ASSUME SubInv, Counted, [Next]_vars PROVE Counted'
  OBVIOUS
<1>0. TypeOK
  BY DEF SubInv
<1>1. ASSUME UNCHANGED <<task, sched, restored>> PROVE Counted'
  BY <1>0, <1>1, CountedStays DEF FetchIsActive
<1>2. CASE UNCHANGED vars
  BY <1>1, <1>2 DEF vars, fetches, history
<1>3. ASSUME NEW r \in Repo,
             BranchDeleted(r) \/ BeginClose(r) \/ BeginExtend(r) \/ Admit(r) \/ Abandon(r)
      PROVE  Counted'
  BY <1>1, <1>3 DEF BranchDeleted, BeginClose, BeginExtend, Admit, Abandon, fetches, history
<1>4. ASSUME NEW r \in Repo, Close(r) PROVE Counted'
  <2>1. CASE UNCHANGED <<task, restored>>
    BY <1>1, <1>4, <2>1 DEF Close
  <2>2. ASSUME NEW n \in subs[r], task' = [task EXCEPT ![r][n] = "pending"], PutBack(r, n)
        PROVE  Counted'
    <3>1. n \in Stamp /\ UNCHANGED sched
      BY <1>0, <1>4 DEF TypeOK, Close
    <3>2. \A q \in Repo, k \in Stamp : q # r \/ k # n => task'[q][k] = task[q][k]
      BY <1>0, <2>2, <3>1 DEF TypeOK
    <3>. QED  BY <2>2, <3>1, <3>2, CountedTask
  <2>. QED  BY <1>4, <2>1, <2>2 DEF Close
<1>5. ASSUME NEW r \in Repo, NEW n \in Stamp, Select(r, n) PROVE Counted'
  <2>1. CASE UNCHANGED <<task, restored>>
    BY <1>1, <1>5, <2>1 DEF Select
  <2>2. CASE task' = [task EXCEPT ![r][n] = "pending"] /\ PutBack(r, n)
    <3>1. UNCHANGED sched
      BY <1>5 DEF Select
    <3>2. \A q \in Repo, k \in Stamp : q # r \/ k # n => task'[q][k] = task[q][k]
      BY <1>0, <2>2 DEF TypeOK
    <3>. QED  BY <2>2, <3>1, <3>2, CountedTask
  <2>. QED  BY <1>5, <2>1, <2>2 DEF Select
<1>6. ASSUME NEW r \in Repo, NEW sha \in Sha, Push(r, sha) \/ Register(r, sha) \/ Reconcile(r, sha)
      PROVE  Counted'
  BY <1>1, <1>6 DEF Push, Register, Stamped, Reconcile, fetches, history
<1>7. ASSUME NEW r \in Repo, NEW n \in Stamp,
             ExtendFails(r, n) \/ \E d \in Stamp : Extend(r, n, d)
      PROVE  Counted'
  BY <1>1, <1>7 DEF ExtendFails, Extend, fetches, history
<1>8. ASSUME \/ \E e \in Enrollment : StartRefill(e)
             \/ \E m \in inflight : StartRecord(m)
      PROVE  Counted'
  <2>1. PICK e, S, of : StartSchedule(e, S, of) /\ UNCHANGED <<task, restored>>
    BY <1>8 DEF StartRefill, StartRecord, fetches, history
  <2>2. \A s \in sched' : s.active # None => s \in sched
    BY <2>1 DEF StartSchedule
  <2>. QED  BY <1>0, <2>1, <2>2, CountedStays DEF FetchIsActive
<1>9. ASSUME NEW m \in inflight, Begin(m) \/ Record(m) PROVE Counted'
  BY <1>1, <1>9 DEF Begin, Record, fetches, history
<1>10. ASSUME NEW m \in inflight, Drop(m) PROVE Counted'
  <2>1. UNCHANGED task /\ sched' = {s \in sched : s.of # m}
    BY <1>10 DEF Drop, fetches
  <2>2. ASSUME NEW s \in sched', NEW q \in Repo, NEW n \in Stamp,
               EnrollmentOf[q] = s.enrollment, <<q, n>> \in restored
        PROVE  <<q, n>> \in restored'
    <3>1. CASE \A t \in sched : t.of # m
      BY <1>10, <2>2, <3>1 DEF Drop
    <3>2. ASSUME NEW t \in sched, t.of = m PROVE <<q, n>> \in restored'
      <4>1. m # None
        BY <1>0, SubmissionsAssumption DEF TypeOK
      <4>2. t.enrollment = EnrollmentOf[m.repo]
        BY <3>2, <4>1 DEF SubInv, Locks
      <4>3. s.enrollment # EnrollmentOf[m.repo]
        BY <2>1, <3>2, <4>2 DEF SubInv, Locks
      <4>4. restored' = RestoredElsewhere(EnrollmentOf[m.repo])
        BY <1>10, <3>2 DEF Drop
      <4>. QED  BY <2>2, <4>3, <4>4 DEF RestoredElsewhere
    <3>. QED  BY <3>1, <3>2
  <2>. QED  BY <1>0, <2>1, <2>2, CountedStays DEF FetchIsActive
<1>11. ASSUME NEW s \in sched, FinishRefill(s) \/ FinishRecord(s) PROVE Counted'
  <2>1. PICK S : FillPlaces(s, S) /\ S \in [Repo -> SUBSET Stamp]
    <3>1. CASE FinishRefill(s)
      BY <1>0, <3>1 DEF FinishRefill, TypeOK
    <3>2. CASE FinishRecord(s)
      <4>1. s.of \in Receipt
        BY <1>0, <3>2 DEF FinishRecord, TypeOK, Scheduling
      <4>2. subs' \in [Repo -> SUBSET Stamp]
        BY <1>0, <3>2, <4>1 DEF FinishRecord, TypeOK, Receipt
      <4>. QED  BY <3>2, <4>2 DEF FinishRecord
    <3>. QED  BY <1>11, <3>1, <3>2
  <2>. QED  BY <2>1, CountedFill
<1>12. ASSUME NEW s \in sched, DropRefill(s) PROVE Counted'
  <2>1. /\ UNCHANGED task /\ sched' = sched \ {s}
        /\ restored' = RestoredElsewhere(s.enrollment)
    BY <1>12 DEF DropRefill, fetches
  <2>2. \A t \in sched' : t.enrollment # s.enrollment
    BY <2>1 DEF SubInv, Locks
  <2>3. \A t \in sched', q \in Repo, n \in Stamp :
           EnrollmentOf[q] = t.enrollment /\ <<q, n>> \in restored => <<q, n>> \in restored'
    BY <2>1, <2>2 DEF RestoredElsewhere
  <2>. QED  BY <1>0, <2>1, <2>3, CountedStays DEF FetchIsActive
<1>13. CASE FlagFailedFetches \/ Tick
  BY <1>1, <1>13 DEF FlagFailedFetches, Tick, fetches, history
<1>. QED
  BY <1>2, <1>3, <1>4, <1>5, <1>6, <1>7, <1>8, <1>9, <1>10, <1>11, <1>12, <1>13, CountedFetching,
     CountIsRight
  DEF Next

\* No scheduling adds fetches on a count that has become too low, but for the
\* fetches that are put back after it.
THEOREM CountsStayRight == Spec => []Counted
<1>1. Init => Counted
  BY DEF Init, Counted
<1>. QED  BY <1>1, CountedStep, SubmissionsInvariant, PTL DEF Spec

\* The least of two numbers.
LEMMA MinOfTwo == ASSUME NEW a \in Nat, NEW b \in Nat PROVE Min({a, b}) <= a
<1>. DEFINE P(x) == \A y \in {a, b} : x <= y
<1>1. \E x \in {a, b} : P(x)
  <2>1. CASE a <= b
    BY <2>1
  <2>2. CASE ~(a <= b)
    BY <2>2
  <2>. QED  BY <2>1, <2>2
<1>2. P(CHOOSE x \in {a, b} : P(x))
  BY <1>1
<1>. QED  BY <1>2 DEF Min

\* schedule_snapshots adds fetches only up to the limit of the enrollment:
\* what is active then was counted, is put back, or is new.
LEMMA ScheduleFillsUp ==
  ASSUME SubInv, Counted, NEW s \in sched, NEW S \in [Repo -> SUBSET Stamp], FillPlaces(s, S),
         NEW q \in Repo, NEW n \in Stamp, task[q][n] = "absent", task'[q][n] = "pending"
  PROVE  Cardinality({p \in (Repo \X Stamp) \ restored :
                         EnrollmentOf[p[1]] = EnrollmentOf[q] /\ FetchIsActive(p[1], p[2])'})
           <= MaxActive
<1>. DEFINE wanted == {p \in Rows(s.enrollment, S) : Wanted(S[p[1]], p[1], p[2])}
            free == IF s.active < MaxActive THEN MaxActive - s.active ELSE 0
            after == {p \in (Repo \X Stamp) \ restored :
                         EnrollmentOf[p[1]] = EnrollmentOf[q] /\ FetchIsActive(p[1], p[2])'}
<1>1. PICK new \in SUBSET wanted :
        /\ Cardinality(new) = Min({free, Cardinality(wanted)})
        /\ task' = [k \in Repo |-> [j \in Stamp |->
                      IF <<k, j>> \in s.cancel THEN "cancelled"
                      ELSE IF <<k, j>> \in new THEN "pending"
                      ELSE task[k][j]]]
  BY DEF FillPlaces
<1>2. <<q, n>> \in new
  <2>. HIDE DEF wanted
  <2>. QED  BY <1>1
<1>3. EnrollmentOf[q] = s.enrollment
  BY <1>1, <1>2 DEF Rows
<1>4. after \subseteq Active(s) \cup new
  <2>. SUFFICES ASSUME NEW k \in Repo, NEW j \in Stamp, EnrollmentOf[k] = s.enrollment,
                       task'[k][j] \in {"pending", "leased"}, <<k, j>> \notin new,
                       <<k, j>> \notin restored
                PROVE  <<k, j>> \in Active(s)
    BY <1>3 DEF FetchIsActive
  <2>1. <<k, j>> \notin s.cancel /\ task'[k][j] = task[k][j]
    <3>. HIDE DEF wanted
    <3>. QED  BY <1>1
  <2>. QED  BY <2>1 DEF Active, FetchIsActive
<1>5. Active(s) \subseteq Repo \X Stamp /\ wanted \subseteq Repo \X Stamp /\ new \subseteq wanted
  BY <1>1 DEF Active, Rows
<1>. HIDE DEF wanted, after
<1>6. IsFiniteSet(Active(s)) /\ IsFiniteSet(wanted) /\ IsFiniteSet(new)
  BY <1>5, RowsAreFinite, FS_Subset
<1>7. /\ Cardinality(Active(s)) \in Nat /\ Cardinality(wanted) \in Nat /\ Cardinality(new) \in Nat
      /\ MaxActive \in Nat
  BY <1>6, FS_CardinalityType, SubmissionsAssumption
<1>8. s.active \in Nat /\ Cardinality(Active(s)) <= s.active
  BY DEF FillPlaces, SubInv, TypeOK, Scheduling, Counted
<1>9. free \in Nat
  BY <1>7, <1>8
<1>10. Cardinality(new) <= free
  <2>. HIDE DEF free
  <2>. QED  BY <1>1, <1>7, <1>9, MinOfTwo
<1>11. Cardinality(new) # 0
  BY <1>2, <1>6, FS_EmptySet
<1>12. Cardinality(Active(s)) + Cardinality(new) <= MaxActive
  BY <1>7, <1>8, <1>10, <1>11
<1>13. /\ IsFiniteSet(Active(s) \cup new) /\ Cardinality(Active(s) \cup new) \in Nat
       /\ Cardinality(Active(s) \cup new) <= Cardinality(Active(s)) + Cardinality(new)
  <2>1. /\ IsFiniteSet(Active(s) \cup new)
        /\ Cardinality(Active(s) \cup new) =
             Cardinality(Active(s)) + Cardinality(new) - Cardinality(Active(s) \cap new)
    BY <1>6, FS_Union
  <2>2. Cardinality(Active(s) \cap new) \in Nat /\ Cardinality(Active(s) \cup new) \in Nat
    BY <1>6, <2>1, FS_Intersection, FS_CardinalityType
  <2>. QED  BY <1>7, <2>1, <2>2
<1>14. Cardinality(after) <= Cardinality(Active(s) \cup new) /\ Cardinality(after) \in Nat
  BY <1>4, <1>13, FS_Subset, FS_CardinalityType
<1>15. Cardinality(after) <= MaxActive
  BY <1>7, <1>12, <1>13, <1>14
<1>. QED  BY <1>15 DEF after

\* Only schedule_snapshots and an operator's selection add a fetch; the first
\* stays within the limit of the enrollment, as far as its count goes.
THEOREM FetchesStayUnderTheCap == Spec => ScheduleRespectsCap
<1>1. SubInv /\ Counted /\ [Next]_vars =>
        [\A r \in Repo, n \in Stamp :
           task[r][n] = "absent" /\ task'[r][n] = "pending" /\ n # final'[r]
           => Cardinality({p \in (Repo \X Stamp) \ restored :
                              EnrollmentOf[p[1]] = EnrollmentOf[r] /\ FetchIsActive(p[1], p[2])'})
                <= MaxActive]_vars
  <2>. SUFFICES ASSUME SubInv, Counted, Next, NEW q \in Repo, NEW n \in Stamp,
                       task[q][n] = "absent", task'[q][n] = "pending", n # final'[q]
                PROVE  Cardinality({p \in (Repo \X Stamp) \ restored :
                              EnrollmentOf[p[1]] = EnrollmentOf[q] /\ FetchIsActive(p[1], p[2])'})
                         <= MaxActive
    BY DEF vars, fetches
  <2>1. TypeOK /\ task' # task
    BY DEF SubInv
  <2>2. ASSUME NEW r \in Repo, NEW k \in Stamp, NEW st,
               task' = [task EXCEPT ![r][k] = st]
        PROVE  r = q /\ k = n /\ st = "pending"
    BY <2>1, <2>2 DEF TypeOK
  <2>3. ASSUME NEW r \in Repo, NEW k \in Stamp, Fetching(r, k) PROVE FALSE
    <3>1. CASE StartFetch(r, k) \/ FetchOutcome(r, k)
      BY <2>2, <3>1 DEF StartFetch, FetchOutcome
    <3>2. CASE ExhaustFetch(r, k) \/ RetryFetch(r, k)
      BY <2>2, <3>2 DEF ExhaustFetch, RetryFetch
    <3>3. CASE Capture(r, k) \/ LoseLease(r, k) \/ StaleOutcome(r, k)
      BY <2>1, <3>3 DEF Capture, LoseLease, StaleOutcome, fetches
    <3>. QED  BY <2>3, <3>1, <3>2, <3>3 DEF Fetching
  <2>4. ASSUME NEW r \in Repo, Close(r) PROVE FALSE
    <3>1. PICK k \in subs[r] : /\ task[r][k] \in {"failed", "cancelled"}
                               /\ task' = [task EXCEPT ![r][k] = "pending"]
      BY <2>1, <2>4 DEF Close
    <3>2. k \in Stamp
      BY <2>1 DEF TypeOK
    <3>. QED  BY <2>2, <3>1, <3>2
  <2>5. ASSUME NEW r \in Repo, NEW k \in Stamp, Select(r, k) PROVE FALSE
    <3>1. r = q /\ k = n
      BY <2>1, <2>2, <2>5 DEF Select
    <3>. QED  BY <2>1, <2>5, <3>1 DEF Select, TypeOK
  <2>6. ASSUME NEW r \in Repo, NEW k \in Stamp,
               ExtendFails(r, k) \/ \E d \in Stamp : Extend(r, k, d)
        PROVE  FALSE
    BY <2>1, <2>6 DEF ExtendFails, Extend, fetches
  <2>7. ASSUME NEW r \in Repo,
               BranchDeleted(r) \/ BeginClose(r) \/ BeginExtend(r) \/ Admit(r) \/ Abandon(r)
        PROVE  FALSE
    BY <2>1, <2>7 DEF BranchDeleted, BeginClose, BeginExtend, Admit, Abandon, fetches
  <2>8. ASSUME NEW r \in Repo, NEW sha \in Sha,
               Push(r, sha) \/ Register(r, sha) \/ Reconcile(r, sha)
        PROVE  FALSE
    BY <2>1, <2>8 DEF Push, Register, Reconcile, Stamped, fetches
  <2>9. ASSUME NEW m \in inflight, Begin(m) \/ Record(m) \/ StartRecord(m) \/ Drop(m) PROVE FALSE
    BY <2>1, <2>9 DEF Begin, Record, StartRecord, Drop, fetches
  <2>10. ASSUME NEW e \in Enrollment, StartRefill(e) PROVE FALSE
    BY <2>1, <2>10 DEF StartRefill, fetches
  <2>11. ~FlagFailedFetches /\ ~Tick
    BY <2>1 DEF FlagFailedFetches, Tick, fetches
  <2>12. ASSUME NEW s \in sched, CountFetches(s) \/ DropRefill(s) PROVE FALSE
    BY <2>1, <2>12 DEF CountFetches, DropRefill, fetches
  <2>13. PICK s \in sched : FinishRefill(s) \/ FinishRecord(s)
    BY <2>3, <2>4, <2>5, <2>6, <2>7, <2>8, <2>9, <2>10, <2>11, <2>12 DEF Next
  <2>14. PICK S : FillPlaces(s, S) /\ S \in [Repo -> SUBSET Stamp]
    <3>1. CASE FinishRefill(s)
      BY <2>1, <3>1 DEF FinishRefill, TypeOK
    <3>2. CASE FinishRecord(s)
      <4>1. s.of \in Receipt
        BY <2>1, <3>2 DEF FinishRecord, TypeOK, Scheduling
      <4>2. subs' \in [Repo -> SUBSET Stamp]
        BY <2>1, <3>2, <4>1 DEF FinishRecord, TypeOK, Receipt
      <4>. QED  BY <3>2, <4>2 DEF FinishRecord
    <3>. QED  BY <2>13, <3>1, <3>2
  <2>. QED  BY <2>14, ScheduleFillsUp
<1>. QED  BY <1>1, SubmissionsInvariant, CountsStayRight, PTL DEF Spec, ScheduleRespectsCap
=============================================================================
