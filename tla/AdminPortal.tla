----------------------------- MODULE AdminPortal -----------------------------
(***************************************************************************)
(* The administrator portal: the table admin_operations, the web handlers  *)
(* that fill it and confirm its rows (crates/web/src/admin.rs,             *)
(* crates/store/src/admin.rs), and the privileged dispatcher that          *)
(* validates and applies them (crates/cli/src/admin_portal.rs).            *)
(*                                                                         *)
(* One action is one SQL transaction or one step of a dispatcher between   *)
(* two of them.  A record of the database is a version number: every       *)
(* committed change raises it, 0 is a record that does not exist.  Unfit   *)
(* says which versions fail the checks an action makes on the record it is *)
(* about (another organization, a deadline that is not later, a task that  *)
(* has not failed, ...).  The administrators are kept as they are.         *)
(*                                                                         *)
(* Time passes as it likes: a ready operation may turn out to be older than *)
(* fifteen minutes at any moment, and then nobody confirms it.  Left out:   *)
(* the wording of reports, and the limit of 60 submissions an hour and the  *)
(* end of a session, which can only refuse more.                           *)
(***************************************************************************)
EXTENDS Naturals, FiniteSets

CONSTANTS Op,           \* operation ids
          Account,      \* GitHub accounts
          Session,      \* browser sessions
          OwnerOf,      \* the account of each session
          Dispatcher,   \* processes that run gradingctl admin-work
          None,         \* SQL NULL
          Offered,      \* the actions that are submitted
          Unfit,        \* pairs of an action and a version it refuses
          MaxActive,    \* operations of one administrator at work (4)
          SweepSteps,   \* transactions of an action that has several
          MaxElsewhere, \* bound: changes by other programs
          MaxFaults     \* bound: crashes and lost lock connections

Imports == {"course", "roster"}
CatalogActions == {"exercises", "exercise_add", "exercise_update"}
GradeActions == {"extension", "override", "regrade", "select_submission",
                 "retry_private", "retry_task"}
WorkerActions == {"worker_register", "worker_revoke"}
\* admin_recover is admin_revoke with the recovery override.
Membership == {"admin_grant", "admin_revoke", "admin_recover"}
ReadOnly == {"admin_list", "exercise_show", "export"}
Sweeps == {"private_grade", "sync", "work", "migrate"}
Action == Imports \cup CatalogActions \cup GradeActions \cup WorkerActions
            \cup Membership \cup ReadOnly \cup Sweeps

\* The record an action changes or, if it only reads, shows.
Target(a) ==
    CASE a = "course" -> "course"
      [] a = "roster" -> "roster"
      [] a \in CatalogActions \cup {"exercise_show"} -> "exercise"
      [] a \in {"extension", "override", "select_submission"} -> "repository"
      [] a \in {"regrade", "retry_private", "private_grade"} -> "run"
      [] a \in {"retry_task", "work", "sync"} -> "task"
      [] a \in WorkerActions -> "worker"
      [] a \in Membership \cup {"admin_list"} -> "admins"
      [] a = "export" -> "course"
      [] a = "migrate" -> "schema"

\* snapshot: the records an action reads at validation and once more before
\* it is applied.  The catalog actions read none: they compare the catalog.
Reads(a) ==
    CASE a = "roster" -> {"course", "roster"}
      [] a \in CatalogActions \cup Membership \cup {"admin_list"} -> {}
      [] a = "regrade" -> {"submission", "repository"}
      [] a = "select_submission" -> {"submission", "repository"}
      [] a \in {"exercise_show", "private_grade"} -> {"exercise", "repository"}
      [] a \in {"sync", "work"} -> {"course"}
      [] OTHER -> {Target(a)}

Record == {"admins"} \cup UNION {Reads(a) \cup {Target(a)} : a \in Offered}

ASSUME PortalAssumption ==
    /\ Offered \subseteq Action
    /\ Account # {}
    /\ OwnerOf \in [Session -> Account]
    /\ None \notin Op /\ None \notin Account
    /\ None \notin Session /\ None \notin Dispatcher
    /\ Unfit \subseteq Action \X Nat
    /\ MaxActive \in Nat \ {0} /\ SweepSteps \in Nat \ {0}
    /\ MaxElsewhere \in Nat /\ MaxFaults \in Nat
    /\ IsFiniteSet(Op)

VARIABLES
    op,       \* admin_operations
    disp,     \* where each dispatcher is
    lock,     \* the dispatcher whose connection holds advisory lock 704321
    admins,   \* the table admins
    changing, \* transactions of admin_change that hold lock 704311 and have
              \* counted the administrators, but not yet committed
    rec,      \* versions of the other records
    done,     \* history: transactions each operation has committed
    picked,   \* history: what an operation's records were when it was picked
              \* to be applied; for a catalog, when it was replaced
    outlived, \* history: a dispatcher went on without its lock
    faults,   \* crashes and lost connections so far
    elsewhere \* changes by other programs so far

database == <<admins, changing, rec>>
history == <<done, picked, outlived>>
bounds == <<faults, elsewhere>>
vars == <<op, disp, lock, database, history, bounds>>

Busy == {"pending_validation", "validating", "queued", "applying"}
State == Busy \cup {"absent", "ready", "succeeded", "failed", "uncertain", "expired"}

NoPlan == [before |-> None, catalog |-> None, token |-> None]
NoOp == [state |-> "absent", session |-> None, action |-> None, subject |-> None,
         plan |-> NoPlan, denied |-> FALSE]
Off == [pc |-> "off", op |-> None, plan |-> NoPlan, left |-> 0, expected |-> None]
Looping == [pc |-> "idle", op |-> None, plan |-> NoPlan, left |-> 0, expected |-> None]

Init ==
    /\ op = [o \in Op |-> NoOp]
    /\ disp = [d \in Dispatcher |-> Off]
    /\ lock = None
    /\ admins = Account
    /\ changing = {}
    /\ rec = [r \in Record |-> 1]
    /\ done = [o \in Op |-> 0]
    /\ picked = [o \in Op |-> None]
    /\ outlived = FALSE
    /\ faults = 0
    /\ elsewhere = 0

\* What the rows an action looks at contain now.
Rows(a) == [r \in Reads(a) |-> rec[r]]

Snapshot(a) ==
    <<Rows(a), IF a \in Membership \cup {"admin_list"} THEN admins ELSE {}>>

Catalog(a) == IF a \in CatalogActions THEN rec["exercise"] ELSE None

\* How many transactions applying an action commits.  A regrade commits its
\* audit row before the run; a sweep commits one transaction per record.
Steps(a) ==
    CASE a \in ReadOnly -> 0
      [] a = "regrade" -> 2
      [] a \in Sweeps -> SweepSteps
      [] OTHER -> 1

ActorOf(o) == OwnerOf[op[o].session]

-----------------------------------------------------------------------------
(* The web service.                                                        *)

\* operations::submit counts and inserts under the account's advisory lock.
MaySubmit(s) ==
    /\ OwnerOf[s] \in admins
    /\ Cardinality({p \in Op : /\ op[p].state \in Busy
                               /\ ActorOf(p) = OwnerOf[s]}) < MaxActive

\* validate, and retry, which sends the input of an earlier operation again.
Submit(o, s, a, who) ==
    /\ op[o].state = "absent"
    /\ (who # None) <=> (a \in Membership)
    /\ MaySubmit(s)
    /\ op' = [op EXCEPT ![o] = [state |-> "pending_validation", session |-> s, action |-> a,
                                subject |-> who, plan |-> NoPlan, denied |-> FALSE]]
    /\ UNCHANGED <<disp, lock, database, history, bounds>>

\* confirm_admin_operation: the session that submitted the operation sends
\* the token of the plan it was shown, in time.
IsConfirmable(o, s, t) ==
    /\ op[o].session = s
    /\ op[o].state = "ready"
    /\ op[o].plan.token = t
    /\ OwnerOf[s] \in admins

Confirm(o, s, t) ==
    /\ IsConfirmable(o, s, t)
    /\ op' = [op EXCEPT ![o].state = "queued"]
    /\ UNCHANGED <<disp, lock, database, history, bounds>>

-----------------------------------------------------------------------------
(* The dispatcher's loop (work).                                           *)

At(d, pc) == disp' = [disp EXCEPT ![d].pc = pc]

\* Mutants: an interrupted application starts over with its validation, an
\* interrupted validation is forgotten.
RevalidateOnStart(state) ==
    IF state \in {"validating", "applying"} THEN "pending_validation" ELSE state
ForgetOnStart(state) == IF state = "applying" THEN "uncertain" ELSE state

\* What a new dispatcher makes of the operations a former one left behind.
OnStart(state) ==
    CASE state = "validating" -> "pending_validation"
      [] state = "applying" -> "uncertain"
      [] OTHER -> state

\* The process gets the advisory lock or ends.
Start(d) ==
    /\ disp[d].pc = "off"
    /\ lock = None
    /\ lock' = d
    /\ At(d, "idle")
    /\ op' = [o \in Op |-> [op[o] EXCEPT !.state = OnStart(@)]]
    /\ UNCHANGED <<database, history, bounds>>

\* The top of the loop: the lock connection answers, and the validations
\* that are fifteen minutes old expire.
Poll(d) ==
    /\ disp[d].pc = "idle"
    /\ lock = d
    /\ At(d, "polling")
    /\ \E late \in SUBSET {o \in Op : op[o].state = "ready"} :
         op' = [o \in Op |-> IF o \in late THEN [op[o] EXCEPT !.state = "expired"]
                                           ELSE op[o]]
    /\ UNCHANGED <<lock, database, history, bounds>>

\* SKIP LOCKED: any waiting operation may come first.
Pick(d, o) ==
    /\ disp[d].pc = "polling"
    /\ \/ /\ op[o].state = "pending_validation"
          /\ op' = [op EXCEPT ![o].state = "validating"]
          /\ disp' = [disp EXCEPT ![d] = [pc |-> "validating", op |-> o, plan |-> NoPlan,
                                          left |-> 0, expected |-> None]]
          /\ UNCHANGED picked
       \/ /\ op[o].state = "queued"
          /\ op' = [op EXCEPT ![o].state = "applying"]
          /\ disp' = [disp EXCEPT ![d] = [pc |-> "applying", op |-> o, plan |-> op[o].plan,
                                          left |-> 0, expected |-> None]]
          /\ picked' = [picked EXCEPT ![o] = <<Rows(op[o].action),
                                               Catalog(op[o].action)>>]
    /\ UNCHANGED <<lock, database, done, outlived, bounds>>

FindNothing(d) ==
    /\ disp[d].pc = "polling"
    /\ \A o \in Op : op[o].state \notin {"pending_validation", "queued"}
    /\ At(d, "idle")
    /\ UNCHANGED <<op, lock, database, history, bounds>>

\* process, or the heartbeat beside it, finds that the administrator is none
\* any more.
Working(d) == disp[d].pc \notin {"off", "idle", "polling", "failing_validation", "failing"}

Failing(d) ==
    At(d, IF disp[d].pc \in {"validating", "storing"}
          THEN "failing_validation" ELSE "failing")

NotAuthorized(d) ==
    /\ Working(d)
    /\ ActorOf(disp[d].op) \notin admins
    /\ Failing(d)
    /\ UNCHANGED <<op, lock, database, history, bounds>>

\* GitHub, the cache builder or the database answers with an error.
StepFails(d) ==
    /\ Working(d)
    /\ Failing(d)
    /\ UNCHANGED <<op, lock, database, history, bounds>>

\* The statement that records a failure does not look at the state.
RecordFailure(d) ==
    /\ disp[d].pc \in {"failing_validation", "failing"}
    /\ op' = [op EXCEPT ![disp[d].op] =
                 [state |-> "failed", session |-> @.session, action |-> @.action,
                  subject |-> @.subject, plan |-> @.plan,
                  denied |-> disp[d].pc = "failing_validation"]]
    /\ disp' = [disp EXCEPT ![d] = Looping]
    /\ UNCHANGED <<lock, database, history, bounds>>

\* The ping of the lock connection fails, at the top of the loop or beside
\* an operation: the process ends.
NoticeLostLock(d) ==
    /\ disp[d].pc # "off"
    /\ lock # d
    /\ disp' = [disp EXCEPT ![d] = Off]
    /\ UNCHANGED <<op, lock, database, history, bounds>>

\* Mutant: the lock stays with a connection nobody uses, as in a pool.
CrashKeepsLock(d) ==
    /\ faults < MaxFaults
    /\ disp[d].pc # "off"
    /\ faults' = faults + 1
    /\ disp' = [disp EXCEPT ![d] = Off]
    /\ UNCHANGED <<op, lock, database, history, elsewhere>>

\* The process dies; its connection closes and frees the lock.
Crash(d) ==
    /\ faults < MaxFaults
    /\ disp[d].pc # "off"
    /\ faults' = faults + 1
    /\ disp' = [disp EXCEPT ![d] = Off]
    /\ lock' = IF lock = d THEN None ELSE lock
    /\ UNCHANGED <<op, database, history, elsewhere>>

\* The database drops the lock connection; the process has yet to notice.
LoseLock(d) ==
    /\ faults < MaxFaults
    /\ disp[d].pc # "off"
    /\ lock = d
    /\ faults' = faults + 1
    /\ lock' = None
    /\ outlived' = TRUE
    /\ UNCHANGED <<op, disp, database, done, picked, elsewhere>>

-----------------------------------------------------------------------------
(* Validation (process and prepare).                                       *)

\* first: the row the action names is there (a roster may still be empty).
Exists(a) == \A r \in Reads(a) \ {"roster"} : rec[r] > 0

\* The checks on what the row holds; a regrade looks at the submission's
\* source, private grading at the graders of the repositories.
Fit(a) ==
    LET checked == CASE a = "regrade" -> "submission"
                     [] a = "private_grade" -> "repository"
                     [] OTHER -> Target(a)
    IN <<a, rec[checked]>> \notin Unfit

\* apply_course: a course keeps the GitHub organization it has.
CourseFits == Fit("course")
\* import_roster: no student changes identity, no account is used twice.
RosterFits == Fit("roster")

\* The import runs and is rolled back; a roster needs its course.
AcceptsImport(a) ==
    /\ a = "course" => CourseFits
    /\ a = "roster" => Exists(a) /\ RosterFits

\* exercises::prepare: template and grader are fetched at their commits and
\* give a valid revision of an exercise of this course.
ExerciseFits(a) == Fit(a)

\* The definitions are prepared and pinned; add and update differ in whether
\* the exercise must be new.
AcceptsCatalog(a) ==
    /\ ExerciseFits(a)
    /\ a = "exercise_add" => rec["exercise"] = 0
    /\ a = "exercise_update" => rec["exercise"] > 0

\* The record exists and passes the checks of the action.
AcceptsGrade(a) == Exists(a) /\ Fit(a)

\* An administrator remains when this one is revoked.  With the recovery
\* override nobody asks.
KeepsAnAdmin(a, who) == a = "admin_revoke" => \E x \in admins : x # who

AcceptsAccess(a, who) ==
    /\ a = "worker_revoke" => Exists(a)
    /\ a \in Membership => KeepsAnAdmin(a, who)

\* Reads, sweeps and migrations: an export or a listed exercise exists,
\* private grading fits, sync and work only need GitHub.
AcceptsOther(a) ==
    /\ a \in {"export", "exercise_show", "private_grade"} => Exists(a)
    /\ a \in {"private_grade", "migrate"} => Fit(a)

Accepts(a, who) ==
    CASE a \in Imports -> AcceptsImport(a)
      [] a \in CatalogActions -> AcceptsCatalog(a)
      [] a \in GradeActions -> AcceptsGrade(a)
      [] a \in WorkerActions \cup Membership -> AcceptsAccess(a, who)
      [] OTHER -> AcceptsOther(a)

\* process looks the administrator up, prepare checks the input; the plan
\* keeps what the records were.
Prepare(d) ==
    LET a == op[disp[d].op].action IN
    /\ disp[d].pc = "validating"
    /\ ActorOf(disp[d].op) \in admins
    /\ IF Accepts(a, op[disp[d].op].subject)
       THEN disp' = [disp EXCEPT ![d] =
                        [pc |-> "storing", op |-> @.op, left |-> 0, expected |-> None,
                         plan |-> [before |-> Snapshot(a), catalog |-> Catalog(a), token |-> d]]]
       ELSE Failing(d)
    /\ UNCHANGED <<op, lock, database, history, bounds>>

\* Mutant: the plan is stored whatever the operation's state is by then.
StoreAnyway(d) ==
    /\ disp[d].pc = "storing"
    /\ op' = [op EXCEPT ![disp[d].op].state = "ready",
                        ![disp[d].op].plan = disp[d].plan]
    /\ disp' = [disp EXCEPT ![d] = Looping]
    /\ UNCHANGED <<lock, database, history, bounds>>

\* The plan, its token and its fifteen minutes, if the operation is still
\* being validated.
Store(d) ==
    LET o == disp[d].op IN
    /\ disp[d].pc = "storing"
    /\ op' = IF op[o].state = "validating"
             THEN [op EXCEPT ![o] =
                     [state |-> "ready", session |-> @.session, action |-> @.action,
                      subject |-> @.subject, plan |-> disp[d].plan, denied |-> @.denied]]
             ELSE op
    /\ disp' = [disp EXCEPT ![d] = Looping]
    /\ UNCHANGED <<lock, database, history, bounds>>

-----------------------------------------------------------------------------
(* Application (apply).                                                    *)

\* The records are those the plan was made for.
StillAsReviewed(d) ==
    LET a == op[disp[d].op].action IN
    /\ Snapshot(a) = disp[d].plan.before
    /\ Catalog(a) = disp[d].plan.catalog

\* Here too process looks the administrator up first.
Recheck(d) ==
    LET a == op[disp[d].op].action IN
    /\ disp[d].pc = "applying"
    /\ ActorOf(disp[d].op) \in admins
    /\ IF StillAsReviewed(d)
       THEN disp' = [disp EXCEPT ![d] =
                        [pc |-> CASE Steps(a) = 0 -> "applied"
                                  [] a \in CatalogActions -> "preparing"
                                  [] OTHER -> "writing",
                         op |-> @.op, plan |-> @.plan, left |-> Steps(a), expected |-> None]]
       ELSE Failing(d)
    /\ UNCHANGED <<op, lock, database, history, bounds>>

\* One transaction of the operation has been committed.
Committed(d) ==
    LET o == disp[d].op IN
    /\ done' = [done EXCEPT ![o] = @ + 1]
    /\ disp' = [disp EXCEPT ![d] = [pc |-> IF @.left = 1 THEN "applied" ELSE @.pc, op |-> @.op,
                                    plan |-> @.plan, left |-> @.left - 1, expected |-> @.expected]]

Raise(r) == rec' = [rec EXCEPT ![r] = @ + 1]

\* The same import once more, and this time it is committed.
Import(d) ==
    LET a == op[disp[d].op].action IN
    /\ disp[d].pc = "writing"
    /\ a \in Imports
    /\ a = "course" => CourseFits
    /\ a = "roster" => RosterFits
    /\ Raise(Target(a))
    /\ Committed(d)
    /\ UNCHANGED <<op, lock, admins, changing, picked, outlived, bounds>>

\* The audit row of a regrade, committed before the run is asked for and
\* whatever the submission has become.
AuditRegrade(d) ==
    /\ disp[d].pc = "writing"
    /\ op[disp[d].op].action = "regrade"
    /\ disp[d].left = 2
    /\ Committed(d)
    /\ UNCHANGED <<op, lock, database, picked, outlived, bounds>>

\* Grades and tasks: the transaction repeats the checks of the action on the
\* record as it is now.  A worker's row is replaced or disabled without a look
\* at it.
Write(d) ==
    LET a == op[disp[d].op].action IN
    /\ disp[d].pc = "writing"
    /\ a \in GradeActions \cup WorkerActions
    /\ a \in WorkerActions \/ Fit(a)
    /\ a = "regrade" => disp[d].left = 1
    /\ Raise(Target(a))
    /\ Committed(d)
    /\ UNCHANGED <<op, lock, admins, changing, picked, outlived, bounds>>

\* Private grading, sync, one task of the queue, migrations: one transaction
\* of several.
SweepOn(d) ==
    LET a == op[disp[d].op].action IN
    /\ disp[d].pc = "writing"
    /\ a \in Sweeps
    /\ Fit(a)
    /\ Raise(Target(a))
    /\ Committed(d)
    /\ UNCHANGED <<op, lock, admins, changing, picked, outlived, bounds>>

\* Mutant: admin_change counts without the lock.
AdminLockIgnored == TRUE

\* Advisory lock 704311 is free.
AdminLockFree == changing = {}

\* The first half of identity::admin_change: it takes the lock and counts the
\* other administrators.  o is the operation it is part of, None in gradingctl.
BeginChange(o, a, who) ==
    /\ AdminLockFree
    /\ KeepsAnAdmin(a, who)
    /\ changing' = changing \cup {[op |-> o, action |-> a, who |-> who]}
    /\ UNCHANGED <<admins, rec>>

\* The second half: it changes the table and commits, which frees the lock.
CommitChange(c) ==
    /\ changing' = changing \ {c}
    /\ admins' = IF c.action = "admin_grant" THEN admins \cup {c.who} ELSE admins \ {c.who}
    /\ Raise("admins")

BeginMembership(d) ==
    LET o == disp[d].op IN
    /\ disp[d].pc = "writing"
    /\ op[o].action \in Membership
    /\ BeginChange(o, op[o].action, op[o].subject)
    /\ UNCHANGED <<op, disp, lock, history, bounds>>

WriteMembership(d) ==
    /\ disp[d].pc = "writing"
    /\ \E c \in changing : c.op = disp[d].op /\ CommitChange(c)
    /\ Committed(d)
    /\ UNCHANGED <<op, lock, picked, outlived, bounds>>

\* The transaction of a program that failed or ended is rolled back.
RollBack(c) ==
    /\ \A d \in Dispatcher : c.op # None /\ disp[d].op = c.op => disp[d].pc # "writing"
    /\ changing' = changing \ {c}
    /\ UNCHANGED <<op, disp, lock, admins, rec, history, bounds>>

\* exercises::prepare once more, from the pinned commits, then the cache and
\* the artifact; expected is the revision it read.
PrepareExercise(d) ==
    /\ disp[d].pc = "preparing"
    /\ ExerciseFits(op[disp[d].op].action)
    /\ disp' = [disp EXCEPT ![d] = [pc |-> "publishing", op |-> @.op, plan |-> @.plan,
                                    left |-> @.left, expected |-> rec["exercise"]]]
    /\ UNCHANGED <<op, lock, database, history, bounds>>

\* Mutant: apply_set trusts the comparison made when the plan was applied.
CatalogAsPrepared(d) == rec["exercise"] = disp[d].expected

\* publish compares the revision with the one that was prepared against;
\* apply_set compares the whole catalog with the confirmed preview as well.
CatalogAsReviewed(d) ==
    /\ rec["exercise"] = disp[d].expected
    /\ op[disp[d].op].action = "exercises" => rec["exercise"] = disp[d].plan.catalog

Publish(d) ==
    LET o == disp[d].op IN
    /\ disp[d].pc = "publishing"
    /\ CatalogAsReviewed(d)
    /\ Raise("exercise")
    /\ Committed(d)
    /\ picked' = IF op[o].action = "exercises"
                 THEN [picked EXCEPT ![o] = <<Rows("exercises"), rec["exercise"]>>]
                 ELSE picked
    /\ UNCHANGED <<op, lock, admins, changing, outlived, bounds>>

\* The audit row and the final state.
Finish(d) ==
    LET o == disp[d].op IN
    /\ disp[d].pc = "applied"
    /\ op' = IF op[o].state = "applying" THEN [op EXCEPT ![o].state = "succeeded"] ELSE op
    /\ disp' = [disp EXCEPT ![d] = Looping]
    /\ UNCHANGED <<lock, database, history, bounds>>

-----------------------------------------------------------------------------
(* Other programs.                                                         *)

\* gradingctl, the web service or a worker changes a record.
Elsewhere(r) ==
    /\ elsewhere < MaxElsewhere
    /\ elsewhere' = elsewhere + 1
    /\ Raise(r)
    /\ UNCHANGED <<op, disp, lock, admins, changing, history, faults>>

\* gradingctl admin grant and revoke, the latter with or without the override.
BeginElsewhere(a, who) ==
    /\ elsewhere < MaxElsewhere
    /\ elsewhere' = elsewhere + 1
    /\ BeginChange(None, a, who)
    /\ UNCHANGED <<op, disp, lock, history, faults>>

ChangeAdminsElsewhere(c) ==
    /\ c.op = None
    /\ CommitChange(c)
    /\ UNCHANGED <<op, disp, lock, history, bounds>>

Next ==
    \/ \E o \in Op, s \in Session, a \in Offered, who \in Account \cup {None} :
         Submit(o, s, a, who)
    \/ \E o \in Op, s \in Session, t \in Dispatcher : Confirm(o, s, t)
    \/ \E d \in Dispatcher :
         \/ Start(d) \/ Poll(d) \/ FindNothing(d)
         \/ \E o \in Op : Pick(d, o)
         \/ NotAuthorized(d) \/ StepFails(d) \/ RecordFailure(d)
         \/ Prepare(d) \/ Store(d)
         \/ Recheck(d) \/ Import(d) \/ AuditRegrade(d) \/ Write(d) \/ SweepOn(d)
         \/ BeginMembership(d) \/ WriteMembership(d)
         \/ PrepareExercise(d) \/ Publish(d) \/ Finish(d)
         \/ NoticeLostLock(d) \/ Crash(d) \/ LoseLock(d)
    \/ \E r \in Record \ {"admins"} : Elsewhere(r)
    \/ \E a \in Membership, who \in Account : BeginElsewhere(a, who)
    \/ \E c \in changing : ChangeAdminsElsewhere(c) \/ RollBack(c)

Spec == Init /\ [][Next]_vars

(* Fair steps.  The service manager restarts the dispatcher, its loop goes    *)
(* round, and every step of an operation ends: each network call and each   *)
(* cache build has a timeout.  Nobody is obliged to confirm anything.       *)
(* It is enough that a dispatcher is started while an operation waits.      *)
Advance(d) ==
    \/ Poll(d) \/ FindNothing(d) \/ (\E o \in Op : Pick(d, o))
    \/ NotAuthorized(d) \/ StepFails(d) \/ RecordFailure(d)
    \/ Prepare(d) \/ Store(d)
    \/ Recheck(d) \/ Import(d) \/ AuditRegrade(d) \/ Write(d) \/ SweepOn(d)
    \/ BeginMembership(d) \/ WriteMembership(d)
    \/ PrepareExercise(d) \/ Publish(d) \/ Finish(d)
    \/ NoticeLostLock(d)

Waiting == \E o \in Op : op[o].state \in Busy

Wake == Waiting /\ \E d \in Dispatcher : Start(d)

-----------------------------------------------------------------------------
(* Properties.                                                             *)

Pc == {"off", "idle", "polling", "validating", "storing", "applying",
       "preparing", "publishing", "writing", "applied",
       "failing_validation", "failing"}

\* The columns and the dispatchers' variables keep their types, a dispatcher
\* works on an operation exactly when its pc says so, and only the holder of
\* a live process can hold the lock.
PortalTypeOK ==
    /\ \A o \in Op :
         /\ op[o].state \in State
         /\ op[o].session \in Session \cup {None}
         /\ op[o].action \in Offered \cup {None}
         /\ op[o].subject \in Account \cup {None}
         /\ op[o].denied \in BOOLEAN
         /\ (op[o].state = "absent") <=> (op[o].session = None)
    /\ \A d \in Dispatcher :
         /\ disp[d].pc \in Pc
         /\ disp[d].op \in Op \cup {None}
         /\ (disp[d].op = None) <=> (disp[d].pc \in {"off", "idle", "polling"})
         /\ disp[d].left \in Nat
    /\ lock \in Dispatcher \cup {None}
    /\ lock # None => disp[lock].pc # "off"
    /\ admins \subseteq Account
    /\ changing \subseteq [op : Op \cup {None}, action : Membership, who : Account]
    /\ rec \in [Record -> Nat]
    /\ done \in [Op -> Nat]
    /\ outlived \in BOOLEAN
    /\ faults \in 0..MaxFaults
    /\ elsewhere \in 0..MaxElsewhere

\* A confirmed operation is carried out at most once: no crash, restart or
\* second dispatcher commits one of its transactions twice, and an operation
\* that has committed one can never be confirmed or picked again ("an
\* interrupted apply is marked uncertain and is never automatically
\* replayed", docs/admin-portal.md:120).
AppliedOnce ==
    \A o \in Op :
        /\ done[o] > 0 => op[o].state \in {"applying", "succeeded", "failed", "uncertain"}
        /\ done[o] > 0 => done[o] <= Steps(op[o].action)

\* A plan whose records had changed before the dispatcher picked it up is
\* refused, and so is a catalog that changes while its exercises are being
\* prepared: snapshot and catalog are compared with the plan before anything
\* is applied, and apply_set compares the catalog once more as it commits.
StaleIsRefused ==
    \A o \in Op :
        done[o] > 0 => picked[o] = <<op[o].plan.before[1], op[o].plan.catalog>>

\* What the operation page says is true while no dispatcher runs on without
\* its lock: a failed validation has applied nothing, a success everything.
OutcomeIsTrue ==
    \A o \in Op :
        /\ op[o].denied => done[o] = 0 \/ outlived
        /\ op[o].state = "succeeded" => done[o] = Steps(op[o].action)

\* Revocations carried out side by side by dispatchers and by gradingctl, each
\* of which counted the administrators before it deleted one, leave someone who
\* can sign in as administrator: the last one goes only by a revocation that
\* asked for the recovery override ("refusing to revoke final administrator
\* without --recovery-override", identity.rs:91).
AlwaysAnAdmin ==
    [][admins # {} /\ admins' = {} =>
          \E c \in changing \ changing' : c.action = "admin_recover"]_vars

\* Whatever is submitted or confirmed is decided, across crashes of the
\* dispatcher: no operation occupies one of the administrator's four places
\* for ever, unless a dispatcher ran on without its lock.
OperationsSettle ==
    \A o \in Op : op[o].state \in Busy ~> (op[o].state \notin Busy \/ outlived)
=============================================================================
