---------------------------- MODULE Provisioning ----------------------------
(***************************************************************************)
(* The life of one student repository on GitHub: it is requested           *)
(* (request_repository), created, seeded and shared by provision tasks,    *)
(* closed by the daily sync and made read-only by lock tasks               *)
(* (crates/cli/src/lifecycle.rs, crates/github/src/repository.rs).         *)
(*                                                                         *)
(* One action is one request to GitHub that matters, or one transaction.   *)
(* Between two of them the student accepts an invitation, somebody changes *)
(* the collaborators on GitHub, a lease runs out and a second worker takes *)
(* the same task, or a worker dies and leaves a request under way.  The    *)
(* lease table itself is module TaskQueue; here a task has a status and    *)
(* the worker whose lease is live.                                         *)
(*                                                                         *)
(* One repository is modelled: the code takes its advisory lock and writes *)
(* its row per repository.                                                 *)
(***************************************************************************)
EXTENDS Naturals

CONSTANTS Worker,      \* control worker loops
          Serves,      \* the kinds of task a loop leases
          Nobody,      \* no worker
          MaxMishaps   \* bound: failures, lost leases, changes by hand

TaskKind == {"provision", "lock"}

ASSUME WorkerAssumption ==
    /\ Nobody \notin Worker
    /\ Serves \in [Worker -> SUBSET TaskKind]
    /\ MaxMishaps \in Nat

VARIABLES
    row,      \* student_repositories: state, github_repo_id, closure_due, ...
    late,     \* the effective deadline has passed
    task,     \* status of the provision and of the lock task
    holder,   \* the worker whose lease on the task is live
    guard,    \* the worker whose connection holds advisory lock 704317
    worker,   \* what each worker is doing
    hub,      \* the repository on GitHub
    sync,     \* what the daily sync is doing, and what it has read
    stray,    \* a PUT that grants push is under way, its sender has given it up
    touched,  \* history: write access was given by hand or by a stray request
    mishaps

table == <<row, late, task, holder>>
provVars == <<table, guard, worker, hub, sync, stray, touched, mishaps>>

Permission == {"none", "read", "write"}
Resting == [at |-> "idle", kind |-> "provision", saw |-> "none"]
SyncAway == [at |-> "away", due |-> FALSE, saw |-> "none"]

ProvInit ==
    /\ row = [state |-> "absent", known |-> FALSE, due |-> FALSE, locked |-> FALSE]
    /\ late = FALSE
    /\ task = [k \in TaskKind |-> "absent"]
    /\ holder = [k \in TaskKind |-> Nobody]
    /\ guard = Nobody
    /\ worker = [w \in Worker |-> Resting]
    /\ hub = [made |-> FALSE, seeded |-> FALSE, quiet |-> FALSE,
              perm |-> "none", invite |-> "none"]
    /\ sync = SyncAway
    /\ stray = FALSE
    /\ touched = FALSE
    /\ mishaps = 0

\* Write access that the student has or only needs to accept.
Writable == hub.perm = "write" \/ hub.invite = "write"

Step == {"idle", "waiting", "done", "error",
         "provision", "create", "seed", "seeded", "share", "granting", "shared", "mark",
         "lock", "invitations", "patch", "demote", "pull", "verify", "locked"}

Goto(w, at) == worker' = [worker EXCEPT ![w].at = at]

-----------------------------------------------------------------------------
(* The student, the clock and people who change things by hand.            *)

\* request_repository, in time; a second request finds the row.
Request ==
    /\ row.state = "absent"
    /\ ~late
    /\ row' = [row EXCEPT !.state = "creating"]
    /\ task' = [task EXCEPT !["provision"] = "pending"]
    /\ UNCHANGED <<late, holder, guard, worker, hub, sync, stray, touched, mishaps>>

DeadlinePasses ==
    /\ ~late
    /\ late' = TRUE
    /\ UNCHANGED <<row, task, holder, guard, worker, hub, sync, stray, touched, mishaps>>

\* extend: not after closure.
Extend ==
    /\ mishaps < MaxMishaps
    /\ row.state # "absent"
    /\ late
    /\ ~row.due
    /\ mishaps' = mishaps + 1
    /\ late' = FALSE
    /\ UNCHANGED <<row, task, holder, guard, worker, hub, sync, stray, touched>>

\* GitHub: the student accepts the invitation as it is by then.
Accept ==
    /\ hub.invite # "none"
    /\ hub' = [hub EXCEPT !.perm = hub.invite, !.invite = "none"]
    /\ UNCHANGED <<table, guard, worker, sync, stray, touched, mishaps>>

\* An owner of the organization gives the student write access.
GrantByHand ==
    /\ mishaps < MaxMishaps
    /\ hub.made
    /\ mishaps' = mishaps + 1
    /\ hub' = [hub EXCEPT !.perm = "write"]
    /\ touched' = TRUE
    /\ UNCHANGED <<table, guard, worker, sync, stray>>

\* GitHub's answer to PUT collaborators: a collaborator gets the permission,
\* anybody else an invitation.
Collaborator(permission) ==
    IF hub.perm = "none" THEN [hub EXCEPT !.invite = permission]
                         ELSE [hub EXCEPT !.perm = permission]

\* disable_actions.
Quiet(h) == [h EXCEPT !.quiet = TRUE]

\* A request outlives the worker that sent it.
StrayLands ==
    /\ stray
    /\ stray' = FALSE
    /\ hub' = Collaborator("write")
    /\ touched' = TRUE
    /\ UNCHANGED <<table, guard, worker, sync, mishaps>>

-----------------------------------------------------------------------------
(* work_queue: lease, process, outcome.                                    *)

Lease(w, k) ==
    /\ worker[w].at = "idle"
    /\ k \in Serves[w]
    /\ \/ task[k] = "pending"
       \/ task[k] = "leased" /\ holder[k] = Nobody
    /\ task' = [task EXCEPT ![k] = "leased"]
    /\ holder' = [holder EXCEPT ![k] = w]
    /\ worker' = [worker EXCEPT ![w] = [at |-> "waiting", kind |-> k, saw |-> "none"]]
    /\ UNCHANGED <<row, late, guard, hub, sync, stray, touched, mishaps>>

\* Mutant: provision and lock tasks of a repository run side by side.
Unguarded(w) == TRUE

GuardIsFree(w) == guard = Nobody

\* process takes the repository's advisory lock, and waits for it.
TakeGuard(w) ==
    /\ worker[w].at = "waiting"
    /\ GuardIsFree(w)
    /\ guard' = w
    /\ Goto(w, IF worker[w].kind = "lock" THEN "lock" ELSE "provision")
    /\ UNCHANGED <<table, hub, sync, stray, touched, mishaps>>

Processing(w) == worker[w].at \notin {"idle", "waiting"}

\* The worker's connection, and its advisory lock with it, is gone.
Release(w) == guard' = IF guard = w THEN Nobody ELSE guard

\* finish, if the lease is still this worker's.  An open invitation is looked
\* at again in five minutes.
Done(w) ==
    LET k == worker[w].kind
        poll == /\ k = "provision" /\ row.state = "invitation_pending"
                /\ ~row.due /\ ~late
    IN /\ worker[w].at = "done"
       /\ IF holder[k] = w
          THEN /\ task' = [task EXCEPT ![k] = IF poll THEN "pending" ELSE "done"]
               /\ holder' = [holder EXCEPT ![k] = Nobody]
          ELSE UNCHANGED <<task, holder>>
       /\ Release(w)
       /\ worker' = [worker EXCEPT ![w] = Resting]
       /\ UNCHANGED <<row, late, hub, sync, stray, touched, mishaps>>

\* fail, if the lease is still this worker's: another attempt, or none left.
Fail(w) ==
    LET k == worker[w].kind IN
    /\ worker[w].at = "error"
    /\ IF holder[k] = w
       THEN /\ \E status \in {"pending", "failed"} : task' = [task EXCEPT ![k] = status]
            /\ holder' = [holder EXCEPT ![k] = Nobody]
       ELSE UNCHANGED <<task, holder>>
    /\ Release(w)
    /\ worker' = [worker EXCEPT ![w] = Resting]
    /\ UNCHANGED <<row, late, hub, sync, stray, touched, mishaps>>

\* A PUT that grants push is under way, and may arrive when its sender has gone
\* on without it.
LeavesGrant(w) == worker[w].at = "granting" /\ stray' = TRUE

\* A request fails, or takes longer than the client waits.
RequestFails(w) ==
    /\ mishaps < MaxMishaps
    /\ Processing(w) /\ worker[w].at \notin {"done", "error"}
    /\ mishaps' = mishaps + 1
    /\ Goto(w, "error")
    /\ LeavesGrant(w) \/ UNCHANGED stray
    /\ UNCHANGED <<table, guard, hub, sync, touched>>

\* The worker stalls past its lease, dies, or is dropped when its heartbeat
\* fails.  The request it was sending may still arrive.
LeaseRunsOut(w) ==
    /\ mishaps < MaxMishaps
    /\ holder[worker[w].kind] = w
    /\ mishaps' = mishaps + 1
    /\ holder' = [holder EXCEPT ![worker[w].kind] = Nobody]
    /\ UNCHANGED <<row, late, task, guard, worker, hub, sync, stray, touched>>

Vanish(w) ==
    /\ worker[w].at # "idle"
    /\ holder[worker[w].kind] # w
    /\ LeavesGrant(w) \/ UNCHANGED stray
    /\ Release(w)
    /\ worker' = [worker EXCEPT ![w] = Resting]
    /\ UNCHANGED <<table, hub, sync, touched, mishaps>>

-----------------------------------------------------------------------------
(* provision.                                                              *)

Open == ~row.due /\ ~late

BeginProvision(w) ==
    /\ worker[w].at = "provision"
    /\ Goto(w, CASE row.state = "ready" -> "done"
                 [] row.state = "invitation_pending" -> "share"
                 [] OTHER -> IF Open THEN "create" ELSE "error")
    /\ UNCHANGED <<table, guard, hub, sync, stray, touched, mishaps>>

\* ensure_private_repository finds the repository that carries the nonce or
\* creates it; then its id is stored.
Create(w) ==
    /\ worker[w].at = "create"
    /\ \/ ~hub.made /\ hub' = [hub EXCEPT !.made = TRUE] /\ UNCHANGED <<row, worker>>
       \/ /\ hub.made
          /\ row' = [row EXCEPT !.known = TRUE]
          /\ Goto(w, "seed")
          /\ UNCHANGED hub
    /\ UNCHANGED <<late, task, holder, guard, sync, stray, touched, mishaps>>

\* Mutant: the row says invitation_pending before the files are there.
SeedLater(w) ==
    /\ worker[w].at = "seed"
    /\ \/ row.state = "creating" /\ row' = [row EXCEPT !.state = "invitation_pending"]
          /\ UNCHANGED <<hub, worker>>
       \/ /\ row.state # "creating"
          /\ hub' = [Quiet(hub) EXCEPT !.seeded = TRUE]
          /\ Goto(w, "seeded")
          /\ UNCHANGED row
    /\ UNCHANGED <<late, task, holder, guard, sync, stray, touched, mishaps>>

\* seed disables Actions, writes the template's tree and checks it.
Seed(w) ==
    /\ worker[w].at = "seed"
    /\ hub' = [Quiet(hub) EXCEPT !.seeded = TRUE]
    /\ Goto(w, "seeded")
    /\ UNCHANGED <<table, guard, sync, stray, touched, mishaps>>

\* The row moves on if the assignment and the lease are still live.
MarkSeeded(w) ==
    LET live == ~row.due /\ holder["provision"] = w IN
    /\ worker[w].at = "seeded"
    /\ row' = IF live THEN [row EXCEPT !.state = "invitation_pending"] ELSE row
    /\ Goto(w, IF live THEN "share" ELSE "error")
    /\ UNCHANGED <<late, task, holder, guard, hub, sync, stray, touched, mishaps>>

\* The row is read again; identity and teams are verified; invite disables
\* Actions and looks for the student among collaborators and invitations.
Share(w) ==
    /\ worker[w].at = "share"
    /\ hub' = IF Open THEN Quiet(hub) ELSE hub
    /\ Goto(w, CASE ~Open -> "error"
                 [] Open /\ Writable -> "shared"
                 [] Open /\ ~Writable /\ hub.invite # "none" -> "shared"
                 [] OTHER -> "granting")
    /\ UNCHANGED <<table, guard, sync, stray, touched, mishaps>>

Grant(w) ==
    /\ worker[w].at = "granting"
    /\ hub' = Collaborator("write")
    /\ Goto(w, "shared")
    /\ UNCHANGED <<table, guard, sync, stray, touched, mishaps>>

ReadPermission(w) ==
    /\ worker[w].at = "shared"
    /\ worker' = [worker EXCEPT ![w] = [at |-> "mark", kind |-> @.kind, saw |-> hub.perm]]
    /\ UNCHANGED <<table, guard, hub, sync, stray, touched, mishaps>>

MarkShared(w) ==
    /\ worker[w].at = "mark"
    /\ row' = IF row.due THEN row
              ELSE [row EXCEPT !.state = IF worker[w].saw = "write" THEN "ready"
                                         ELSE "invitation_pending"]
    /\ Goto(w, "done")
    /\ UNCHANGED <<late, task, holder, guard, hub, sync, stray, touched, mishaps>>

-----------------------------------------------------------------------------
(* lock, of lifecycle.rs and of repository.rs.                             *)

BeginLock(w) ==
    /\ worker[w].at = "lock"
    /\ Goto(w, IF row.due /\ row.known THEN "invitations" ELSE "error")
    /\ UNCHANGED <<table, guard, hub, sync, stray, touched, mishaps>>

ListInvitations(w) ==
    /\ worker[w].at = "invitations"
    /\ Goto(w, IF hub.invite # "none" THEN "patch" ELSE "demote")
    /\ UNCHANGED <<table, guard, hub, sync, stray, touched, mishaps>>

\* An invitation that was accepted since is not found any more.
PatchInvitation(w) ==
    /\ worker[w].at = "patch"
    /\ hub' = IF hub.invite = "none" THEN hub ELSE [hub EXCEPT !.invite = "read"]
    /\ Goto(w, IF hub.invite = "none" THEN "error" ELSE "demote")
    /\ UNCHANGED <<table, guard, sync, stray, touched, mishaps>>

Demote(w) ==
    /\ worker[w].at = "demote"
    /\ Goto(w, IF hub.perm = "none" THEN "verify" ELSE "pull")
    /\ UNCHANGED <<table, guard, hub, sync, stray, touched, mishaps>>

Pull(w) ==
    /\ worker[w].at = "pull"
    /\ hub' = Collaborator("read")
    /\ Goto(w, "verify")
    /\ UNCHANGED <<table, guard, sync, stray, touched, mishaps>>

VerifyLock(w) ==
    /\ worker[w].at = "verify"
    /\ Goto(w, IF hub.perm = "write" THEN "error" ELSE "locked")
    /\ UNCHANGED <<table, guard, hub, sync, stray, touched, mishaps>>

\* locked_at, whatever became of the lease.
MarkLocked(w) ==
    /\ worker[w].at = "locked"
    /\ row' = [row EXCEPT !.locked = TRUE]
    /\ Goto(w, "done")
    /\ UNCHANGED <<late, task, holder, guard, hub, sync, stray, touched, mishaps>>

-----------------------------------------------------------------------------
(* sync: observe, then close.  It does not take the repository's advisory  *)
(* lock, and its transaction uses the row and the permission it read       *)
(* before.                                                                 *)

\* A task that is there already keeps its status; some of them start again.
Again(k, ended) ==
    IF task[k] = "absent" \/ task[k] \in ended
    THEN [task EXCEPT ![k] = "pending"] ELSE task

SyncBegin ==
    /\ sync.at = "away"
    /\ row.state # "absent"
    /\ sync' = [at |-> IF row.known THEN "look" ELSE "again", due |-> row.due, saw |-> "none"]
    /\ UNCHANGED <<table, guard, worker, hub, stray, touched, mishaps>>

SyncAgain ==
    /\ sync.at = "again"
    /\ task' = Again("provision", {"failed"})
    /\ sync' = [sync EXCEPT !.at = "close"]
    /\ UNCHANGED <<row, late, holder, guard, worker, hub, stray, touched, mishaps>>

\* Actions are disabled, the permission and the branch are read; there is no
\* branch before the files are there.
SyncLook ==
    /\ sync.at = "look"
    /\ hub' = Quiet(hub)
    /\ sync' = [sync EXCEPT !.at = IF hub.seeded THEN "record" ELSE "close",
                            !.saw = hub.perm]
    /\ UNCHANGED <<table, guard, worker, stray, touched, mishaps>>

\* A failed observation is logged, and close runs.
SyncFails ==
    /\ mishaps < MaxMishaps
    /\ sync.at \in {"again", "look", "record"}
    /\ mishaps' = mishaps + 1
    /\ sync' = [sync EXCEPT !.at = "close"]
    /\ UNCHANGED <<table, guard, worker, hub, stray, touched>>

\* Mutant: write access that came back after closure is not noticed.
RecordOnly ==
    /\ sync.at = "record"
    /\ row' = [row EXCEPT !.state = IF @ = "invitation_pending" /\ sync.saw = "write"
                                     THEN "ready" ELSE @]
    /\ sync' = [sync EXCEPT !.at = "close"]
    /\ UNCHANGED <<late, task, holder, guard, worker, hub, stray, touched, mishaps>>

SyncRecord ==
    LET open == sync.due /\ sync.saw = "write" IN
    /\ sync.at = "record"
    /\ row' = [row EXCEPT !.state = IF @ = "invitation_pending" /\ sync.saw = "write"
                                     THEN "ready" ELSE @,
                          !.locked = @ /\ ~open]
    /\ task' = IF open /\ task["lock"] # "absent" THEN Again("lock", {"done", "failed"})
               ELSE task
    /\ sync' = [sync EXCEPT !.at = "close"]
    /\ UNCHANGED <<late, holder, guard, worker, hub, stray, touched, mishaps>>

SyncClose ==
    /\ sync.at = "close"
    /\ row' = [row EXCEPT !.due = @ \/ late]
    /\ task' = IF late THEN Again("lock", {"failed"}) ELSE task
    /\ sync' = SyncAway
    /\ UNCHANGED <<late, holder, guard, worker, hub, stray, touched, mishaps>>

-----------------------------------------------------------------------------
WorkerStep(w) ==
    \/ TakeGuard(w) \/ Done(w) \/ Fail(w)
    \/ BeginProvision(w) \/ Create(w) \/ Seed(w) \/ MarkSeeded(w)
    \/ Share(w) \/ Grant(w) \/ ReadPermission(w) \/ MarkShared(w)
    \/ BeginLock(w) \/ ListInvitations(w) \/ PatchInvitation(w)
    \/ Demote(w) \/ Pull(w) \/ VerifyLock(w) \/ MarkLocked(w)

SyncStep == SyncBegin \/ SyncAgain \/ SyncLook \/ SyncRecord \/ SyncClose

ProvNext ==
    \/ Request \/ DeadlinePasses \/ Extend \/ Accept \/ GrantByHand \/ StrayLands
    \/ SyncStep \/ SyncFails
    \/ \E w \in Worker :
          \/ WorkerStep(w)
          \/ RequestFails(w) \/ LeaseRunsOut(w) \/ Vanish(w)
          \/ \E k \in TaskKind : Lease(w, k)

ProvSpec == ProvInit /\ [][ProvNext]_provVars

-----------------------------------------------------------------------------
\* A repository recorded as locked is read-only, and no open invitation would
\* make it writable, although a provision task may have begun to share it
\* before it closed and sync writes the row meanwhile; unless somebody gave
\* write access by hand, or a request arrived after its sender had given it up.
NoWriteWhenLocked == row.locked /\ ~touched => ~Writable

\* The student is let in only after the approved files are there, Actions are
\* off and the repository's id is stored: what a lock task needs to find it.
InvitedOnlySeeded ==
    ~touched /\ (hub.perm # "none" \/ hub.invite # "none") =>
        hub.seeded /\ hub.quiet /\ row.known

\* Once a repository that has its files is closed, the student's write access
\* ends for good: failures, lost leases and changes by hand are repaired by sync
\* (which cannot observe a repository without the assignment's branch).
ClosedBecomesReadOnly == (row.due /\ hub.seeded) ~> [](hub.perm # "write")

\* docs/grading.md: closing "records the actual lock timestamp".
LockIsRecorded == (row.due /\ row.known) ~> row.locked
=============================================================================
