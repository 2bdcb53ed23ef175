------------------------- MODULE ProvisioningProofs -------------------------
(***************************************************************************)
(* Provisioning for any number of workers: a repository that is recorded   *)
(* as locked is read-only, and a student is let in only when everything is *)
(* in place.                                                               *)
(***************************************************************************)
EXTENDS Provisioning, TLAPS

RowType == row \in [state : {"absent", "creating", "invitation_pending", "ready"},
                    known : BOOLEAN, due : BOOLEAN, locked : BOOLEAN]
WorkerType == worker \in [Worker -> [at : Step, kind : TaskKind, saw : Permission]]
HubType == hub \in [made : BOOLEAN, seeded : BOOLEAN, quiet : BOOLEAN,
                    perm : Permission, invite : Permission]
Types == RowType /\ WorkerType /\ HubType

LockSteps == {"lock", "invitations", "patch", "demote", "pull", "verify", "locked"}

\* A worker that processes a task holds the repository's advisory lock.
Guarded == \A w \in Worker : Processing(w) => guard = w

\* A lock task goes on only for a repository that is closed; sharing excludes a
\* record of a lock.
Closing ==
    /\ row.locked => row.due
    /\ \A w \in Worker : worker[w].at \in LockSteps \ {"lock"} => row.due
    /\ \A w \in Worker : worker[w].at = "granting" => ~row.locked

\* How far a lock task has taken the student's access down.
Lowered ==
    \A w \in Worker :
        /\ worker[w].at \in {"demote", "pull"} /\ ~touched => hub.invite # "write"
        /\ worker[w].at = "pull" => hub.perm # "none"
        /\ worker[w].at \in {"verify", "locked"} /\ ~touched => ~Writable

\* What is in place at each step of provision.
Prepared ==
    /\ row.state \in {"invitation_pending", "ready"} => hub.seeded /\ row.known
    /\ \A w \in Worker : worker[w].at \in {"seed", "seeded"} => row.known
    /\ \A w \in Worker : worker[w].at = "seeded" => hub.seeded /\ hub.quiet
    /\ \A w \in Worker : worker[w].at = "share" =>
          row.state \in {"invitation_pending", "ready"}
    /\ \A w \in Worker : worker[w].at \in {"granting", "shared", "mark"} =>
          hub.seeded /\ hub.quiet /\ row.known

LockInv ==
    /\ Types /\ Guarded /\ Closing /\ Lowered /\ Prepared
    /\ NoWriteWhenLocked /\ InvitedOnlySeeded

\* There is no repository yet.
LEMMA LockInitially == ProvInit => LockInv
  BY WorkerAssumption
  DEF ProvInit, Resting, LockInv, Types, RowType, WorkerType, HubType, Guarded, Closing,
      Lowered, Prepared, NoWriteWhenLocked, InvitedOnlySeeded, LockSteps, Processing,
      Writable, Step, Permission, TaskKind

\* The row appears; no worker knows of it yet.
LEMMA RequestInv == ASSUME LockInv, Request PROVE LockInv'
  BY WorkerAssumption
  DEF Request, LockInv, Types, RowType, WorkerType, HubType, Guarded, Closing, Lowered,
      Prepared, NoWriteWhenLocked, InvitedOnlySeeded, LockSteps, Processing, Writable, Step,
      Permission, TaskKind

\* The clock changes nothing of the invariant.
LEMMA DeadlinePassesInv == ASSUME LockInv, DeadlinePasses PROVE LockInv'
  BY WorkerAssumption
  DEF DeadlinePasses, LockInv, Types, RowType, WorkerType, HubType, Guarded, Closing,
      Lowered, Prepared, NoWriteWhenLocked, InvitedOnlySeeded, LockSteps, Processing,
      Writable, Step, Permission, TaskKind

\* Neither does an extension.
LEMMA ExtendInv == ASSUME LockInv, Extend PROVE LockInv'
  BY WorkerAssumption
  DEF Extend, LockInv, Types, RowType, WorkerType, HubType, Guarded, Closing, Lowered,
      Prepared, NoWriteWhenLocked, InvitedOnlySeeded, LockSteps, Processing, Writable, Step,
      Permission, TaskKind

\* The student gets what the invitation offers by then, and no more.
LEMMA AcceptInv == ASSUME LockInv, Accept PROVE LockInv'
<1>1. Types'
  <2>1. RowType'
    BY DEF Accept, table, LockInv, Types, RowType
  <2>2. WorkerType'
    BY DEF Accept, table, LockInv, Types, WorkerType, Step, TaskKind, Permission
  <2>3. HubType'
    BY DEF Accept, table, LockInv, Types, HubType, Permission
  <2>. QED  BY <2>1, <2>2, <2>3 DEF Types
<1>2. Guarded'
  BY DEF Accept, table, LockInv, Types, HubType, Guarded, Processing
<1>3. Closing'
  BY DEF Accept, table, LockInv, Types, HubType, Closing, LockSteps
<1>4. Lowered'
  BY DEF Accept, table, LockInv, Types, HubType, Lowered, Writable, NoWriteWhenLocked
<1>5. Prepared'
  BY DEF Accept, table, LockInv, Types, HubType, Prepared
<1>6. NoWriteWhenLocked'
  BY DEF Accept, table, LockInv, Types, HubType, NoWriteWhenLocked, Writable
<1>7. InvitedOnlySeeded'
  BY DEF Accept, table, LockInv, Types, HubType, InvitedOnlySeeded
<1>. QED  BY <1>1, <1>2, <1>3, <1>4, <1>5, <1>6, <1>7 DEF LockInv

\* Write access given by hand is recorded as such.
LEMMA GrantByHandInv == ASSUME LockInv, GrantByHand PROVE LockInv'
  BY WorkerAssumption
  DEF GrantByHand, table, LockInv, Types, RowType, WorkerType, HubType, Guarded, Closing,
      Lowered, Prepared, NoWriteWhenLocked, InvitedOnlySeeded, LockSteps, Processing,
      Writable, Step, Permission, TaskKind

\* So is a request that outlived its worker.
LEMMA StrayLandsInv == ASSUME LockInv, StrayLands PROVE LockInv'
  BY WorkerAssumption
  DEF StrayLands, table, Collaborator, LockInv, Types, RowType, WorkerType, HubType,
      Guarded, Closing, Lowered, Prepared, NoWriteWhenLocked, InvitedOnlySeeded, LockSteps,
      Processing, Writable, Step, Permission, TaskKind

\* A leased task waits for the advisory lock.
LEMMA LeaseInv ==
  ASSUME LockInv, NEW w \in Worker, NEW k \in TaskKind, Lease(w, k) PROVE LockInv'
  BY WorkerAssumption
  DEF Lease, LockInv, Types, RowType, WorkerType, HubType, Guarded, Closing, Lowered,
      Prepared, NoWriteWhenLocked, InvitedOnlySeeded, LockSteps, Processing, Writable, Step,
      Permission, TaskKind

\* The worker that begins is the only one that processes.
LEMMA TakeGuardInv == ASSUME LockInv, NEW w \in Worker, TakeGuard(w) PROVE LockInv'
  BY WorkerAssumption
  DEF TakeGuard, table, GuardIsFree, Goto, LockInv, Types, RowType, WorkerType, HubType,
      Guarded, Closing, Lowered, Prepared, NoWriteWhenLocked, InvitedOnlySeeded, LockSteps,
      Processing, Writable, Step, Permission, TaskKind

\* The advisory lock goes back with the worker's last step.
LEMMA DoneInv == ASSUME LockInv, NEW w \in Worker, Done(w) PROVE LockInv'
  BY WorkerAssumption
  DEF Done, Resting, Release, LockInv, Types, RowType, WorkerType, HubType, Guarded,
      Closing, Lowered, Prepared, NoWriteWhenLocked, InvitedOnlySeeded, LockSteps,
      Processing, Writable, Step, Permission, TaskKind

\* The advisory lock goes back with the worker's last step.
LEMMA FailInv == ASSUME LockInv, NEW w \in Worker, Fail(w) PROVE LockInv'
  BY WorkerAssumption
  DEF Fail, Resting, Release, LockInv, Types, RowType, WorkerType, HubType, Guarded,
      Closing, Lowered, Prepared, NoWriteWhenLocked, InvitedOnlySeeded, LockSteps,
      Processing, Writable, Step, Permission, TaskKind

\* An error keeps the advisory lock until the outcome is stored.
LEMMA RequestFailsInv == ASSUME LockInv, NEW w \in Worker, RequestFails(w) PROVE LockInv'
<1>1. Types'
  <2>1. RowType'
    BY DEF RequestFails, Goto, table, LockInv, Types, RowType
  <2>2. WorkerType'
    BY DEF RequestFails, Goto, table, LockInv, Types, WorkerType, Step, TaskKind, Permission
  <2>3. HubType'
    BY DEF RequestFails, Goto, table, LockInv, Types, HubType, Permission
  <2>. QED  BY <2>1, <2>2, <2>3 DEF Types
<1>2. Guarded'
  BY DEF RequestFails, Goto, table, LockInv, Types, WorkerType, Guarded, Processing
<1>3. Closing'
  BY DEF RequestFails, Goto, table, LockInv, Types, WorkerType, Closing, LockSteps
<1>4. Lowered'
  BY
  DEF RequestFails, Goto, table, LockInv, Types, WorkerType, Lowered, Writable,
      NoWriteWhenLocked
<1>5. Prepared'
  BY DEF RequestFails, Goto, table, LockInv, Types, WorkerType, Prepared
<1>6. NoWriteWhenLocked'
  BY DEF RequestFails, Goto, table, LockInv, Types, WorkerType, NoWriteWhenLocked, Writable
<1>7. InvitedOnlySeeded'
  BY DEF RequestFails, Goto, table, LockInv, Types, WorkerType, InvitedOnlySeeded
<1>. QED  BY <1>1, <1>2, <1>3, <1>4, <1>5, <1>6, <1>7 DEF LockInv

\* A lease that ends does not end the advisory lock.
LEMMA LeaseRunsOutInv == ASSUME LockInv, NEW w \in Worker, LeaseRunsOut(w) PROVE LockInv'
  BY WorkerAssumption
  DEF LeaseRunsOut, LockInv, Types, RowType, WorkerType, HubType, Guarded, Closing, Lowered,
      Prepared, NoWriteWhenLocked, InvitedOnlySeeded, LockSteps, Processing, Writable, Step,
      Permission, TaskKind

\* A worker that dies loses both.
LEMMA VanishInv == ASSUME LockInv, NEW w \in Worker, Vanish(w) PROVE LockInv'
  BY WorkerAssumption
  DEF Vanish, table, Resting, Release, LockInv, Types, RowType, WorkerType, HubType,
      Guarded, Closing, Lowered, Prepared, NoWriteWhenLocked, InvitedOnlySeeded, LockSteps,
      Processing, Writable, Step, Permission, TaskKind

\* Sharing begins only for a repository whose files are there.
LEMMA BeginProvisionInv == ASSUME LockInv, NEW w \in Worker, BeginProvision(w) PROVE LockInv'
<1>1. Types'
  BY
  DEF BeginProvision, table, Goto, LockInv, Types, RowType, WorkerType, HubType, Step,
      Permission, TaskKind
<1>2. Guarded'
  BY
  DEF BeginProvision, table, Goto, LockInv, Types, RowType, WorkerType, HubType, Step,
      Permission, TaskKind, Guarded, Processing
<1>3. Closing'
  BY
  DEF BeginProvision, table, Goto, LockInv, Types, RowType, WorkerType, HubType, Step,
      Permission, TaskKind, Guarded, Processing, Closing, LockSteps
<1>4. Lowered'
  BY
  DEF BeginProvision, table, Goto, LockInv, Types, RowType, WorkerType, HubType, Step,
      Permission, TaskKind, Guarded, Processing, Lowered, Writable
<1>5. Prepared'
  BY
  DEF BeginProvision, table, Goto, LockInv, Types, RowType, WorkerType, HubType, Step,
      Permission, TaskKind, Guarded, Processing, Prepared
<1>6. NoWriteWhenLocked'
  BY
  DEF BeginProvision, table, Goto, LockInv, Types, RowType, WorkerType, HubType, Step,
      Permission, TaskKind, Lowered, NoWriteWhenLocked, Writable
<1>7. InvitedOnlySeeded'
  BY
  DEF BeginProvision, table, Goto, LockInv, Types, RowType, WorkerType, HubType, Step,
      Permission, TaskKind, Prepared, InvitedOnlySeeded
<1>. QED  BY <1>1, <1>2, <1>3, <1>4, <1>5, <1>6, <1>7 DEF LockInv

\* The id is stored before the files are written.
LEMMA CreateInv == ASSUME LockInv, NEW w \in Worker, Create(w) PROVE LockInv'
<1>1. Types'
  <2>1. RowType'
    BY
    DEF Create, Goto, LockInv, Types, RowType, WorkerType, HubType, Step, Permission,
        TaskKind
  <2>2. WorkerType'
    BY
    DEF Create, Goto, LockInv, Types, RowType, WorkerType, HubType, Step, Permission,
        TaskKind
  <2>3. HubType'
    BY
    DEF Create, Goto, LockInv, Types, RowType, WorkerType, HubType, Step, Permission,
        TaskKind
  <2>. QED  BY <2>1, <2>2, <2>3 DEF Types
<1>2. Guarded'
  BY
  DEF Create, Goto, LockInv, Types, RowType, WorkerType, HubType, Step, Permission,
      TaskKind, Guarded, Processing
<1>3. Closing'
  BY
  DEF Create, Goto, LockInv, Types, RowType, WorkerType, HubType, Step, Permission,
      TaskKind, Guarded, Processing, Closing, LockSteps
<1>4. Lowered'
  BY
  DEF Create, Goto, LockInv, Types, RowType, WorkerType, HubType, Step, Permission,
      TaskKind, Guarded, Processing, Lowered, Writable
<1>5. Prepared'
  BY
  DEF Create, Goto, LockInv, Types, RowType, WorkerType, HubType, Step, Permission,
      TaskKind, Guarded, Processing, Prepared
<1>6. NoWriteWhenLocked'
  BY
  DEF Create, Goto, LockInv, Types, RowType, WorkerType, HubType, Step, Permission,
      TaskKind, Lowered, NoWriteWhenLocked, Writable
<1>7. InvitedOnlySeeded'
  BY
  DEF Create, Goto, LockInv, Types, RowType, WorkerType, HubType, Step, Permission,
      TaskKind, Prepared, InvitedOnlySeeded
<1>. QED  BY <1>1, <1>2, <1>3, <1>4, <1>5, <1>6, <1>7 DEF LockInv

\* Files and Actions are in place when the row is marked.
LEMMA SeedInv == ASSUME LockInv, NEW w \in Worker, Seed(w) PROVE LockInv'
<1>1. Types'
  <2>1. RowType'
    BY
    DEF Seed, table, Goto, Quiet, LockInv, Types, RowType, WorkerType, HubType, Step,
        Permission, TaskKind
  <2>2. WorkerType'
    BY
    DEF Seed, table, Goto, Quiet, LockInv, Types, RowType, WorkerType, HubType, Step,
        Permission, TaskKind
  <2>3. HubType'
    BY
    DEF Seed, table, Goto, Quiet, LockInv, Types, RowType, WorkerType, HubType, Step,
        Permission, TaskKind
  <2>. QED  BY <2>1, <2>2, <2>3 DEF Types
<1>2. Guarded'
  BY
  DEF Seed, table, Goto, Quiet, LockInv, Types, RowType, WorkerType, HubType, Step,
      Permission, TaskKind, Guarded, Processing
<1>3. Closing'
  BY
  DEF Seed, table, Goto, Quiet, LockInv, Types, RowType, WorkerType, HubType, Step,
      Permission, TaskKind, Guarded, Processing, Closing, LockSteps
<1>4. Lowered'
  BY
  DEF Seed, table, Goto, Quiet, LockInv, Types, RowType, WorkerType, HubType, Step,
      Permission, TaskKind, Guarded, Processing, Lowered, Writable
<1>5. Prepared'
  BY
  DEF Seed, table, Goto, Quiet, LockInv, Types, RowType, WorkerType, HubType, Step,
      Permission, TaskKind, Guarded, Processing, Prepared
<1>6. NoWriteWhenLocked'
  BY
  DEF Seed, table, Goto, Quiet, LockInv, Types, RowType, WorkerType, HubType, Step,
      Permission, TaskKind, Lowered, NoWriteWhenLocked, Writable
<1>7. InvitedOnlySeeded'
  BY
  DEF Seed, table, Goto, Quiet, LockInv, Types, RowType, WorkerType, HubType, Step,
      Permission, TaskKind, Prepared, InvitedOnlySeeded
<1>. QED  BY <1>1, <1>2, <1>3, <1>4, <1>5, <1>6, <1>7 DEF LockInv

\* The row is marked under the live lease, after the files.
LEMMA MarkSeededInv == ASSUME LockInv, NEW w \in Worker, MarkSeeded(w) PROVE LockInv'
  BY WorkerAssumption
  DEF MarkSeeded, Goto, LockInv, Types, RowType, WorkerType, HubType, Guarded, Closing,
      Lowered, Prepared, NoWriteWhenLocked, InvitedOnlySeeded, LockSteps, Processing,
      Writable, Step, Permission, TaskKind

\* The row is read again: sharing goes on only if it is open, hence not locked.
LEMMA ShareInv == ASSUME LockInv, NEW w \in Worker, Share(w) PROVE LockInv'
<1>1. Types'
  <2>1. RowType'
    BY
    DEF Share, table, Goto, Quiet, Open, LockInv, Types, RowType, WorkerType, HubType, Step,
        Permission, TaskKind
  <2>2. WorkerType'
    BY
    DEF Share, table, Goto, Quiet, Open, LockInv, Types, RowType, WorkerType, HubType, Step,
        Permission, TaskKind
  <2>3. HubType'
    BY
    DEF Share, table, Goto, Quiet, Open, LockInv, Types, RowType, WorkerType, HubType, Step,
        Permission, TaskKind
  <2>. QED  BY <2>1, <2>2, <2>3 DEF Types
<1>2. Guarded'
  BY
  DEF Share, table, Goto, Quiet, Open, LockInv, Types, RowType, WorkerType, HubType, Step,
      Permission, TaskKind, Guarded, Processing
<1>3. Closing'
  BY
  DEF Share, table, Goto, Quiet, Open, LockInv, Types, RowType, WorkerType, HubType, Step,
      Permission, TaskKind, Guarded, Processing, Closing, LockSteps
<1>4. Lowered'
  BY
  DEF Share, table, Goto, Quiet, Open, LockInv, Types, RowType, WorkerType, HubType, Step,
      Permission, TaskKind, Guarded, Processing, Lowered, Writable
<1>5. Prepared'
  BY
  DEF Share, table, Goto, Quiet, Open, LockInv, Types, RowType, WorkerType, HubType, Step,
      Permission, TaskKind, Guarded, Processing, Prepared
<1>6. NoWriteWhenLocked'
  BY
  DEF Share, table, Goto, Quiet, Open, LockInv, Types, RowType, WorkerType, HubType, Step,
      Permission, TaskKind, Lowered, NoWriteWhenLocked, Writable
<1>7. InvitedOnlySeeded'
  BY
  DEF Share, table, Goto, Quiet, Open, LockInv, Types, RowType, WorkerType, HubType, Step,
      Permission, TaskKind, Prepared, InvitedOnlySeeded
<1>. QED  BY <1>1, <1>2, <1>3, <1>4, <1>5, <1>6, <1>7 DEF LockInv

\* The push permission is granted while no lock is recorded.
LEMMA GrantInv == ASSUME LockInv, NEW w \in Worker, Grant(w) PROVE LockInv'
<1>1. Types'
  <2>1. RowType'
    BY DEF Grant, Goto, Collaborator, table, LockInv, Types, RowType
  <2>2. WorkerType'
    BY DEF Grant, Goto, Collaborator, table, LockInv, Types, WorkerType, Step
  <2>3. HubType'
    BY DEF Grant, Goto, Collaborator, table, LockInv, Types, HubType, Permission
  <2>. QED  BY <2>1, <2>2, <2>3 DEF Types
<1>2. Guarded'
  BY
  DEF Grant, Goto, Collaborator, table, LockInv, Types, WorkerType, HubType, Guarded,
      Processing
<1>3. Closing'
  BY
  DEF Grant, Goto, Collaborator, table, LockInv, Types, WorkerType, HubType, Closing,
      LockSteps
<1>4. Lowered'
  BY
  DEF Grant, Goto, Collaborator, table, LockInv, Types, WorkerType, HubType, Guarded,
      Processing, Lowered, Writable, Permission
<1>5. Prepared'
  BY DEF Grant, Goto, Collaborator, table, LockInv, Types, WorkerType, HubType, Prepared
<1>6. NoWriteWhenLocked'
  BY
  DEF Grant, Goto, Collaborator, table, LockInv, Types, WorkerType, HubType,
      NoWriteWhenLocked, Closing, Writable
<1>7. InvitedOnlySeeded'
  BY
  DEF Grant, Goto, Collaborator, table, LockInv, Types, WorkerType, HubType,
      InvitedOnlySeeded, Prepared
<1>. QED  BY <1>1, <1>2, <1>3, <1>4, <1>5, <1>6, <1>7 DEF LockInv

\* Only the worker's own variable changes.
LEMMA ReadPermissionInv == ASSUME LockInv, NEW w \in Worker, ReadPermission(w) PROVE LockInv'
<1>1. Types'
  <2>1. RowType'
    BY
    DEF ReadPermission, table, LockInv, Types, RowType, WorkerType, HubType, Step,
        Permission, TaskKind
  <2>2. WorkerType'
    BY
    DEF ReadPermission, table, LockInv, Types, RowType, WorkerType, HubType, Step,
        Permission, TaskKind
  <2>3. HubType'
    BY
    DEF ReadPermission, table, LockInv, Types, RowType, WorkerType, HubType, Step,
        Permission, TaskKind
  <2>. QED  BY <2>1, <2>2, <2>3 DEF Types
<1>2. Guarded'
  BY
  DEF ReadPermission, table, LockInv, Types, RowType, WorkerType, HubType, Step, Permission,
      TaskKind, Guarded, Processing
<1>3. Closing'
  BY
  DEF ReadPermission, table, LockInv, Types, RowType, WorkerType, HubType, Step, Permission,
      TaskKind, Guarded, Processing, Closing, LockSteps
<1>4. Lowered'
  BY
  DEF ReadPermission, table, LockInv, Types, RowType, WorkerType, HubType, Step, Permission,
      TaskKind, Guarded, Processing, Lowered, Writable
<1>5. Prepared'
  BY
  DEF ReadPermission, table, LockInv, Types, RowType, WorkerType, HubType, Step, Permission,
      TaskKind, Guarded, Processing, Prepared
<1>6. NoWriteWhenLocked'
  BY
  DEF ReadPermission, table, LockInv, Types, RowType, WorkerType, HubType, Step, Permission,
      TaskKind, Lowered, NoWriteWhenLocked, Writable
<1>7. InvitedOnlySeeded'
  BY
  DEF ReadPermission, table, LockInv, Types, RowType, WorkerType, HubType, Step, Permission,
      TaskKind, Prepared, InvitedOnlySeeded
<1>. QED  BY <1>1, <1>2, <1>3, <1>4, <1>5, <1>6, <1>7 DEF LockInv

\* The row moves on to a state in which everything is in place.
LEMMA MarkSharedInv == ASSUME LockInv, NEW w \in Worker, MarkShared(w) PROVE LockInv'
<1>1. Types'
  BY
  DEF MarkShared, Goto, LockInv, Types, RowType, WorkerType, HubType, Step, Permission,
      TaskKind
<1>2. Guarded'
  BY
  DEF MarkShared, Goto, LockInv, Types, RowType, WorkerType, HubType, Step, Permission,
      TaskKind, Guarded, Processing
<1>3. Closing'
  BY
  DEF MarkShared, Goto, LockInv, Types, RowType, WorkerType, HubType, Step, Permission,
      TaskKind, Guarded, Processing, Closing, LockSteps
<1>4. Lowered'
  BY
  DEF MarkShared, Goto, LockInv, Types, RowType, WorkerType, HubType, Step, Permission,
      TaskKind, Guarded, Processing, Lowered, Writable
<1>5. Prepared'
  BY
  DEF MarkShared, Goto, LockInv, Types, RowType, WorkerType, HubType, Step, Permission,
      TaskKind, Guarded, Processing, Prepared
<1>6. NoWriteWhenLocked'
  BY
  DEF MarkShared, Goto, LockInv, Types, RowType, WorkerType, HubType, Step, Permission,
      TaskKind, Lowered, NoWriteWhenLocked, Writable
<1>7. InvitedOnlySeeded'
  BY
  DEF MarkShared, Goto, LockInv, Types, RowType, WorkerType, HubType, Step, Permission,
      TaskKind, Prepared, InvitedOnlySeeded
<1>. QED  BY <1>1, <1>2, <1>3, <1>4, <1>5, <1>6, <1>7 DEF LockInv

\* A lock task works only on a closed repository.
LEMMA BeginLockInv == ASSUME LockInv, NEW w \in Worker, BeginLock(w) PROVE LockInv'
  BY WorkerAssumption
  DEF BeginLock, table, Goto, LockInv, Types, RowType, WorkerType, HubType, Guarded,
      Closing, Lowered, Prepared, NoWriteWhenLocked, InvitedOnlySeeded, LockSteps,
      Processing, Writable, Step, Permission, TaskKind

\* Without an invitation there is none to write.
LEMMA ListInvitationsInv == ASSUME LockInv, NEW w \in Worker, ListInvitations(w) PROVE LockInv'
  BY WorkerAssumption
  DEF ListInvitations, table, Goto, LockInv, Types, RowType, WorkerType, HubType, Guarded,
      Closing, Lowered, Prepared, NoWriteWhenLocked, InvitedOnlySeeded, LockSteps,
      Processing, Writable, Step, Permission, TaskKind

\* The invitation that is left is for reading.
LEMMA PatchInvitationInv == ASSUME LockInv, NEW w \in Worker, PatchInvitation(w) PROVE LockInv'
  BY WorkerAssumption
  DEF PatchInvitation, table, Goto, LockInv, Types, RowType, WorkerType, HubType, Guarded,
      Closing, Lowered, Prepared, NoWriteWhenLocked, InvitedOnlySeeded, LockSteps,
      Processing, Writable, Step, Permission, TaskKind

\* A student without access has at most an invitation for reading.
LEMMA DemoteInv == ASSUME LockInv, NEW w \in Worker, Demote(w) PROVE LockInv'
  BY WorkerAssumption
  DEF Demote, table, Goto, LockInv, Types, RowType, WorkerType, HubType, Guarded, Closing,
      Lowered, Prepared, NoWriteWhenLocked, InvitedOnlySeeded, LockSteps, Processing,
      Writable, Step, Permission, TaskKind

\* A collaborator stays one: the permission becomes read.
LEMMA PullInv == ASSUME LockInv, NEW w \in Worker, Pull(w) PROVE LockInv'
  BY WorkerAssumption
  DEF Pull, table, Goto, Collaborator, LockInv, Types, RowType, WorkerType, HubType,
      Guarded, Closing, Lowered, Prepared, NoWriteWhenLocked, InvitedOnlySeeded, LockSteps,
      Processing, Writable, Step, Permission, TaskKind

\* The lock is recorded only after this look.
LEMMA VerifyLockInv == ASSUME LockInv, NEW w \in Worker, VerifyLock(w) PROVE LockInv'
  BY WorkerAssumption
  DEF VerifyLock, table, Goto, LockInv, Types, RowType, WorkerType, HubType, Guarded,
      Closing, Lowered, Prepared, NoWriteWhenLocked, InvitedOnlySeeded, LockSteps,
      Processing, Writable, Step, Permission, TaskKind

\* Nobody but this worker can have changed the access since.
LEMMA MarkLockedInv == ASSUME LockInv, NEW w \in Worker, MarkLocked(w) PROVE LockInv'
<1>1. Types'
  <2>1. RowType'
    BY DEF MarkLocked, LockInv, Types, RowType
  <2>2. WorkerType'
    BY DEF MarkLocked, Goto, LockInv, Types, WorkerType, Step
  <2>3. HubType'
    BY DEF MarkLocked, LockInv, Types, HubType
  <2>. QED  BY <2>1, <2>2, <2>3 DEF Types
<1>2. Guarded'
  BY
  DEF MarkLocked, Goto, LockInv, Types, RowType, WorkerType, HubType, Step, Permission,
      TaskKind, Guarded, Processing
<1>3. Closing'
  BY
  DEF MarkLocked, Goto, LockInv, Types, RowType, WorkerType, HubType, Step, Permission,
      TaskKind, Guarded, Processing, Closing, LockSteps
<1>4. Lowered'
  BY
  DEF MarkLocked, Goto, LockInv, Types, RowType, WorkerType, HubType, Step, Permission,
      TaskKind, Guarded, Processing, Lowered, Writable
<1>5. Prepared'
  BY
  DEF MarkLocked, Goto, LockInv, Types, RowType, WorkerType, HubType, Step, Permission,
      TaskKind, Guarded, Processing, Prepared
<1>6. NoWriteWhenLocked'
  BY
  DEF MarkLocked, Goto, LockInv, Types, RowType, WorkerType, HubType, Step, Permission,
      TaskKind, Lowered, NoWriteWhenLocked, Writable
<1>7. InvitedOnlySeeded'
  BY
  DEF MarkLocked, Goto, LockInv, Types, RowType, WorkerType, HubType, Step, Permission,
      TaskKind, Prepared, InvitedOnlySeeded
<1>. QED  BY <1>1, <1>2, <1>3, <1>4, <1>5, <1>6, <1>7 DEF LockInv

\* sync reads the row.
LEMMA SyncBeginInv == ASSUME LockInv, SyncBegin PROVE LockInv'
  BY WorkerAssumption
  DEF SyncBegin, table, LockInv, Types, RowType, WorkerType, HubType, Guarded, Closing,
      Lowered, Prepared, NoWriteWhenLocked, InvitedOnlySeeded, LockSteps, Processing,
      Writable, Step, Permission, TaskKind

\* sync only queues a task.
LEMMA SyncAgainInv == ASSUME LockInv, SyncAgain PROVE LockInv'
  BY WorkerAssumption
  DEF SyncAgain, LockInv, Types, RowType, WorkerType, HubType, Guarded, Closing, Lowered,
      Prepared, NoWriteWhenLocked, InvitedOnlySeeded, LockSteps, Processing, Writable, Step,
      Permission, TaskKind

\* sync turns Actions off, which never turn on again.
LEMMA SyncLookInv == ASSUME LockInv, SyncLook PROVE LockInv'
<1>1. Types'
  <2>1. RowType'
    BY DEF SyncLook, Quiet, table, LockInv, Types, RowType
  <2>2. WorkerType'
    BY DEF SyncLook, Quiet, table, LockInv, Types, WorkerType, Step, TaskKind, Permission
  <2>3. HubType'
    BY DEF SyncLook, Quiet, table, LockInv, Types, HubType, Permission
  <2>. QED  BY <2>1, <2>2, <2>3 DEF Types
<1>2. Guarded'
  BY DEF SyncLook, Quiet, table, LockInv, Types, HubType, Guarded, Processing
<1>3. Closing'
  BY DEF SyncLook, Quiet, table, LockInv, Types, HubType, Closing, LockSteps
<1>4. Lowered'
  BY
  DEF SyncLook, Quiet, table, LockInv, Types, HubType, Lowered, Writable, NoWriteWhenLocked
<1>5. Prepared'
  BY DEF SyncLook, Quiet, table, LockInv, Types, HubType, Prepared
<1>6. NoWriteWhenLocked'
  BY DEF SyncLook, Quiet, table, LockInv, Types, HubType, NoWriteWhenLocked, Writable
<1>7. InvitedOnlySeeded'
  BY DEF SyncLook, Quiet, table, LockInv, Types, HubType, InvitedOnlySeeded
<1>. QED  BY <1>1, <1>2, <1>3, <1>4, <1>5, <1>6, <1>7 DEF LockInv

\* A failed observation changes nothing.
LEMMA SyncFailsInv == ASSUME LockInv, SyncFails PROVE LockInv'
  BY WorkerAssumption
  DEF SyncFails, table, LockInv, Types, RowType, WorkerType, HubType, Guarded, Closing,
      Lowered, Prepared, NoWriteWhenLocked, InvitedOnlySeeded, LockSteps, Processing,
      Writable, Step, Permission, TaskKind

\* sync may take a record of a lock back, never make one.
LEMMA SyncRecordInv == ASSUME LockInv, SyncRecord PROVE LockInv'
<1>1. Types'
  BY DEF SyncRecord, LockInv, Types, RowType, WorkerType, HubType, Step, Permission, TaskKind
<1>2. Guarded'
  BY
  DEF SyncRecord, LockInv, Types, RowType, WorkerType, HubType, Step, Permission, TaskKind,
      Guarded, Processing
<1>3. Closing'
  BY
  DEF SyncRecord, LockInv, Types, RowType, WorkerType, HubType, Step, Permission, TaskKind,
      Guarded, Processing, Closing, LockSteps
<1>4. Lowered'
  BY
  DEF SyncRecord, LockInv, Types, RowType, WorkerType, HubType, Step, Permission, TaskKind,
      Guarded, Processing, Lowered, Writable
<1>5. Prepared'
  BY
  DEF SyncRecord, LockInv, Types, RowType, WorkerType, HubType, Step, Permission, TaskKind,
      Guarded, Processing, Prepared
<1>6. NoWriteWhenLocked'
  BY
  DEF SyncRecord, LockInv, Types, RowType, WorkerType, HubType, Step, Permission, TaskKind,
      Lowered, NoWriteWhenLocked, Writable
<1>7. InvitedOnlySeeded'
  BY
  DEF SyncRecord, LockInv, Types, RowType, WorkerType, HubType, Step, Permission, TaskKind,
      Prepared, InvitedOnlySeeded
<1>. QED  BY <1>1, <1>2, <1>3, <1>4, <1>5, <1>6, <1>7 DEF LockInv

\* A closed repository stays closed.
LEMMA SyncCloseInv == ASSUME LockInv, SyncClose PROVE LockInv'
<1>1. Types'
  <2>1. RowType'
    BY DEF SyncClose, LockInv, Types, RowType
  <2>2. WorkerType'
    BY DEF SyncClose, LockInv, Types, WorkerType, Step, TaskKind, Permission
  <2>3. HubType'
    BY DEF SyncClose, LockInv, Types, HubType, Permission
  <2>. QED  BY <2>1, <2>2, <2>3 DEF Types
<1>2. Guarded'
  BY DEF SyncClose, LockInv, Types, RowType, Guarded, Processing
<1>3. Closing'
  BY DEF SyncClose, LockInv, Types, RowType, Closing, LockSteps
<1>4. Lowered'
  BY DEF SyncClose, LockInv, Types, RowType, Lowered, Writable, NoWriteWhenLocked
<1>5. Prepared'
  BY DEF SyncClose, LockInv, Types, RowType, Prepared
<1>6. NoWriteWhenLocked'
  BY DEF SyncClose, LockInv, Types, RowType, NoWriteWhenLocked, Writable
<1>7. InvitedOnlySeeded'
  BY DEF SyncClose, LockInv, Types, RowType, InvitedOnlySeeded
<1>. QED  BY <1>1, <1>2, <1>3, <1>4, <1>5, <1>6, <1>7 DEF LockInv

-----------------------------------------------------------------------------
\* Every step keeps the invariant.
LEMMA LockStep == LockInv /\ [ProvNext]_provVars => LockInv'
<1>. SUFFICES ASSUME LockInv, [ProvNext]_provVars PROVE LockInv'
  OBVIOUS
<1>1. CASE Request \/ DeadlinePasses \/ Extend \/ Accept \/ GrantByHand \/ StrayLands
  BY <1>1, RequestInv, DeadlinePassesInv, ExtendInv, AcceptInv, GrantByHandInv, StrayLandsInv
<1>2. CASE SyncStep \/ SyncFails
  BY <1>2, SyncBeginInv, SyncAgainInv, SyncLookInv, SyncFailsInv, SyncRecordInv, SyncCloseInv
  DEF SyncStep
<1>3. ASSUME NEW w \in Worker, WorkerStep(w) PROVE LockInv'
  BY <1>3, TakeGuardInv, DoneInv, FailInv, BeginProvisionInv, CreateInv, SeedInv, MarkSeededInv,
     ShareInv, GrantInv, ReadPermissionInv, MarkSharedInv, BeginLockInv, ListInvitationsInv,
     PatchInvitationInv, DemoteInv, PullInv, VerifyLockInv, MarkLockedInv, Zenon
  DEF WorkerStep
<1>4. ASSUME NEW w \in Worker, RequestFails(w) \/ LeaseRunsOut(w) \/ Vanish(w) PROVE LockInv'
  BY <1>4, RequestFailsInv, LeaseRunsOutInv, VanishInv
<1>5. ASSUME NEW w \in Worker, NEW k \in TaskKind, Lease(w, k) PROVE LockInv'
  BY <1>5, LeaseInv
<1>6. CASE UNCHANGED provVars
  BY <1>6
  DEF provVars, table, LockInv, Types, RowType, WorkerType, HubType, Guarded, Closing,
      Lowered, Prepared, NoWriteWhenLocked, InvitedOnlySeeded, Processing, Writable
<1>. QED  BY <1>1, <1>2, <1>3, <1>4, <1>5, <1>6 DEF ProvNext

\* The invariant of provisioning and locking, for any number of workers.
THEOREM LockInvariant == ProvSpec => []LockInv
  BY LockInitially, LockStep, PTL DEF ProvSpec

\* Provision and lock tasks exclude each other, and sharing reads the row again
\* under the advisory lock: a repository recorded as locked is read-only, and no
\* invitation would change that.
THEOREM LockedIsReadOnly == ProvSpec => []NoWriteWhenLocked
  BY LockInvariant, PTL DEF LockInv

\* Nobody is let in before the files, the setting of Actions and the stored id.
THEOREM InvitedWhenReady == ProvSpec => []InvitedOnlySeeded
  BY LockInvariant, PTL DEF LockInv
=============================================================================
