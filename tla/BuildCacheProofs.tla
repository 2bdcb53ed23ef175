-------------------------- MODULE BuildCacheProofs --------------------------
(***************************************************************************)
(* BuildCache for any number of builders and of builds: whatever dies or   *)
(* fails, the cache that a key refers to keeps the contents its digest     *)
(* names, and no two Jobs run for the key.                                 *)
(***************************************************************************)
EXTENDS BuildCache, FiniteSetTheorems, TLAPS

Steps == {"away", "look", "recover", "clear", "create", "wait", "stop", "drain",
          "seal", "move", "verify", "refer"}

Types ==
    /\ reference \in 0 .. MaxWrites
    /\ builder \in [Builder -> [at : Steps, build : Build \cup {NoBuild},
                                outcome : {"built", "failed"}, digest : 0 .. MaxWrites]]
    /\ fresh \subseteq Build /\ inFlight \subseteq Build
    /\ pod \in [Build -> PodState]
    /\ content \in [Build -> 0 .. MaxWrites]
    /\ stored \in [Digest -> Build \cup {NoBuild}]

Assigned == {"recover", "clear", "create", "wait", "stop", "drain",
             "seal", "move", "verify", "refer"}
Sealing == {"seal", "move", "verify", "refer"}

\* Who is in prepare has the key.
Locked == \A b \in Builder : builder[b].at # "away" => keyLock = b

\* A build has one builder, and no Job before that builder creates one; a build
\* whose Pod is gone does not come back.
Owned ==
    /\ \A b \in Builder : builder[b].at \in Assigned =>
          builder[b].build \in Build \ (fresh \cup inFlight)
    /\ \A b \in Builder : builder[b].at \in {"recover", "clear", "create"} =>
          pod[builder[b].build] = "none"
    /\ fresh \cap inFlight = {}
    /\ \A i \in fresh \cup inFlight : pod[i] = "none"

\* Nothing of this key is left when a Job is created.
Alone ==
    /\ \A b \in Builder : builder[b].at = "create" => crowded \/ Present = {}
    /\ crowded \/ \A i, j \in Build : pod[i] = "running" /\ pod[j] = "running" => i = j

\* What is sealed, stored or referred to belongs to a Pod that is gone.
Sealed ==
    /\ \A b \in Builder : builder[b].at \in Sealing => pod[builder[b].build] = "gone"
    /\ \A b \in Builder : builder[b].at \in Sealing \ {"seal"} =>
          builder[b].digest \in Digest /\ content[builder[b].build] = builder[b].digest
    /\ \A b \in Builder : builder[b].at \in {"verify", "refer"} =>
          stored[builder[b].digest] # NoBuild
    /\ \A h \in Digest : stored[h] # NoBuild =>
          pod[stored[h]] = "gone" /\ content[stored[h]] = h
    /\ reference # 0 => stored[reference] # NoBuild

CacheInv == Types /\ Locked /\ Owned /\ Alone /\ Sealed

\* At the start nobody prepares and nothing is stored.
LEMMA CacheInitially == CacheInit => CacheInv
<1>. SUFFICES ASSUME CacheInit PROVE CacheInv
  OBVIOUS
<1>1. Types
  BY BuildAssumption DEF CacheInit, Types, Steps, Away, PodState, Digest
<1>2. Locked /\ Owned
  BY DEF CacheInit, Away, Locked, Owned, Assigned
<1>3. Alone /\ Sealed
  BY DEF CacheInit, Away, Alone, Sealed, Sealing
<1>. QED  BY <1>1, <1>2, <1>3 DEF CacheInv

-----------------------------------------------------------------------------
\* The key was free: nobody else is in prepare.
LEMMA LockKeyInv == ASSUME CacheInv, NEW b \in Builder, LockKey(b) PROVE CacheInv'
  BY BuildAssumption
  DEF LockKey, Continue, CacheInv, Types, Steps, Locked, Owned, Alone, Sealed, Assigned,
      Sealing, Present

\* Nothing but the lock changes.
LEMMA ReuseInv == ASSUME CacheInv, NEW b \in Builder, Reuse(b) PROVE CacheInv'
  BY BuildAssumption
  DEF Reuse, Leave, Away, CacheInv, Types, Steps, Locked, Owned, Alone, Sealed, Assigned,
      Sealing, Present

\* The build id is new, so it has neither a Job nor a request under way.
LEMMA StageBuildInv ==
  ASSUME CacheInv, NEW b \in Builder, NEW i \in Build, StageBuild(b, i) PROVE CacheInv'
  BY BuildAssumption
  DEF StageBuild, Away, CacheInv, Types, Steps, Locked, Owned, Alone, Sealed, Assigned,
      Sealing, Present

\* Jobs are only told to stop; a build without a Job is not affected.
LEMMA RecoverInv == ASSUME CacheInv, NEW b \in Builder, Recover(b) PROVE CacheInv'
  BY BuildAssumption
  DEF Recover, Continue, Deleted, PodState, CacheInv, Types, Steps, Locked, Owned, Alone,
      Sealed, Assigned, Sealing, Present

\* No Pod of the key is left.
LEMMA ClearedInv == ASSUME CacheInv, NEW b \in Builder, Cleared(b) PROVE CacheInv'
<1>1. Types'
  BY BuildAssumption DEF Cleared, Continue, CacheInv, Types, Steps
<1>2. Locked'
  BY BuildAssumption DEF Cleared, Continue, CacheInv, Types, Steps, Locked
<1>3. Owned'
  BY BuildAssumption DEF Cleared, Continue, CacheInv, Types, Steps, Owned, Assigned
<1>4. Alone'
  BY BuildAssumption DEF Cleared, Continue, CacheInv, Types, Steps, Alone, Present
<1>5. Sealed'
  BY BuildAssumption DEF Cleared, Continue, CacheInv, Types, Steps, Sealed, Sealing
<1>. QED  BY <1>1, <1>2, <1>3, <1>4, <1>5 DEF CacheInv

\* The one place where a Job starts under the lock.
LEMMA CreateBuildInv == ASSUME CacheInv, NEW b \in Builder, CreateBuild(b) PROVE CacheInv'
<1>0. /\ builder[b].at = "create" /\ builder[b].build \in Build
      /\ pod[builder[b].build] = "none"
      /\ builder[b].build \notin fresh \cup inFlight
  BY DEF CreateBuild, CacheInv, Owned, Assigned
<1>1. Types'
  BY <1>0 DEF CreateBuild, Continue, PodState, CacheInv, Types, Steps
<1>2. Locked'
  BY DEF CreateBuild, Continue, CacheInv, Types, Locked
<1>3. Owned'
  <2>1. ASSUME NEW c \in Builder, builder[c].at \in {"recover", "clear", "create"}, c # b
        PROVE  FALSE
    BY <1>0, <2>1 DEF CacheInv, Locked
  <2>. QED  BY <1>0, <2>1 DEF CreateBuild, Continue, CacheInv, Types, Owned, Assigned
<1>4. Alone'
  <2>1. crowded \/ \A i \in Build : pod[i] # "running"
    BY <1>0 DEF CacheInv, Alone, Present
  <2>2. \A c \in Builder : c # b => builder[c].at = "away"
    BY <1>0 DEF CacheInv, Locked
  <2>. QED  BY <1>0, <2>1, <2>2 DEF CreateBuild, Continue, CacheInv, Types, Alone, Present
<1>5. Sealed'
  BY <1>0 DEF CreateBuild, Continue, CacheInv, Types, Sealed, Sealing
<1>. QED  BY <1>1, <1>2, <1>3, <1>4, <1>5 DEF CacheInv

\* The outcome is remembered.
LEMMA AwaitBuildInv == ASSUME CacheInv, NEW b \in Builder, AwaitBuild(b) PROVE CacheInv'
  BY BuildAssumption
  DEF AwaitBuild, CacheInv, Types, Steps, Locked, Owned, Alone, Sealed, Assigned, Sealing,
      Present

\* The outcome is remembered.
LEMMA BuildFailsInv == ASSUME CacheInv, NEW b \in Builder, BuildFails(b) PROVE CacheInv'
<1>1. Types'
  BY BuildAssumption DEF BuildFails, Continue, CacheInv, Types, Steps
<1>2. Locked'
  BY BuildAssumption DEF BuildFails, Continue, CacheInv, Types, Steps, Locked
<1>3. Owned'
  BY BuildAssumption DEF BuildFails, Continue, CacheInv, Types, Steps, Owned, Assigned
<1>4. Alone'
  BY BuildAssumption DEF BuildFails, Continue, CacheInv, Types, Steps, Alone, Present
<1>5. Sealed'
  BY BuildAssumption DEF BuildFails, Continue, CacheInv, Types, Steps, Sealed, Sealing
<1>. QED  BY <1>1, <1>2, <1>3, <1>4, <1>5 DEF CacheInv

\* The builder's own Job is told to stop.
LEMMA StopBuildInv == ASSUME CacheInv, NEW b \in Builder, StopBuild(b) PROVE CacheInv'
  BY BuildAssumption
  DEF StopBuild, Continue, Deleted, PodState, CacheInv, Types, Steps, Locked, Owned, Alone,
      Sealed, Assigned, Sealing, Present

\* Sealing begins when the Pod is gone, for good since the build is in use.
LEMMA DrainedInv == ASSUME CacheInv, NEW b \in Builder, Drained(b) PROVE CacheInv'
<1>1. CASE builder[b].outcome = "built"
  <2>1. Types' /\ Locked' /\ Owned'
    BY <1>1 DEF Drained, Continue, CacheInv, Types, Steps, Locked, Owned, Assigned
  <2>2. Alone'
    BY <1>1 DEF Drained, Continue, CacheInv, Types, Steps, Alone, Present
  <2>3. Sealed'
    <3>1. /\ builder'[b].at = "seal" /\ builder'[b].build = builder[b].build
          /\ \A c \in Builder : c # b => builder'[c] = builder[c]
      BY <1>1 DEF Drained, Continue, CacheInv, Types
    <3>2. UNCHANGED <<reference, pod, content, stored>> /\ pod[builder[b].build] = "gone"
      BY DEF Drained
    <3>. QED  BY <3>1, <3>2 DEF CacheInv, Sealed, Sealing
  <2>. QED  BY <2>1, <2>2, <2>3 DEF CacheInv
<1>2. CASE builder[b].outcome # "built"
  <2>1. Types'
    BY <1>2, BuildAssumption DEF Drained, Leave, Away, CacheInv, Types, Steps
  <2>2. Locked'
    BY <1>2, BuildAssumption DEF Drained, Leave, Away, CacheInv, Types, Locked
  <2>3. Owned'
    BY <1>2, BuildAssumption DEF Drained, Leave, Away, CacheInv, Types, Owned, Assigned
  <2>4. Alone'
    BY <1>2, BuildAssumption DEF Drained, Leave, Away, CacheInv, Types, Alone, Present
  <2>5. Sealed'
    <3>1. /\ builder'[b].at = "away"
          /\ \A c \in Builder : c # b => builder'[c] = builder[c]
      BY <1>2 DEF Drained, Leave, Away, CacheInv, Types
    <3>2. UNCHANGED <<reference, pod, content, stored>>
      BY DEF Drained
    <3>. QED  BY <3>1, <3>2 DEF CacheInv, Sealed, Sealing
  <2>. QED  BY <2>1, <2>2, <2>3, <2>4, <2>5 DEF CacheInv
<1>. QED  BY <1>1, <1>2

\* A builder that gives up may leave a Job behind, and a request under way.
LEMMA PrepareFailsInv == ASSUME CacheInv, NEW b \in Builder, PrepareFails(b) PROVE CacheInv'
  BY BuildAssumption
  DEF PrepareFails, Leave, Away, CacheInv, Types, Steps, Locked, Owned, Alone, Sealed,
      Assigned, Sealing, Present

\* The digest is taken from a directory nobody writes to.
LEMMA SealInv == ASSUME CacheInv, NEW b \in Builder, Seal(b) PROVE CacheInv'
  BY BuildAssumption
  DEF Seal, DigestOf, Digest, CacheInv, Types, Steps, Locked, Owned, Alone, Sealed,
      Assigned, Sealing, Present

\* A digest that is stored already has the same contents.
LEMMA MoveToStoreInv == ASSUME CacheInv, NEW b \in Builder, MoveToStore(b) PROVE CacheInv'
<1>1. Types'
  BY DEF MoveToStore, Continue, CacheInv, Types, Steps, Owned, Assigned, Sealed, Sealing
<1>2. Locked' /\ Owned'
  BY DEF MoveToStore, Continue, CacheInv, Types, Steps, Locked, Owned, Assigned
<1>3. Alone'
  BY DEF MoveToStore, Continue, CacheInv, Types, Steps, Alone, Present
<1>4. Sealed'
  BY BuildAssumption
  DEF MoveToStore, Continue, CacheInv, Types, Steps, Owned, Assigned, Sealed, Sealing, Digest
<1>. QED  BY <1>1, <1>2, <1>3, <1>4 DEF CacheInv

\* What was stored is verified, which changes nothing.
LEMMA VerifyStoredInv == ASSUME CacheInv, NEW b \in Builder, VerifyStored(b) PROVE CacheInv'
<1>1. Types'
  BY BuildAssumption DEF VerifyStored, Intact, DigestOf, Continue, Leave, Away, CacheInv, Types, Steps
<1>2. Locked'
  BY BuildAssumption
  DEF VerifyStored, Intact, DigestOf, Continue, Leave, Away, CacheInv, Types, Steps, Locked
<1>3. Owned'
  BY BuildAssumption
  DEF VerifyStored, Intact, DigestOf, Continue, Leave, Away, CacheInv, Types, Steps, Owned,
      Assigned
<1>4. Alone'
  BY BuildAssumption
  DEF VerifyStored, Intact, DigestOf, Continue, Leave, Away, CacheInv, Types, Steps, Alone,
      Present
<1>5. Sealed'
  BY BuildAssumption
  DEF VerifyStored, Intact, DigestOf, Continue, Leave, Away, CacheInv, Types, Steps, Sealed,
      Sealing
<1>. QED  BY <1>1, <1>2, <1>3, <1>4, <1>5 DEF CacheInv

\* The reference is to a stored directory.
LEMMA ReferInv == ASSUME CacheInv, NEW b \in Builder, Refer(b) PROVE CacheInv'
  BY BuildAssumption
  DEF Refer, Leave, Away, Digest, CacheInv, Types, Steps, Locked, Owned, Alone, Sealed,
      Assigned, Sealing, Present

\* Death leaves what PrepareFails leaves.
LEMMA DieInv == ASSUME CacheInv, NEW b \in Builder, Die(b) PROVE CacheInv'
  BY BuildAssumption
  DEF Die, Leave, Away, CacheInv, Types, Steps, Locked, Owned, Alone, Sealed, Assigned,
      Sealing, Present

\* A Pod that writes is not gone: its build is neither sealed nor stored.
LEMMA PodWritesInv == ASSUME CacheInv, NEW i \in Build, PodWrites(i) PROVE CacheInv'
  BY BuildAssumption
  DEF PodWrites, Writing, PodState, CacheInv, Types, Steps, Locked, Owned, Alone, Sealed,
      Assigned, Sealing, Present

\* Jobs end and Pods go; none starts.
LEMMA PodMovesInv == ASSUME CacheInv, NEW i \in Build, PodMoves(i) PROVE CacheInv'
  BY BuildAssumption
  DEF PodMoves, PodState, CacheInv, Types, Steps, Locked, Owned, Alone, Sealed, Assigned,
      Sealing, Present

\* A late Job is recorded as such, and belongs to no builder and no cache.
LEMMA LateJobInv == ASSUME CacheInv, NEW i \in Build, LateJob(i) PROVE CacheInv'
  BY BuildAssumption
  DEF LateJob, PodState, CacheInv, Types, Steps, Locked, Owned, Alone, Sealed, Assigned,
      Sealing, Present

-----------------------------------------------------------------------------
\* Every step of a builder or of Kubernetes keeps the invariant.
LEMMA CacheStep == CacheInv /\ [CacheNext]_cacheVars => CacheInv'
<1>. SUFFICES ASSUME CacheInv, [CacheNext]_cacheVars PROVE CacheInv'
  OBVIOUS
<1>1. ASSUME NEW b \in Builder, LockKey(b) \/ BuilderStep(b) \/ Die(b) PROVE CacheInv'
  BY <1>1, LockKeyInv, ReuseInv, StageBuildInv, RecoverInv, ClearedInv, CreateBuildInv,
     AwaitBuildInv, BuildFailsInv, StopBuildInv, DrainedInv, PrepareFailsInv, SealInv,
     MoveToStoreInv, VerifyStoredInv, ReferInv, DieInv, Zenon
  DEF BuilderStep
<1>2. ASSUME NEW i \in Build, PodWrites(i) \/ PodMoves(i) \/ LateJob(i) PROVE CacheInv'
  BY <1>2, PodWritesInv, PodMovesInv, LateJobInv
<1>3. CASE UNCHANGED cacheVars
  BY <1>3
  DEF cacheVars, CacheInv, Types, Locked, Owned, Alone, Sealed, Present
<1>. QED  BY <1>1, <1>2, <1>3 DEF CacheNext

\* The invariant of the preparation, for any number of builders and builds.
THEOREM CacheInvariant == CacheSpec => []CacheInv
  BY CacheInitially, CacheStep, PTL DEF CacheSpec

\* The cache an exercise refers to stays what its digest says: prepare verifies it
\* only after every Pod that could write to it is gone.
THEOREM ReferredStaysIntact == CacheSpec => []ReferredIsIntact
<1>1. CacheInv => ReferredIsIntact
  BY BuildAssumption
  DEF CacheInv, Types, Sealed, ReferredIsIntact, Intact, DigestOf, Digest
<1>. QED  BY <1>1, CacheInvariant, PTL

\* The lock file and the recovery of a dead builder's Job keep the Jobs of a key
\* apart, unless a creation was given up and happened all the same.
THEOREM JobsOfAKeyAreApart == CacheSpec => []OneJobPerKey
<1>1. CacheInv => OneJobPerKey
  <2>. SUFFICES ASSUME CacheInv, ~crowded
                PROVE  Cardinality({i \in Build : pod[i] = "running"}) <= 1
    BY DEF OneJobPerKey
  <2>. DEFINE R == {i \in Build : pod[i] = "running"}
  <2>1. CASE R = {}
    BY <2>1, FS_EmptySet
  <2>2. CASE R # {}
    <3>1. PICK j \in R : TRUE
      BY <2>2
    <3>2. R = {j}
      BY <3>1 DEF CacheInv, Alone
    <3>3. Cardinality({j}) = 1
      BY FS_Singleton
    <3>. QED  BY <3>2, <3>3
  <2>. QED  BY <2>1, <2>2
<1>. QED  BY <1>1, CacheInvariant, PTL
=============================================================================
