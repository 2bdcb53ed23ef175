----------------------------- MODULE BuildCache -----------------------------
(***************************************************************************)
(* The preparation of one build cache (crates/executor/src/caching.rs):    *)
(* before an exercise is published a Job fills an output directory, which  *)
(* is sealed, named by the digest of its contents, and referred to by the  *)
(* key of its inputs.  Every student Job of the exercise mounts it.        *)
(*                                                                         *)
(* gradingctl and the portal's dispatcher prepare caches; a file lock per  *)
(* key keeps them apart and is free again when its holder dies.  The Job   *)
(* of a dead holder goes on writing until somebody stops it.               *)
(*                                                                         *)
(* The contents of a directory are the number of writes so far, and so is  *)
(* its digest: it covers every path, mode and byte.  One key is modelled.  *)
(***************************************************************************)
EXTENDS Naturals, FiniteSets

CONSTANTS Builder,      \* processes that prepare the cache
          NoBuilder,
          Build,        \* build ids, each used once
          NoBuild,
          MaxWrites,    \* bound: writes to one output directory
          MaxDeaths     \* bound: builders that die

ASSUME BuildAssumption ==
    /\ NoBuilder \notin Builder /\ NoBuild \notin Build
    /\ MaxWrites \in Nat /\ MaxDeaths \in Nat

VARIABLES
    keyLock,    \* who has locked cache-refs/<key>.lock
    reference,  \* the digest in cache-refs/<key>; 0 if there is no such file
    builder,    \* what each process is doing
    fresh,      \* unused build ids
    pod,        \* the Job and the Pod of each build
    content,    \* writes to the directory of each build
    stored,     \* the build whose directory is caches/<digest>
    inFlight,   \* Jobs whose creation is under way although the sender is dead
    crowded,    \* history: a Job arrived like that
    deaths

cacheVars == <<keyLock, reference, builder, fresh, pod, content, stored, inFlight, crowded, deaths>>

Digest == 1 .. MaxWrites
Away == [at |-> "away", build |-> NoBuild, outcome |-> "failed", digest |-> 0]
\* Job and Pod: "ended" has stopped by itself, "deleting" may write its last.
PodState == {"none", "running", "ended", "deleting", "gone"}
Present == {i \in Build : pod[i] \in {"running", "ended", "deleting"}}
Writing == {i \in Build : pod[i] \in {"running", "deleting"} /\ content[i] < MaxWrites}

CacheInit ==
    /\ keyLock = NoBuilder
    /\ reference = 0
    /\ builder = [b \in Builder |-> Away]
    /\ fresh = Build
    /\ pod = [i \in Build |-> "none"]
    /\ content = [i \in Build |-> 0]
    /\ stored = [h \in Digest |-> NoBuild]
    /\ inFlight = {}
    /\ crowded = FALSE
    /\ deaths = 0

Continue(b, at) == builder' = [builder EXCEPT ![b].at = at]

\* scan and manifest: every path, mode and byte.
DigestOf(i) == content[i]

\* verify: the directory is scanned once more and its digest compared.
Intact(h) == h \in Digest /\ stored[h] # NoBuild /\ DigestOf(stored[h]) = h

\* prepare returns, with a seed or with an error: the lock is free.
Leave(b) ==
    /\ builder' = [builder EXCEPT ![b] = Away]
    /\ keyLock' = IF keyLock = b THEN NoBuilder ELSE keyLock

-----------------------------------------------------------------------------
(* prepare.                                                                *)

\* try_lock; who does not get it has to repeat the command.
LockKey(b) ==
    /\ builder[b].at = "away" /\ fresh # {}
    /\ keyLock = NoBuilder
    /\ keyLock' = b
    /\ Continue(b, "look")
    /\ UNCHANGED <<reference, fresh, pod, content, stored, inFlight, crowded, deaths>>

\* A cache that is there is verified, and used or refused.
Reuse(b) ==
    /\ builder[b].at = "look"
    /\ reference # 0
    /\ Leave(b)
    /\ UNCHANGED <<reference, fresh, pod, content, stored, inFlight, crowded, deaths>>

\* Sources and recipe are staged in a directory of their own.
StageBuild(b, i) ==
    /\ builder[b].at = "look"
    /\ reference = 0
    /\ i \in fresh
    /\ fresh' = fresh \ {i}
    /\ builder' = [builder EXCEPT ![b] = [at |-> "recover", build |-> i, outcome |-> "failed", digest |-> 0]]
    /\ UNCHANGED <<keyLock, reference, pod, content, stored, inFlight, crowded, deaths>>

Deleted(state) == IF state \in {"running", "ended"} THEN "deleting" ELSE state

\* Mutant: the Job of a builder that died is left alone.
RecoverNothing(b) ==
    /\ builder[b].at = "recover"
    /\ Continue(b, "create")
    /\ UNCHANGED <<keyLock, reference, fresh, pod, content, stored, inFlight, crowded, deaths>>

\* Jobs with the label of this key are deleted; if there were any, all Pods
\* with the label have to be gone.
Recover(b) ==
    /\ builder[b].at = "recover"
    /\ pod' = [i \in Build |-> Deleted(pod[i])]
    /\ Continue(b, IF Present = {} THEN "create" ELSE "clear")
    /\ UNCHANGED <<keyLock, reference, fresh, content, stored, inFlight, crowded, deaths>>

Cleared(b) ==
    /\ builder[b].at = "clear"
    /\ Present = {}
    /\ Continue(b, "create")
    /\ UNCHANGED <<keyLock, reference, fresh, pod, content, stored, inFlight, crowded, deaths>>

CreateBuild(b) ==
    /\ builder[b].at = "create"
    /\ pod' = [pod EXCEPT ![builder[b].build] = "running"]
    /\ Continue(b, "wait")
    /\ UNCHANGED <<keyLock, reference, fresh, content, stored, inFlight, crowded, deaths>>

AwaitBuild(b) ==
    /\ builder[b].at = "wait"
    /\ pod[builder[b].build] = "ended"
    /\ builder' = [builder EXCEPT ![b] = [at |-> "stop", build |-> @.build, outcome |-> "built", digest |-> 0]]
    /\ UNCHANGED <<keyLock, reference, fresh, pod, content, stored, inFlight, crowded, deaths>>

\* The Job fails, takes too long, or writes more than output_budget allows.
BuildFails(b) ==
    /\ builder[b].at = "wait"
    /\ Continue(b, "stop")
    /\ UNCHANGED <<keyLock, reference, fresh, pod, content, stored, inFlight, crowded, deaths>>

\* stopped: the Job is deleted, then its Pod has to be gone.
StopBuild(b) ==
    /\ builder[b].at = "stop"
    /\ pod' = [pod EXCEPT ![builder[b].build] = Deleted(@)]
    /\ Continue(b, "drain")
    /\ UNCHANGED <<keyLock, reference, fresh, content, stored, inFlight, crowded, deaths>>

\* Mutant: the directory is sealed while the Pod shuts down.
SealAtOnce(b) ==
    /\ builder[b].at = "drain"
    /\ IF builder[b].outcome = "built" THEN Continue(b, "seal") /\ UNCHANGED keyLock ELSE Leave(b)
    /\ UNCHANGED <<reference, fresh, pod, content, stored, inFlight, crowded, deaths>>

Drained(b) ==
    /\ builder[b].at = "drain"
    /\ pod[builder[b].build] = "gone"
    /\ IF builder[b].outcome = "built" THEN Continue(b, "seal") /\ UNCHANGED keyLock ELSE Leave(b)
    /\ UNCHANGED <<reference, fresh, pod, content, stored, inFlight, crowded, deaths>>

\* An error ends prepare: a call to Kubernetes fails, Pods do not stop within two
\* minutes, an entry is refused or the disk is full.  Job and output are left
\* alone, and a Job whose creation was given up may still come.  Errors of the Job
\* itself only end the wait for it (BuildFails).
PrepareFails(b) ==
    /\ builder[b].at \notin {"away", "wait"}
    /\ \/ UNCHANGED inFlight
       \/ builder[b].at = "create" /\ inFlight' = inFlight \cup {builder[b].build}
    /\ Leave(b)
    /\ UNCHANGED <<reference, fresh, pod, content, stored, crowded, deaths>>

\* manifest, with its limits: every entry is hashed and made read-only.
Seal(b) ==
    LET h == DigestOf(builder[b].build) IN
    /\ builder[b].at = "seal"
    /\ h \in Digest
    /\ builder' = [builder EXCEPT ![b] = [at |-> "move", build |-> @.build, outcome |-> "built", digest |-> h]]
    /\ UNCHANGED <<keyLock, reference, fresh, pod, content, stored, inFlight, crowded, deaths>>

\* A directory that has this digest already stays.
MoveToStore(b) ==
    /\ builder[b].at = "move"
    /\ stored' = [stored EXCEPT ![builder[b].digest] = IF @ = NoBuild THEN builder[b].build ELSE @]
    /\ Continue(b, "verify")
    /\ UNCHANGED <<keyLock, reference, fresh, pod, content, inFlight, crowded, deaths>>

VerifyStored(b) ==
    /\ builder[b].at = "verify"
    /\ IF Intact(builder[b].digest) THEN Continue(b, "refer") /\ UNCHANGED keyLock ELSE Leave(b)
    /\ UNCHANGED <<reference, fresh, pod, content, stored, inFlight, crowded, deaths>>

Refer(b) ==
    /\ builder[b].at = "refer"
    /\ reference' = builder[b].digest
    /\ Leave(b)
    /\ UNCHANGED <<fresh, pod, content, stored, inFlight, crowded, deaths>>

\* Mutant: the lock is a file that the dead builder does not remove.
DieLocked(b) ==
    /\ builder[b].at # "away"
    /\ deaths < MaxDeaths
    /\ deaths' = deaths + 1
    /\ inFlight' = IF builder[b].at = "create" THEN inFlight \cup {builder[b].build} ELSE inFlight
    /\ builder' = [builder EXCEPT ![b] = Away]
    /\ UNCHANGED <<keyLock, reference, fresh, pod, content, stored, crowded>>

\* The process dies, or the portal's dispatcher drops the operation.
Die(b) ==
    /\ builder[b].at # "away"
    /\ deaths < MaxDeaths
    /\ deaths' = deaths + 1
    /\ inFlight' = IF builder[b].at = "create" THEN inFlight \cup {builder[b].build} ELSE inFlight
    /\ Leave(b)
    /\ UNCHANGED <<reference, fresh, pod, content, stored, crowded>>

-----------------------------------------------------------------------------
(* Kubernetes.                                                             *)

PodWrites(i) ==
    /\ i \in Writing
    /\ content' = [content EXCEPT ![i] = @ + 1]
    /\ UNCHANGED <<keyLock, reference, builder, fresh, pod, stored, inFlight, crowded, deaths>>

PodMoves(i) ==
    /\ pod' = [pod EXCEPT ![i] = CASE @ = "running" -> "ended"
                                   [] @ = "deleting" -> "gone"
                                   [] OTHER -> @]
    /\ pod' # pod
    /\ UNCHANGED <<keyLock, reference, builder, fresh, content, stored, inFlight, crowded, deaths>>

LateJob(i) ==
    /\ i \in inFlight
    /\ inFlight' = inFlight \ {i}
    /\ pod' = [pod EXCEPT ![i] = "running"]
    /\ crowded' = TRUE
    /\ UNCHANGED <<keyLock, reference, builder, fresh, content, stored, deaths>>

BuilderStep(b) ==
    \/ Reuse(b) \/ (\E i \in Build : StageBuild(b, i))
    \/ Recover(b) \/ Cleared(b) \/ CreateBuild(b) \/ AwaitBuild(b) \/ BuildFails(b)
    \/ StopBuild(b) \/ Drained(b) \/ PrepareFails(b)
    \/ Seal(b) \/ MoveToStore(b) \/ VerifyStored(b) \/ Refer(b)

CacheNext ==
    \/ \E b \in Builder : LockKey(b) \/ BuilderStep(b) \/ Die(b)
    \/ \E i \in Build : PodWrites(i) \/ PodMoves(i) \/ LateJob(i)

CacheSpec == CacheInit /\ [][CacheNext]_cacheVars

-----------------------------------------------------------------------------
\* A cache that an exercise refers to has the contents its digest names, for
\* good: no Pod of any builder, dead or alive, writes to it after it was
\* verified.
ReferredIsIntact == reference # 0 => Intact(reference)

\* "A per-key OS file lock prevents concurrent builders, and retry stops a
\* previous attempt's remaining Job before starting again"
\* (docs/exercises.md:432): two Jobs write for one key only if one of them was
\* created by a request that outlived its sender.
OneJobPerKey == Cardinality({i \in Build : pod[i] = "running"}) <= 1 \/ crowded

\* Nobody keeps the key: after a death, a Job that hangs or Pods that do not
\* stop, the command can be repeated.
KeyIsFreed == keyLock # NoBuilder ~> keyLock = NoBuilder
=============================================================================
