----------------------------- MODULE MCServices -----------------------------
(* The services around grading for TLC: the administrator portal, the life   *)
(* of a repository on GitHub, the publishing of a grade, the executor and    *)
(* the preparation of a build cache.  They share no variable: what one of    *)
(* them needs of another is a step of its own model.  A behaviour is one of  *)
(* the first component that moves; the others stay in their initial states,  *)
(* so that the state space is the sum of theirs and not the product.         *)
EXTENDS AdminPortal, Provisioning, Publishing, Executor, BuildCache

CONSTANTS a1, a2, s1, s2,  \* administrators and their sessions
          w1, w2,          \* control worker loops
          l1, l2           \* leases of a public and of a private run

VARIABLE service  \* the component that runs

MCOwnerOf == [s \in Session |-> IF s = s1 THEN a1 ELSE a2]
\* The version another program leaves behind is refused by these actions.
MCUnfit == {<<"private_grade", 2>>}
\* Locks have a loop of their own; a second worker process serves all kinds.
MCServes == [w \in Worker |-> IF w = w1 THEN {"provision"} ELSE TaskKind]

allVars == <<vars, provVars, pubVars, exVars, cacheVars, service>>

MCInit ==
    /\ Init /\ ProvInit /\ PubInit /\ ExInit /\ CacheInit
    /\ service \in {"portal", "provisioning", "publishing", "executor", "cache"}

MCNext ==
    /\ UNCHANGED service
    /\ \/ /\ service = "portal" /\ Next
          /\ UNCHANGED <<provVars, pubVars, exVars, cacheVars>>
       \/ /\ service = "provisioning" /\ ProvNext
          /\ UNCHANGED <<vars, pubVars, exVars, cacheVars>>
       \/ /\ service = "publishing" /\ PubNext
          /\ UNCHANGED <<vars, provVars, exVars, cacheVars>>
       \/ /\ service = "executor" /\ ExNext
          /\ UNCHANGED <<vars, provVars, pubVars, cacheVars>>
       \/ /\ service = "cache" /\ CacheNext
          /\ UNCHANGED <<vars, provVars, pubVars, exVars>>

(* Fairness, of the component that runs.                                     *)

\* Dispatchers are started while an operation waits, and go on.
PortalFairness ==
    /\ WF_vars(service = "portal" /\ Wake)
    /\ \A d \in Dispatcher : WF_vars(service = "portal" /\ Advance(d))

\* sync runs every day; a worker that has a task goes on with it, and an advisory
\* lock is granted in the order it was asked for.  Locks have a loop of their own
\* (work), so a pending lock task is leased at last: the strong fairness stands
\* for the loop that here may also lease provisions.
ProvFairness ==
    /\ WF_provVars(service = "provisioning" /\ SyncStep)
    /\ WF_provVars(service = "provisioning" /\ StrayLands)
    /\ \A w \in Worker : WF_provVars(service = "provisioning" /\ WorkerStep(w))
    /\ \A w \in {v \in Worker : "lock" \in Serves[v]} :
          /\ SF_provVars(service = "provisioning" /\ Lease(w, "lock"))
          /\ SF_provVars(service = "provisioning" /\ TakeGuard(w))

\* A worker loop goes on with the task it has.
PubFairness ==
    \A p \in Publisher : WF_pubVars(service = "publishing" /\ PublishStep(p))

\* The process runs, or is started again; a run's time limit passes; Kubernetes
\* ends Jobs at their deadline, removes Pods and finished Jobs; the clock goes
\* on.  No lease and no request has to come.
ExFairness ==
    /\ WF_exVars(service = "executor" /\ ExecutorStep)
    /\ WF_exVars(service = "executor" /\ TimeIsUp)
    /\ \A l \in Token : WF_exVars(service = "executor" /\ KubeStep(l))

\* prepare goes on: all its waits have timeouts.
CacheFairness ==
    \A b \in Builder : WF_cacheVars(service = "cache" /\ BuilderStep(b))

MCSpec ==
    /\ MCInit
    /\ [][MCNext]_allVars
    /\ PortalFairness /\ ProvFairness /\ PubFairness /\ ExFairness /\ CacheFairness

\* Behaviours of provisioning and locking alone.
LockSpec ==
    /\ MCInit /\ service = "provisioning"
    /\ [][MCNext]_allVars
    /\ ProvFairness
=============================================================================
