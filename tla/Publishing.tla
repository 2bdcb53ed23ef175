----------------------------- MODULE Publishing -----------------------------
(***************************************************************************)
(* The official grade of one run becomes a check run on GitHub: publish    *)
(* (crates/cli/src/lifecycle.rs) and publish_check                         *)
(* (crates/github/src/repository.rs).                                      *)
(*                                                                         *)
(* The worker reads the outbox, asks GitHub for the check run that carries *)
(* the run's id, updates that one or creates one, and stores its id.       *)
(* Each of these is a step; a lease may run out between two of them, a     *)
(* worker may die, and an answer may be lost after GitHub did its part.    *)
(***************************************************************************)
EXTENDS Naturals, FiniteSets

CONSTANTS Publisher,    \* control worker loops
          NoPublisher,
          MaxHitches    \* bound: failures, lost leases, deaths

ASSUME PublisherAssumption == NoPublisher \notin Publisher /\ MaxHitches \in Nat

VARIABLES
    outbox,     \* github_check_id (0: NULL) and whether published_at is set
    pubTask,    \* status of the publish task
    pubHolder,  \* the worker whose lease on it is live
    publisher,  \* what each worker is doing, and the check run it has found
    checks,     \* GitHub: the check runs of this run
    posting,    \* POSTs under way that their senders have given up
    overlaps,   \* history: times a sender and its successor were both at work
    hitches

pubVars == <<outbox, pubTask, pubHolder, publisher, checks, posting, overlaps, hitches>>

AtRest == [at |-> "rest", found |-> 0]

PubInit ==
    /\ outbox = [check |-> 0, published |-> FALSE]
    /\ pubTask = "absent"
    /\ pubHolder = NoPublisher
    /\ publisher = [p \in Publisher |-> AtRest]
    /\ checks = {}
    /\ posting = 0
    /\ overlaps = 0
    /\ hitches = 0

\* accept: the outbox row and the task come with the result of the run.
EnqueuePublish ==
    /\ pubTask = "absent"
    /\ pubTask' = "pending"
    /\ UNCHANGED <<outbox, pubHolder, publisher, checks, posting, overlaps, hitches>>

\* Mutant: a task whose lease has run out is not leased again.
TakePending(p) ==
    /\ publisher[p].at = "rest"
    /\ pubTask = "pending"
    /\ pubTask' = "leased"
    /\ pubHolder' = p
    /\ publisher' = [publisher EXCEPT ![p] = [at |-> "look", found |-> outbox.check]]
    /\ UNCHANGED <<outbox, checks, posting, overlaps, hitches>>

\* The lease, and the id that the outbox knows by then.
TakePublish(p) ==
    /\ publisher[p].at = "rest"
    /\ pubTask = "pending" \/ (pubTask = "leased" /\ pubHolder = NoPublisher)
    /\ pubTask' = "leased"
    /\ pubHolder' = p
    /\ publisher' = [publisher EXCEPT ![p] = [at |-> "look", found |-> outbox.check]]
    /\ UNCHANGED <<outbox, checks, posting, overlaps, hitches>>

\* Mutant: a check run whose id was not stored is not looked for.
LookNowhere(p) ==
    /\ publisher[p].at = "look"
    /\ publisher' = [publisher EXCEPT ![p].at = "send"]
    /\ UNCHANGED <<outbox, pubTask, pubHolder, checks, posting, overlaps, hitches>>

\* GitHub is asked only if the outbox has no id.
LookForCheck(p) ==
    /\ publisher[p].at = "look"
    /\ \E id \in IF publisher[p].found # 0 \/ checks = {}
                 THEN {publisher[p].found} ELSE checks :
         publisher' = [publisher EXCEPT ![p] = [at |-> "send", found |-> id]]
    /\ UNCHANGED <<outbox, pubTask, pubHolder, checks, posting, overlaps, hitches>>

SendCheck(p) ==
    LET new == publisher[p].found = 0
        id == IF new THEN Cardinality(checks) + 1 ELSE publisher[p].found
    IN /\ publisher[p].at = "send"
       /\ checks' = checks \cup {id}
       /\ publisher' = [publisher EXCEPT ![p] = [at |-> "store", found |-> id]]
       /\ UNCHANGED <<outbox, pubTask, pubHolder, posting, overlaps, hitches>>

\* The outbox is written whoever holds the lease; finish asks for the lease.
StoreCheck(p) ==
    /\ publisher[p].at = "store"
    /\ outbox' = [check |-> publisher[p].found, published |-> TRUE]
    /\ pubTask' = IF pubHolder = p THEN "done" ELSE pubTask
    /\ pubHolder' = IF pubHolder = p THEN NoPublisher ELSE pubHolder
    /\ publisher' = [publisher EXCEPT ![p] = AtRest]
    /\ UNCHANGED <<checks, posting, overlaps, hitches>>

-----------------------------------------------------------------------------
Hitch == hitches < MaxHitches /\ hitches' = hitches + 1

\* A POST is under way, and may arrive when its sender has gone on without it:
\* then sender and successor are both at work.
LeavesPost(p) ==
    /\ publisher[p] = [at |-> "send", found |-> 0]
    /\ posting' = posting + 1
    /\ overlaps' = overlaps + 1

\* A request fails, or the client waits no longer for its answer: if the lease is
\* ours there is another attempt, or none is left and an operator has to retry
\* the task.
PublishFails(p) ==
    /\ publisher[p].at # "rest"
    /\ Hitch
    /\ \E status \in {"pending", "failed"} :
         pubTask' = IF pubHolder = p THEN status ELSE pubTask
    /\ pubHolder' = IF pubHolder = p THEN NoPublisher ELSE pubHolder
    /\ publisher' = [publisher EXCEPT ![p] = AtRest]
    /\ LeavesPost(p) \/ UNCHANGED <<posting, overlaps>>
    /\ UNCHANGED <<outbox, checks>>

\* The lease runs out while the worker is at work.
PublishStalls(p) ==
    /\ pubHolder = p
    /\ Hitch
    /\ pubHolder' = NoPublisher
    /\ overlaps' = overlaps + 1
    /\ UNCHANGED <<outbox, pubTask, publisher, checks, posting>>

\* The worker dies; its lease ends later.
PublisherDies(p) ==
    /\ publisher[p].at # "rest"
    /\ Hitch
    /\ pubHolder' = IF pubHolder = p THEN NoPublisher ELSE pubHolder
    /\ publisher' = [publisher EXCEPT ![p] = AtRest]
    /\ LeavesPost(p) \/ UNCHANGED <<posting, overlaps>>
    /\ UNCHANGED <<outbox, pubTask, checks>>

PostArrives ==
    /\ posting > 0
    /\ posting' = posting - 1
    /\ checks' = checks \cup {Cardinality(checks) + 1}
    /\ UNCHANGED <<outbox, pubTask, pubHolder, publisher, overlaps, hitches>>

PublishStep(p) == TakePublish(p) \/ LookForCheck(p) \/ SendCheck(p) \/ StoreCheck(p)

PubNext ==
    \/ EnqueuePublish \/ PostArrives
    \/ \E p \in Publisher : PublishStep(p) \/ PublishFails(p) \/ PublishStalls(p)
                              \/ PublisherDies(p)

PubSpec == PubInit /\ [][PubNext]_pubVars

-----------------------------------------------------------------------------
\* A run has one check run on its commit however often its task fails, loses
\* an answer or is tried again; a further one needs a sender that was still at
\* work, or whose POST was, when its successor had begun.
OneCheckPerSender == Cardinality(checks) <= 1 + overlaps

\* A grade whose publishing is queued is published in the end, under
\* the id of a check run that GitHub has, across deaths and lost leases; or the
\* task has used up its attempts.
GradeGetsPublished ==
    pubTask = "pending" ~>
        [](pubTask = "failed" \/ (outbox.published /\ outbox.check \in checks))
=============================================================================
