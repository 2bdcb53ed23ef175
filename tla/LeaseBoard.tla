----------------------------- MODULE LeaseBoard -----------------------------
(***************************************************************************)
(* What the task queue promises to the code that uses it, without tokens,  *)
(* lease times, attempts or back-off.  A task is posted, claimed by one    *)
(* worker at a time, and settled only by the worker that holds the claim,  *)
(* as that worker reports its outcome; a worker whose claim has lapsed can *)
(* only walk away.  TaskQueue is shown to implement this.                  *)
(***************************************************************************)
CONSTANTS Task,      \* the dedup keys that may be enqueued
          Worker,    \* the worker loops
          None       \* no worker, no task

VARIABLES phase,     \* what the board shows for each task
          holder,    \* the worker whose claim on the task is live
          busy       \* the task each worker is working on

vars == <<phase, holder, busy>>

Init ==
    /\ phase = [t \in Task |-> "absent"]
    /\ holder = [t \in Task |-> None]
    /\ busy = [w \in Worker |-> None]

Post(t) ==
    /\ phase[t] = "absent"
    /\ phase' = [phase EXCEPT ![t] = "open"]
    /\ UNCHANGED <<holder, busy>>

Claim(w, t) ==
    /\ phase[t] = "open"
    /\ busy[w] = None
    /\ phase' = [phase EXCEPT ![t] = "claimed"]
    /\ holder' = [holder EXCEPT ![t] = w]
    /\ busy' = [busy EXCEPT ![w] = t]

\* The holder reports: the task is settled, or open again for a retry.
Report(w, t) ==
    /\ phase[t] = "claimed"
    /\ holder[t] = w
    /\ busy[w] = t
    /\ \E p \in {"open", "settled"} : phase' = [phase EXCEPT ![t] = p]
    /\ holder' = [holder EXCEPT ![t] = None]
    /\ busy' = [busy EXCEPT ![w] = None]

\* A worker stops without a word: it crashed or it found its claim lapsed.
WalkAway(w) ==
    /\ busy[w] # None
    /\ busy' = [busy EXCEPT ![w] = None]
    /\ UNCHANGED <<phase, holder>>

\* Time passes and some claims lapse.
Lapse(S) ==
    /\ S # {}
    /\ \A t \in S : phase[t] = "claimed"
    /\ phase' = [t \in Task |-> IF t \in S THEN "open" ELSE phase[t]]
    /\ holder' = [t \in Task |-> IF t \in S THEN None ELSE holder[t]]
    /\ UNCHANGED busy

\* Tasks nobody holds are given up: obsolete work, or no attempts are left.
Withdraw(S) ==
    /\ S # {}
    /\ \A t \in S : phase[t] = "open"
    /\ phase' = [t \in Task |-> IF t \in S THEN "settled" ELSE phase[t]]
    /\ UNCHANGED <<holder, busy>>

Reopen(t) ==
    /\ phase[t] = "settled"
    /\ phase' = [phase EXCEPT ![t] = "open"]
    /\ UNCHANGED <<holder, busy>>

Next ==
    \/ \E t \in Task : Post(t) \/ Reopen(t)
    \/ \E w \in Worker, t \in Task : Claim(w, t) \/ Report(w, t)
    \/ \E w \in Worker : WalkAway(w)
    \/ \E S \in SUBSET Task : Lapse(S) \/ Withdraw(S)

Spec == Init /\ [][Next]_vars
=============================================================================
