-------------------------- MODULE AdminPortalProofs --------------------------
(***************************************************************************)
(* AdminPortal for any number of operations, administrators and            *)
(* dispatchers, some of which may have lost their lock: an operation is    *)
(* applied at most once, its page tells the truth, and an administrator    *)
(* remains.                                                                *)
(***************************************************************************)
EXTENDS AdminPortal, TLAPS

Befores == {None} \cup ((UNION {[Reads(a) -> Nat] : a \in Offered}) \X SUBSET Account)
Plans == [before : Befores, catalog : Nat \cup {None}, token : Dispatcher \cup {None}]

OpType == op \in [Op -> [state : State, session : Session \cup {None},
                         action : Offered \cup {None}, subject : Account \cup {None},
                         plan : Plans, denied : BOOLEAN]]
DispType == disp \in [Dispatcher -> [pc : Pc, op : Op \cup {None}, plan : Plans,
                                     left : Nat, expected : Nat \cup {None}]]
Changes == [op : Op \cup {None}, action : Membership, who : Account]
DataType == /\ admins \subseteq Account
            /\ changing \subseteq Changes
            /\ rec \in [Record -> Nat]
            /\ done \in [Op -> Nat]

Validating == {"validating", "storing", "failing_validation"}
Applying == {"applying", "preparing", "publishing", "writing", "applied", "failing"}
Writing == {"preparing", "publishing", "writing"}
Late == {"applying", "succeeded", "failed", "uncertain"}

\* A dispatcher has an operation exactly while it works on one, which has been
\* submitted.
Engaged ==
    /\ \A d \in Dispatcher : disp[d].pc \in Validating \cup Applying =>
          disp[d].op \in Op /\ op[disp[d].op].state # "absent"
    /\ \A o \in Op : op[o].state # "absent" =>
          /\ op[o].action \in Offered
          /\ op[o].action \in Membership => op[o].subject # None

\* One dispatcher applies an operation, once: nothing leads back from the late
\* states to one in which it would be picked.
Single ==
    /\ \A d \in Dispatcher : disp[d].pc \in Applying => op[disp[d].op].state \in Late
    /\ \A d, e \in Dispatcher :
          /\ disp[d].pc \in Applying /\ disp[e].pc \in Applying
          /\ disp[d].op = disp[e].op
          => d = e

\* The transactions of an operation are counted down by the dispatcher that
\* applies it.
Counted ==
    /\ \A o \in Op : done[o] > 0 => op[o].state \in Late /\ done[o] <= Steps(op[o].action)
    /\ \A d \in Dispatcher :
          /\ disp[d].pc = "applying" => done[disp[d].op] = 0
          /\ disp[d].pc \in Writing =>
                disp[d].left > 0 /\ done[disp[d].op] + disp[d].left = Steps(op[disp[d].op].action)
          /\ disp[d].pc \in {"preparing", "publishing"} =>
                disp[d].left = 1 /\ op[disp[d].op].action \in CatalogActions
          /\ disp[d].pc = "applied" => done[disp[d].op] = Steps(op[disp[d].op].action)

\* After a success nobody works on the operation any more.
Succeeded ==
    \A o \in Op : op[o].state = "succeeded" =>
        /\ done[o] = Steps(op[o].action)
        /\ \A d \in Dispatcher : disp[d].pc \in Applying => disp[d].op # o

\* As long as nobody has outlived its lock, the holder is the only dispatcher,
\* and the operation it validates is where it left it.
Exclusive ==
    ~outlived =>
        /\ \A d \in Dispatcher : disp[d].pc # "off" => lock = d
        /\ \A d \in Dispatcher : disp[d].pc \in Validating => op[disp[d].op].state = "validating"
        /\ \A o \in Op : op[o].denied =>
              /\ op[o].state = "failed" /\ done[o] = 0
              /\ \A d \in Dispatcher : disp[d].pc \in Applying => disp[d].op # o

PortalInv ==
    /\ OpType /\ DispType /\ DataType
    /\ Engaged /\ Single /\ Counted /\ Succeeded /\ Exclusive

\* How many transactions there are is a number, and a catalog has one.
LEMMA StepsType == \A a \in Action : Steps(a) \in Nat
                                     /\ (a \in CatalogActions => Steps(a) = 1)
  BY PortalAssumption
  DEF Steps, Action, Imports, CatalogActions, GradeActions, WorkerActions, Membership,
      ReadOnly, Sweeps

\* An offered catalog action needs the catalog's record.
LEMMA CatalogRecord == \A a \in Offered \cap CatalogActions : "exercise" \in Record
<1>. SUFFICES ASSUME NEW a \in Offered, a \in CatalogActions PROVE "exercise" \in Record
  OBVIOUS
<1>1. Target(a) = "exercise"
  BY DEF Target, CatalogActions, WorkerActions, Membership
<1>. QED  BY <1>1 DEF Record

\* What a plan remembers of the records.
LEMMA SnapshotType ==
  ASSUME DataType, NEW a \in Offered
  PROVE  Snapshot(a) \in Befores /\ Catalog(a) \in Nat \cup {None}
<1>1. Reads(a) \subseteq Record
  BY DEF Record
<1>2. Rows(a) \in [Reads(a) -> Nat]
  BY <1>1 DEF Rows, DataType
<1>3. Rows(a) \in UNION {[Reads(x) -> Nat] : x \in Offered}
  BY <1>2
<1>4. (IF a \in Membership \cup {"admin_list"} THEN admins ELSE {}) \in SUBSET Account
  BY DEF DataType
<1>5. Snapshot(a) \in Befores
  BY <1>3, <1>4 DEF Snapshot, Befores
<1>6. a \in CatalogActions => "exercise" \in Record
  BY CatalogRecord
<1>7. Catalog(a) \in Nat \cup {None}
  BY <1>6 DEF Catalog, DataType
<1>. QED  BY <1>5, <1>7

\* At the start there is no operation and no dispatcher.
LEMMA PortalInitially == Init => PortalInv
<1>. SUFFICES ASSUME Init PROVE PortalInv
  OBVIOUS
<1>1. NoPlan \in Plans
  BY DEF NoPlan, Plans, Befores
<1>2. OpType
  BY <1>1 DEF Init, NoOp, OpType, State
<1>3. DispType
  BY <1>1 DEF Init, Off, DispType, Pc
<1>4. DataType
  BY DEF Init, DataType
<1>5. Engaged /\ Single /\ Counted /\ Succeeded /\ Exclusive
  BY
  DEF Init, NoOp, Off, Engaged, Single, Counted, Succeeded, Exclusive, Validating, Applying,
      Writing
<1>. QED  BY <1>2, <1>3, <1>4, <1>5 DEF PortalInv

-----------------------------------------------------------------------------
(* Steps of one dispatcher.  What matters of a step is which pc it leads to *)
(* and whether it changes the operation.                                    *)

Consistent == Engaged /\ Single /\ Counted /\ Succeeded /\ Exclusive

OthersStay(d) ==
    \A e \in Dispatcher \ {d} : disp'[e] = disp[e]
OtherOpsStay(o) ==
    \A p \in Op \ {o} : op'[p] = op[p]

\* A dispatcher goes on with its operation and changes only its own variables.
LEMMA GoesOn ==
  ASSUME PortalInv, NEW d \in Dispatcher,
         UNCHANGED <<op, done, lock, outlived>>, OthersStay(d),
         disp[d].pc # "off", disp'[d].op = disp[d].op,
         disp'[d].pc \in Validating => disp[d].pc \in Validating,
         disp'[d].pc \in Applying => disp[d].pc \in Applying,
         disp'[d].pc # "applying",
         disp'[d].pc \in Writing =>
            /\ disp'[d].left > 0
            /\ done[disp[d].op] + disp'[d].left = Steps(op[disp[d].op].action),
         disp'[d].pc \in {"preparing", "publishing"} =>
            disp'[d].left = 1 /\ op[disp[d].op].action \in CatalogActions,
         disp'[d].pc = "applied" => done[disp[d].op] = Steps(op[disp[d].op].action)
  PROVE  Consistent'
<1>1. Engaged'
  BY DEF PortalInv, Engaged, OthersStay, Validating, Applying
<1>2. Single'
  BY DEF PortalInv, Single, OthersStay
<1>3. Counted'
  BY DEF PortalInv, Counted, OthersStay
<1>4. Succeeded'
  BY DEF PortalInv, Succeeded, OthersStay
<1>5. Exclusive'
  BY DEF PortalInv, Exclusive, OthersStay
<1>. QED  BY <1>1, <1>2, <1>3, <1>4, <1>5 DEF Consistent

\* A dispatcher commits one transaction of its operation.
LEMMA Commits ==
  ASSUME PortalInv, NEW d \in Dispatcher, disp[d].pc \in {"publishing", "writing"}, Committed(d),
         UNCHANGED <<op, lock, outlived>>
  PROVE  Consistent' /\ DispType' /\ done' \in [Op -> Nat]
<1>. DEFINE o == disp[d].op
<1>1. /\ o \in Op /\ op[o].action \in Action
      /\ disp[d].pc \in Writing /\ disp[d].pc \in Applying
  BY PortalAssumption DEF PortalInv, Engaged, Writing, Applying
<1>2. /\ Steps(op[o].action) \in Nat
      /\ disp[d].left \in Nat /\ disp[d].left > 0
      /\ done[o] \in Nat /\ done[o] + disp[d].left = Steps(op[o].action)
  BY <1>1, StepsType DEF PortalInv, Counted, DispType, DataType
<1>3. /\ done' \in [Op -> Nat] /\ done'[o] = done[o] + 1
      /\ \A p \in Op \ {o} : done'[p] = done[p]
  BY <1>1 DEF Committed, PortalInv, DataType
<1>4. /\ DispType' /\ OthersStay(d)
      /\ disp'[d].op = o
      /\ disp'[d].left = disp[d].left - 1
      /\ disp'[d].pc = IF disp[d].left = 1 THEN "applied" ELSE disp[d].pc
  BY <1>2 DEF Committed, PortalInv, DispType, OthersStay, Pc
<1>5. disp[d].pc = "publishing" => disp[d].left = 1
  BY DEF PortalInv, Counted
<1>6. disp'[d].pc \in {"applied", "writing"}
  BY <1>4, <1>5
<1>7. Engaged'
  BY <1>1, <1>4, <1>6 DEF PortalInv, Engaged, OthersStay, Validating, Applying
<1>8. Single'
  BY <1>1, <1>4, <1>6 DEF PortalInv, Single, OthersStay
<1>9. op[o].state \in Late /\ \A e \in Dispatcher \ {d} : disp[e].pc \in Applying => disp[e].op # o
  BY <1>1 DEF PortalInv, Single
<1>10. Counted'
  <2>1. \A p \in Op : done'[p] > 0 => op[p].state \in Late /\ done'[p] <= Steps(op[p].action)
    BY <1>1, <1>2, <1>3, <1>9 DEF PortalInv, Counted
  <2>2. ASSUME NEW e \in Dispatcher \ {d}, disp[e].pc \in Applying PROVE disp[e].op \in Op \ {o}
    BY <2>2, <1>9 DEF PortalInv, Engaged
  <2>. QED
    BY <2>1, <2>2, <1>2, <1>3, <1>4, <1>6 DEF PortalInv, Counted, OthersStay, Applying, Writing
<1>11. Succeeded'
  BY <1>1, <1>3, <1>4, <1>6 DEF PortalInv, Succeeded, OthersStay, Applying
<1>12. Exclusive'
  BY <1>1, <1>3, <1>4, <1>6 DEF PortalInv, Exclusive, OthersStay, Applying, Validating
<1>. QED  BY <1>3, <1>4, <1>7, <1>8, <1>10, <1>11, <1>12 DEF Consistent

\* A dispatcher is done with its operation, whose new state is one of the late
\* ones, or ready if it was being validated.
LEMMA Ends ==
  ASSUME PortalInv, NEW d \in Dispatcher, disp[d].pc \in Validating \cup Applying,
         UNCHANGED <<done, lock, outlived>>, OthersStay(d), OtherOpsStay(disp[d].op),
         disp'[d].pc = "idle",
         op'[disp[d].op].action = op[disp[d].op].action,
         op'[disp[d].op].subject = op[disp[d].op].subject,
         \/ op'[disp[d].op] = op[disp[d].op]
         \/ /\ op[disp[d].op].state = "validating" /\ op'[disp[d].op].state = "ready"
            /\ op'[disp[d].op].denied = op[disp[d].op].denied
         \/ /\ op'[disp[d].op].state = "failed"
            /\ op'[disp[d].op].denied => disp[d].pc = "failing_validation"
         \/ /\ op[disp[d].op].state = "applying" /\ disp[d].pc = "applied"
            /\ op'[disp[d].op].state = "succeeded"
            /\ op'[disp[d].op].denied = op[disp[d].op].denied
  PROVE  Consistent'
<1>. DEFINE o == disp[d].op
<1>1. o \in Op /\ op[o].state # "absent"
  BY DEF PortalInv, Engaged
<1>2. Engaged'
  BY <1>1 DEF PortalInv, Engaged, OthersStay, OtherOpsStay, Validating, Applying
<1>3. Single'
  BY <1>1 DEF PortalInv, Single, Engaged, OthersStay, OtherOpsStay, Applying, Late
<1>4. Counted'
  <2>1. \A e \in Dispatcher : disp'[e].pc # "idle" => e # d /\ disp'[e] = disp[e]
    BY DEF OthersStay
  <2>2. \A p \in Op : op'[p].action = op[p].action
    BY <1>1 DEF OtherOpsStay
  <2>3. \A p \in Op : op[p].state \in Late => op'[p].state \in Late
    BY <1>1 DEF OtherOpsStay, Late
  <2>4. \A e \in Dispatcher : disp[e].pc \in Applying => disp[e].op \in Op
    BY DEF PortalInv, Engaged
  <2>5. \A p \in Op : done'[p] > 0 =>
           op'[p].state \in Late /\ done'[p] <= Steps(op'[p].action)
    BY <2>2, <2>3 DEF PortalInv, Counted
  <2>6. \A e \in Dispatcher : e # d /\ disp[e].pc \in Applying =>
           op'[disp[e].op].action = op[disp[e].op].action
    BY <2>2, <2>4
  <2>7. ASSUME NEW e \in Dispatcher
        PROVE  /\ disp'[e].pc = "applying" => done'[disp'[e].op] = 0
               /\ disp'[e].pc \in Writing =>
                     /\ disp'[e].left > 0
                     /\ done'[disp'[e].op] + disp'[e].left = Steps(op'[disp'[e].op].action)
               /\ disp'[e].pc \in {"preparing", "publishing"} =>
                     disp'[e].left = 1 /\ op'[disp'[e].op].action \in CatalogActions
               /\ disp'[e].pc = "applied" =>
                     done'[disp'[e].op] = Steps(op'[disp'[e].op].action)
    <3>1. CASE disp'[e].pc \notin Applying
      BY <3>1 DEF Applying, Writing
    <3>2. CASE disp'[e].pc \in Applying
      <4>1. e # d /\ disp'[e] = disp[e]
        BY <3>2, <2>1 DEF Applying
      <4>2. op'[disp[e].op].action = op[disp[e].op].action
        BY <4>1, <3>2, <2>6
      <4>3. done' = done
        OBVIOUS
      <4>. QED  BY <4>1, <4>2, <4>3 DEF PortalInv, Counted
    <3>. QED  BY <3>1, <3>2
  <2>. QED  BY <2>5, <2>7 DEF Counted
<1>5. Succeeded'
  BY <1>1 DEF PortalInv, Succeeded, Single, Counted, OthersStay, OtherOpsStay, Applying
<1>6. Exclusive'
  <2>. SUFFICES ASSUME ~outlived PROVE Exclusive'
    BY DEF Exclusive
  <2>1. lock = d
    BY DEF PortalInv, Exclusive, Validating, Applying
  <2>2. \A e \in Dispatcher : e # d => disp[e].pc = "off"
    BY <2>1 DEF PortalInv, Exclusive
  <2>3. \A e \in Dispatcher : disp'[e].pc \in {"idle", "off"} /\ (disp'[e].pc # "off" => e = d)
    <3>. TAKE e \in Dispatcher
    <3>1. CASE e = d
      BY <3>1
    <3>2. CASE e # d
      BY <3>2, <2>2 DEF OthersStay
    <3>. QED  BY <3>1, <3>2
  <2>4. \A p \in Op : op'[p].denied => op'[p].state = "failed" /\ done[p] = 0
    <3>1. disp[d].pc = "failing_validation" => op[o].state = "validating" /\ done[o] = 0
      <4>1. disp[d].pc = "failing_validation" => op[o].state = "validating"
        BY DEF PortalInv, Exclusive, Validating
      <4>2. done[o] \in Nat /\ (done[o] > 0 => op[o].state \in Late)
        BY <1>1 DEF PortalInv, Counted, DataType
      <4>. QED  BY <4>1, <4>2 DEF Late
    <3>2. \A p \in Op : op[p].denied => op[p].state = "failed" /\ done[p] = 0
      BY DEF PortalInv, Exclusive
    <3>. QED  BY <1>1, <3>1, <3>2 DEF OtherOpsStay
  <2>. QED  BY <2>1, <2>3, <2>4 DEF Exclusive, Validating, Applying
<1>. QED  BY <1>2, <1>3, <1>4, <1>5, <1>6 DEF Consistent

-----------------------------------------------------------------------------
(* The actions.                                                            *)

\* A failing step keeps its operation and its stage.
LEMMA FailingInv ==
  ASSUME PortalInv, NEW d \in Dispatcher, Working(d), Failing(d),
         UNCHANGED <<op, lock, database, history, bounds>>
  PROVE  PortalInv'
<1>1. disp[d].pc \in Pc
  BY DEF PortalInv, DispType
<1>2. /\ DispType' /\ OthersStay(d) /\ disp'[d].op = disp[d].op
      /\ disp'[d].pc = IF disp[d].pc \in {"validating", "storing"}
                       THEN "failing_validation" ELSE "failing"
  BY DEF Failing, At, PortalInv, DispType, OthersStay, Pc
<1>3. Consistent'
  BY <1>1, <1>2, GoesOn DEF Working, history, Pc, Validating, Applying, Writing
<1>4. OpType' /\ DataType'
  BY DEF PortalInv, OpType, DataType, database, history
<1>. QED  BY <1>2, <1>3, <1>4 DEF PortalInv, Consistent

\* The loop goes round without an operation.
LEMMA FindNothingInv == ASSUME PortalInv, NEW d \in Dispatcher, FindNothing(d) PROVE PortalInv'
<1>1. /\ DispType' /\ OthersStay(d) /\ disp'[d].op = disp[d].op
      /\ disp'[d].pc = "idle"
  BY DEF FindNothing, At, PortalInv, DispType, OthersStay, Pc
<1>2. Consistent'
  BY <1>1, GoesOn DEF FindNothing, history, Validating, Applying, Writing
<1>3. OpType' /\ DataType'
  BY DEF FindNothing, PortalInv, OpType, DataType, database, history
<1>. QED  BY <1>1, <1>2, <1>3 DEF PortalInv, Consistent

\* The plan is made, or the input refused.
LEMMA PrepareInv == ASSUME PortalInv, NEW d \in Dispatcher, Prepare(d) PROVE PortalInv'
<1>. DEFINE a == op[disp[d].op].action
<1>1. CASE Accepts(a, op[disp[d].op].subject)
  <2>1. a \in Offered
    BY DEF Prepare, PortalInv, Engaged, Validating
  <2>2. [before |-> Snapshot(a), catalog |-> Catalog(a), token |-> d] \in Plans
    BY <2>1, SnapshotType DEF PortalInv, Plans
  <2>3. disp' = [disp EXCEPT ![d] =
                   [pc |-> "storing", op |-> @.op, left |-> 0, expected |-> None,
                    plan |-> [before |-> Snapshot(a), catalog |-> Catalog(a), token |-> d]]]
    BY <1>1 DEF Prepare
  <2>4. /\ DispType' /\ OthersStay(d) /\ disp'[d].op = disp[d].op /\ disp'[d].pc = "storing"
    BY <2>2, <2>3 DEF PortalInv, DispType, OthersStay, Pc
  <2>5. Consistent'
    BY <2>4, GoesOn DEF Prepare, history, Validating, Applying, Writing
  <2>6. OpType' /\ DataType'
    BY DEF Prepare, PortalInv, OpType, DataType, database, history
  <2>. QED  BY <2>4, <2>5, <2>6 DEF PortalInv, Consistent
<1>2. CASE ~Accepts(a, op[disp[d].op].subject)
  BY <1>2, FailingInv DEF Prepare, Working
<1>. QED  BY <1>1, <1>2

\* The records are compared: the transactions are counted out, or it fails.
LEMMA RecheckInv == ASSUME PortalInv, NEW d \in Dispatcher, Recheck(d) PROVE PortalInv'
<1>. DEFINE o == disp[d].op
            a == op[o].action
<1>1. CASE StillAsReviewed(d)
  <2>1. o \in Op /\ a \in Action
    BY PortalAssumption DEF Recheck, PortalInv, Engaged, Applying
  <2>2. Steps(a) \in Nat /\ (a \in CatalogActions => Steps(a) = 1)
    BY <2>1, StepsType
  <2>3. disp' = [disp EXCEPT ![d] =
                   [pc |-> CASE Steps(a) = 0 -> "applied"
                             [] a \in CatalogActions -> "preparing"
                             [] OTHER -> "writing",
                    op |-> @.op, plan |-> @.plan, left |-> Steps(a), expected |-> None]]
    BY <1>1 DEF Recheck
  <2>4. PICK pc \in {"applied", "preparing", "writing"} :
          /\ disp' = [disp EXCEPT ![d] = [pc |-> pc, op |-> @.op, plan |-> @.plan,
                                          left |-> Steps(a), expected |-> None]]
          /\ pc = "applied" <=> Steps(a) = 0
          /\ pc = "preparing" => Steps(a) = 1 /\ a \in CatalogActions
    <3>1. CASE Steps(a) = 0
      <4>1. a \notin CatalogActions
        BY <3>1, <2>2
      <4>. QED  BY <3>1, <4>1, <2>3
    <3>2. CASE Steps(a) # 0 /\ a \in CatalogActions
      BY <3>2, <2>2, <2>3
    <3>3. CASE Steps(a) # 0 /\ a \notin CatalogActions
      BY <3>3, <2>2, <2>3
    <3>. QED  BY <3>1, <3>2, <3>3
  <2>5. /\ DispType' /\ OthersStay(d) /\ disp'[d].op = o /\ disp'[d].pc = pc
        /\ disp'[d].left = Steps(a)
    BY <2>2, <2>4 DEF PortalInv, DispType, OthersStay, Pc
  <2>6. done[o] = 0 /\ disp[d].pc \in Applying
    BY DEF Recheck, PortalInv, Counted, Applying
  <2>7. Consistent'
    BY <2>2, <2>4, <2>5, <2>6, GoesOn DEF Recheck, history, Validating, Applying, Writing
  <2>8. OpType' /\ DataType'
    BY DEF Recheck, PortalInv, OpType, DataType, database, history
  <2>. QED  BY <2>5, <2>7, <2>8 DEF PortalInv, Consistent
<1>2. CASE ~StillAsReviewed(d)
  BY <1>2, FailingInv DEF Recheck, Working
<1>. QED  BY <1>1, <1>2

\* The revision that was read is remembered.
LEMMA PrepareExerciseInv ==
  ASSUME PortalInv, NEW d \in Dispatcher, PrepareExercise(d) PROVE PortalInv'
<1>0. "exercise" \in Record
  BY CatalogRecord DEF PrepareExercise, PortalInv, Counted, Engaged, Applying
<1>1. /\ DispType' /\ OthersStay(d) /\ disp'[d].op = disp[d].op /\ disp'[d].pc = "publishing"
      /\ disp'[d].left = disp[d].left
  BY <1>0 DEF PrepareExercise, PortalInv, DispType, DataType, OthersStay, Pc
<1>2. /\ disp[d].pc \in Writing /\ disp[d].pc \in Applying
      /\ disp[d].left = 1 /\ done[disp[d].op] + disp[d].left = Steps(op[disp[d].op].action)
      /\ op[disp[d].op].action \in CatalogActions
  BY DEF PrepareExercise, PortalInv, Counted, Writing, Applying
<1>3. Consistent'
  BY <1>1, <1>2, GoesOn DEF PrepareExercise, history, Validating, Applying, Writing
<1>4. OpType' /\ DataType'
  BY DEF PrepareExercise, PortalInv, OpType, DataType, database, history
<1>. QED  BY <1>1, <1>3, <1>4 DEF PortalInv, Consistent

\* A transaction raises the version of its record.
LEMMA RaiseType ==
  ASSUME DataType, NEW r \in Record, Raise(r) PROVE rec' \in [Record -> Nat]
  BY DEF DataType, Raise

\* The transactions: of imports, grades, workers and sweeps,
LEMMA WritesInv ==
  ASSUME PortalInv, NEW d \in Dispatcher, Import(d) \/ Write(d) \/ SweepOn(d)
  PROVE  PortalInv'
<1>. DEFINE a == op[disp[d].op].action
<1>1. a \in Offered
  BY DEF Import, Write, SweepOn, PortalInv, Engaged, Applying
<1>2. Target(a) \in Record
  BY <1>1 DEF Record
<1>3. Consistent' /\ DispType' /\ done' \in [Op -> Nat]
  BY Commits DEF Import, Write, SweepOn
<1>4. rec' \in [Record -> Nat] /\ UNCHANGED <<admins, changing, op>>
  BY <1>2, RaiseType DEF Import, Write, SweepOn, PortalInv
<1>. QED  BY <1>3, <1>4 DEF PortalInv, Consistent, OpType, DataType

\* of the audit row of a regrade,
LEMMA AuditRegradeInv ==
  ASSUME PortalInv, NEW d \in Dispatcher, AuditRegrade(d) PROVE PortalInv'
<1>1. Consistent' /\ DispType' /\ done' \in [Op -> Nat]
  BY Commits DEF AuditRegrade
<1>2. UNCHANGED <<op, admins, changing, rec>>
  BY DEF AuditRegrade, database
<1>. QED  BY <1>1, <1>2 DEF PortalInv, Consistent, OpType, DataType

\* of a change of the administrators, which counts them first,
LEMMA BeginChangeType ==
  ASSUME DataType, NEW o \in Op \cup {None}, NEW a \in Membership, NEW who \in Account,
         BeginChange(o, a, who), done' = done
  PROVE  DataType'
  BY DEF BeginChange, DataType, Changes

LEMMA CommitChangeType ==
  ASSUME DataType, NEW c \in changing, CommitChange(c)
  PROVE  admins' \subseteq Account /\ changing' \subseteq Changes /\ rec' \in [Record -> Nat]
<1>1. rec' \in [Record -> Nat]
  BY RaiseType DEF CommitChange, Record
<1>2. c.who \in Account
  BY DEF DataType, Changes
<1>. QED  BY <1>1, <1>2 DEF CommitChange, DataType

LEMMA BeginMembershipInv ==
  ASSUME PortalInv, NEW d \in Dispatcher, BeginMembership(d) PROVE PortalInv'
<1>. DEFINE o == disp[d].op
<1>1. o \in Op /\ op[o].state # "absent" /\ op[o].action \in Membership
  BY DEF BeginMembership, PortalInv, Engaged, Applying
<1>2. op[o].subject \in Account
  BY <1>1 DEF PortalInv, OpType, Engaged
<1>3. BeginChange(o, op[o].action, op[o].subject) /\ UNCHANGED <<op, disp, lock, done, outlived>>
  BY DEF BeginMembership, history
<1>4. DataType'
  BY <1>1, <1>2, <1>3, BeginChangeType DEF PortalInv
<1>. QED
  BY <1>3, <1>4
  DEF PortalInv, OpType, DispType, Engaged, Single, Counted, Succeeded, Exclusive

LEMMA WriteMembershipInv ==
  ASSUME PortalInv, NEW d \in Dispatcher, WriteMembership(d) PROVE PortalInv'
<1>1. PICK c \in changing : CommitChange(c)
  BY DEF WriteMembership
<1>2. Consistent' /\ DispType' /\ done' \in [Op -> Nat]
  BY Commits DEF WriteMembership
<1>3. admins' \subseteq Account /\ changing' \subseteq Changes /\ rec' \in [Record -> Nat]
  BY <1>1, CommitChangeType DEF PortalInv
<1>4. op' = op
  BY DEF WriteMembership
<1>. QED  BY <1>2, <1>3, <1>4 DEF PortalInv, Consistent, OpType, DataType

\* and of a catalog.
LEMMA PublishInv ==
  ASSUME PortalInv, NEW d \in Dispatcher, Publish(d) PROVE PortalInv'
<1>0. "exercise" \in Record
  BY CatalogRecord DEF Publish, PortalInv, Counted, Engaged, Applying
<1>1. Consistent' /\ DispType' /\ done' \in [Op -> Nat]
  BY Commits DEF Publish
<1>2. rec' \in [Record -> Nat] /\ UNCHANGED <<admins, changing, op>>
  BY <1>0, RaiseType DEF Publish, PortalInv
<1>. QED  BY <1>1, <1>2 DEF PortalInv, Consistent, OpType, DataType

\* A dispatcher that has finished with an operation is idle.
LEMMA BackToIdle ==
  ASSUME PortalInv, NEW d \in Dispatcher, disp' = [disp EXCEPT ![d] = Looping]
  PROVE  DispType' /\ OthersStay(d) /\ disp'[d].pc = "idle"
<1>1. NoPlan \in Plans
  BY DEF NoPlan, Plans, Befores
<1>2. /\ Looping \in [pc : Pc, op : Op \cup {None}, plan : Plans,
                      left : Nat, expected : Nat \cup {None}]
      /\ Looping.pc = "idle"
  BY <1>1 DEF Looping, Pc
<1>. QED  BY <1>2 DEF PortalInv, DispType, OthersStay

\* The plan is stored if the operation is still being validated.
LEMMA StoreInv == ASSUME PortalInv, NEW d \in Dispatcher, Store(d) PROVE PortalInv'
<1>. DEFINE o == disp[d].op
<1>1. o \in Op /\ disp[d].pc \in Validating /\ disp[d].plan \in Plans
  BY DEF Store, PortalInv, Engaged, DispType, Validating
<1>2. DispType' /\ OthersStay(d) /\ disp'[d].pc = "idle"
  BY BackToIdle DEF Store
<1>3. /\ OpType' /\ OtherOpsStay(o)
      /\ \/ op'[o] = op[o]
         \/ /\ op[o].state = "validating" /\ op'[o].state = "ready"
            /\ op'[o].action = op[o].action /\ op'[o].subject = op[o].subject
            /\ op'[o].denied = op[o].denied
  <2>1. CASE op[o].state = "validating"
    BY <1>1, <2>1 DEF Store, PortalInv, OpType, OtherOpsStay, State
  <2>2. CASE op[o].state # "validating"
    BY <1>1, <2>2 DEF Store, PortalInv, OpType, OtherOpsStay
  <2>. QED  BY <2>1, <2>2
<1>4. Consistent'
  BY <1>1, <1>2, <1>3, Ends DEF Store, history
<1>5. DataType'
  BY DEF Store, PortalInv, DataType, database, history
<1>. QED  BY <1>2, <1>3, <1>4, <1>5 DEF PortalInv, Consistent

\* A failure is recorded whatever the state of the operation is.
LEMMA RecordFailureInv == ASSUME PortalInv, NEW d \in Dispatcher, RecordFailure(d) PROVE PortalInv'
<1>. DEFINE o == disp[d].op
<1>1. o \in Op /\ disp[d].pc \in Validating \cup Applying
  BY DEF RecordFailure, PortalInv, Engaged, Validating, Applying
<1>2. DispType' /\ OthersStay(d) /\ disp'[d].pc = "idle"
  BY BackToIdle DEF RecordFailure
<1>3. PICK denied \in BOOLEAN :
        /\ op' = [op EXCEPT ![o] = [state |-> "failed", session |-> @.session,
                                    action |-> @.action, subject |-> @.subject,
                                    plan |-> @.plan, denied |-> denied]]
        /\ denied => disp[d].pc = "failing_validation"
  BY Zenon DEF RecordFailure
<1>4. /\ OpType' /\ OtherOpsStay(o)
      /\ op'[o].state = "failed" /\ op'[o].denied = denied
      /\ op'[o].action = op[o].action /\ op'[o].subject = op[o].subject
  BY <1>1, <1>3 DEF PortalInv, OpType, OtherOpsStay, State
<1>5. Consistent'
  BY <1>1, <1>2, <1>3, <1>4, Ends DEF RecordFailure, history
<1>6. DataType'
  BY DEF RecordFailure, PortalInv, DataType, database, history
<1>. QED  BY <1>2, <1>4, <1>5, <1>6 DEF PortalInv, Consistent

\* A success is recorded only for an operation that is being applied.
LEMMA FinishInv == ASSUME PortalInv, NEW d \in Dispatcher, Finish(d) PROVE PortalInv'
<1>. DEFINE o == disp[d].op
<1>1. o \in Op /\ disp[d].pc \in Applying
  BY DEF Finish, PortalInv, Engaged, Applying
<1>2. DispType' /\ OthersStay(d) /\ disp'[d].pc = "idle"
  BY BackToIdle DEF Finish
<1>3. /\ OpType' /\ OtherOpsStay(o)
      /\ \/ op'[o] = op[o]
         \/ /\ op[o].state = "applying" /\ op'[o].state = "succeeded"
            /\ op'[o].action = op[o].action /\ op'[o].subject = op[o].subject
            /\ op'[o].denied = op[o].denied
  <2>1. CASE op[o].state = "applying"
    BY <1>1, <2>1 DEF Finish, PortalInv, OpType, OtherOpsStay, State
  <2>2. CASE op[o].state # "applying"
    BY <1>1, <2>2 DEF Finish, PortalInv, OpType, OtherOpsStay
  <2>. QED  BY <2>1, <2>2
<1>4. Consistent'
  BY <1>1, <1>2, <1>3, Ends DEF Finish, history
<1>5. DataType'
  BY DEF Finish, PortalInv, DataType, database, history
<1>. QED  BY <1>2, <1>3, <1>4, <1>5 DEF PortalInv, Consistent

\* A new operation is nobody's yet.
LEMMA SubmitInv ==
  ASSUME PortalInv, NEW o \in Op, NEW s \in Session, NEW a \in Offered,
         NEW who \in Account \cup {None}, Submit(o, s, a, who)
  PROVE  PortalInv'
<1>1. NoPlan \in Plans
  BY DEF NoPlan, Plans, Befores
<1>2. /\ OpType' /\ OtherOpsStay(o) /\ op[o].state = "absent"
      /\ op'[o].state = "pending_validation" /\ op'[o].action = a /\ op'[o].subject = who
      /\ op'[o].denied = FALSE
      /\ a \in Membership => who # None
  BY <1>1 DEF Submit, PortalInv, OpType, OtherOpsStay, State, Busy
<1>3. UNCHANGED <<disp, lock, admins, changing, rec, done, outlived>>
  BY DEF Submit, database, history
<1>4. Engaged'
  BY <1>2, <1>3 DEF PortalInv, Engaged, OtherOpsStay
<1>5. Single' /\ Succeeded'
  BY <1>2, <1>3 DEF PortalInv, Single, Succeeded, Engaged, OtherOpsStay, Applying
<1>6. Counted'
  BY <1>2, <1>3 DEF PortalInv, Counted, Engaged, OtherOpsStay, Applying, Writing, Late, DataType
<1>7. Exclusive'
  BY <1>2, <1>3 DEF PortalInv, Exclusive, Engaged, OtherOpsStay, Validating
<1>8. DispType' /\ DataType'
  BY <1>3 DEF PortalInv, DispType, DataType
<1>. QED  BY <1>2, <1>4, <1>5, <1>6, <1>7, <1>8 DEF PortalInv

\* The states of operations that are neither in a dispatcher's hands nor late may
\* move on: confirmation and expiry.
LEMMA WaitingMoves ==
  ASSUME PortalInv, UNCHANGED <<lock, admins, changing, rec, done, outlived>>, OpType', DispType',
         NEW free \in SUBSET Op,
         \A o \in free : /\ op[o].state = "ready" /\ op'[o].state \in {"queued", "expired"}
                         /\ op'[o].denied = op[o].denied,
         \A o \in Op \ free : op'[o] = op[o],
         \A o \in Op : op'[o].action = op[o].action /\ op'[o].subject = op[o].subject,
         \A d \in Dispatcher :
            \/ disp'[d] = disp[d]
            \/ /\ disp[d].pc = "idle" /\ disp'[d].pc = "polling"
  PROVE  PortalInv'
<1>1. Engaged'
  BY DEF PortalInv, Engaged, Validating, Applying
<1>2. Single'
  BY DEF PortalInv, Engaged, Single, Applying, Late
<1>3. Counted'
  BY DEF PortalInv, Engaged, Counted, Applying, Writing, Late
<1>4. Succeeded'
  BY DEF PortalInv, Succeeded, Applying
<1>5. Exclusive'
  BY DEF PortalInv, Engaged, Exclusive, Validating, Applying
<1>6. DataType'
  BY DEF PortalInv, DataType
<1>. QED  BY <1>1, <1>2, <1>3, <1>4, <1>5, <1>6 DEF PortalInv

\* Confirmation.
LEMMA ConfirmInv ==
  ASSUME PortalInv, NEW o \in Op, NEW s \in Session, NEW t \in Dispatcher, Confirm(o, s, t)
  PROVE  PortalInv'
<1>1. /\ op[o].state = "ready"
      /\ op' = [op EXCEPT ![o].state = "queued"]
  BY DEF Confirm, IsConfirmable
<1>2. UNCHANGED <<disp, lock, admins, changing, rec, done, outlived>>
  BY DEF Confirm, database, history
<1>3. /\ OpType' /\ op'[o].state = "queued" /\ op'[o].denied = op[o].denied
      /\ op'[o].action = op[o].action /\ op'[o].subject = op[o].subject
      /\ \A p \in Op \ {o} : op'[p] = op[p]
  BY <1>1 DEF PortalInv, OpType, State, Busy
<1>4. DispType'
  BY <1>2 DEF PortalInv, DispType
<1>5. {o} \in SUBSET Op
  OBVIOUS
<1>. QED  BY <1>1, <1>2, <1>3, <1>4, <1>5, WaitingMoves

\* The top of the loop.
LEMMA PollInv == ASSUME PortalInv, NEW d \in Dispatcher, Poll(d) PROVE PortalInv'
<1>1. PICK expiring \in SUBSET {o \in Op : op[o].state = "ready"} :
        op' = [o \in Op |-> IF o \in expiring THEN [op[o] EXCEPT !.state = "expired"] ELSE op[o]]
  BY DEF Poll
<1>2. UNCHANGED <<lock, admins, changing, rec, done, outlived>>
  BY DEF Poll, database, history
<1>3. /\ OpType'
      /\ \A o \in expiring : /\ op[o].state = "ready" /\ op'[o].state = "expired"
                             /\ op'[o].denied = op[o].denied
                             /\ op'[o].action = op[o].action /\ op'[o].subject = op[o].subject
      /\ \A o \in Op \ expiring : op'[o] = op[o]
  BY <1>1 DEF PortalInv, OpType, State
<1>4. /\ DispType' /\ disp[d].pc = "idle" /\ disp'[d].pc = "polling"
      /\ \A e \in Dispatcher \ {d} : disp'[e] = disp[e]
  BY DEF Poll, At, PortalInv, DispType, Pc
<1>5. \A e \in Dispatcher : disp'[e] = disp[e] \/ (disp[e].pc = "idle" /\ disp'[e].pc = "polling")
  BY <1>4
<1>6. expiring \in SUBSET Op
  BY <1>1
<1>. QED  BY <1>2, <1>3, <1>4, <1>5, <1>6, WaitingMoves

\* A new dispatcher takes over what a former one has left behind.
LEMMA StartInv == ASSUME PortalInv, NEW d \in Dispatcher, Start(d) PROVE PortalInv'
<1>1. /\ op' = [o \in Op |-> [op[o] EXCEPT !.state = OnStart(@)]]
      /\ disp[d].pc = "off" /\ lock = None /\ lock' = d
  BY DEF Start
<1>2. UNCHANGED <<admins, changing, rec, done, outlived>>
  BY DEF Start, database, history
<1>3. \A o \in Op : OnStart(op[o].state) \in State
  BY DEF PortalInv, OpType, OnStart, State, Busy
<1>4. /\ OpType'
      /\ \A o \in Op : /\ op'[o].state = OnStart(op[o].state)
                       /\ op'[o].denied = op[o].denied
                       /\ op'[o].action = op[o].action /\ op'[o].subject = op[o].subject
  BY <1>1, <1>3 DEF PortalInv, OpType
<1>5. /\ DispType' /\ disp'[d].pc = "idle"
      /\ \A e \in Dispatcher \ {d} : disp'[e] = disp[e]
  BY DEF Start, At, PortalInv, DispType, Pc
<1>6. \A o \in Op : /\ op[o].state \in Late => op'[o].state \in Late
                    /\ op[o].state = "absent" <=> op'[o].state = "absent"
                    /\ op[o].state = "succeeded" <=> op'[o].state = "succeeded"
                    /\ op[o].state = "failed" <=> op'[o].state = "failed"
  BY <1>4 DEF OnStart, Late
<1>7. Engaged'
  BY <1>4, <1>5, <1>6 DEF PortalInv, Engaged, Validating, Applying
<1>8. Single'
  BY <1>4, <1>5, <1>6 DEF PortalInv, Single, Engaged, Applying
<1>9. Counted'
  BY <1>2, <1>4, <1>5, <1>6 DEF PortalInv, Counted, Engaged, Applying, Writing
<1>10. Succeeded'
  BY <1>2, <1>4, <1>5, <1>6 DEF PortalInv, Succeeded, Applying
<1>11. Exclusive'
  <2>1. ~outlived => \A e \in Dispatcher : disp[e].pc = "off"
    BY <1>1, PortalAssumption DEF PortalInv, Exclusive
  <2>2. ~outlived => \A e \in Dispatcher : /\ disp'[e].pc # "off" => lock' = e
                                            /\ disp'[e].pc \in {"off", "idle"}
    BY <2>1, <1>1, <1>5
  <2>3. ~outlived => \A o \in Op : op'[o].denied => op'[o].state = "failed" /\ done'[o] = 0
    <3>. SUFFICES ASSUME ~outlived, NEW o \in Op, op'[o].denied
                  PROVE  op'[o].state = "failed" /\ done'[o] = 0
      OBVIOUS
    <3>1. op[o].denied
      BY <1>4
    <3>2. op[o].state = "failed" /\ done[o] = 0
      BY <3>1 DEF PortalInv, Exclusive
    <3>. QED  BY <3>2, <1>2, <1>6
  <2>. QED  BY <2>2, <2>3, <1>2 DEF Exclusive, Validating, Applying
<1>12. DataType'
  BY <1>2 DEF PortalInv, DataType
<1>. QED  BY <1>4, <1>5, <1>7, <1>8, <1>9, <1>10, <1>11, <1>12 DEF PortalInv

\* A waiting operation is picked: nobody applies it yet.
LEMMA PickInv == ASSUME PortalInv, NEW d \in Dispatcher, NEW o \in Op, Pick(d, o) PROVE PortalInv'
<1>1. UNCHANGED <<lock, admins, changing, rec, done, outlived>> /\ disp[d].pc = "polling"
  BY DEF Pick, database
<1>2. NoPlan \in Plans
  BY DEF NoPlan, Plans, Befores
<1>3. PICK phase \in {"validating", "applying"} :
        /\ op[o].state = IF phase = "validating" THEN "pending_validation" ELSE "queued"
        /\ op' = [op EXCEPT ![o].state = phase]
        /\ \E plan \in Plans :
              disp' = [disp EXCEPT ![d] = [pc |-> phase, op |-> o, plan |-> plan,
                                           left |-> 0, expected |-> None]]
  <2>1. op[o].plan \in Plans
    BY DEF PortalInv, OpType
  <2>. QED  BY <1>2, <2>1 DEF Pick
<1>4. /\ OpType' /\ OtherOpsStay(o) /\ op'[o].state = phase /\ op'[o].denied = op[o].denied
      /\ op'[o].action = op[o].action /\ op'[o].subject = op[o].subject
  BY <1>3 DEF PortalInv, OpType, OtherOpsStay, State, Busy
<1>5. /\ DispType' /\ OthersStay(d) /\ disp'[d].pc = phase /\ disp'[d].op = o
  BY <1>3 DEF PortalInv, DispType, OthersStay, Pc
<1>6. \A e \in Dispatcher : disp[e].pc \in Applying => disp[e].op # o
  BY <1>3 DEF PortalInv, Single, Late
<1>7. done[o] = 0
  BY <1>3 DEF PortalInv, Counted, DataType, Late
<1>8. Engaged'
  BY <1>3, <1>4, <1>5 DEF PortalInv, Engaged, OthersStay, OtherOpsStay
<1>9. Single'
  BY <1>3, <1>4, <1>5, <1>6
  DEF PortalInv, Single, Engaged, OthersStay, OtherOpsStay, Applying, Late
<1>10. Counted'
  BY <1>1, <1>3, <1>4, <1>5, <1>6, <1>7
  DEF PortalInv, Counted, Engaged, OthersStay, OtherOpsStay, Applying, Writing, Late
<1>11. Succeeded'
  BY <1>1, <1>3, <1>4, <1>5, <1>6 DEF PortalInv, Succeeded, OthersStay, OtherOpsStay, Applying
<1>12. Exclusive'
  BY <1>1, <1>3, <1>4, <1>5, <1>6
  DEF PortalInv, Exclusive, OthersStay, OtherOpsStay, Applying, Validating
<1>13. DataType'
  BY <1>1 DEF PortalInv, DataType
<1>. QED  BY <1>4, <1>5, <1>8, <1>9, <1>10, <1>11, <1>12, <1>13 DEF PortalInv

\* A process ends, by itself or by a crash; the lock may be lost before.
LEMMA StopsInv ==
  ASSUME PortalInv, NEW d \in Dispatcher, NoticeLostLock(d) \/ Crash(d) \/ LoseLock(d)
  PROVE  PortalInv'
<1>1. NoPlan \in Plans
  BY DEF NoPlan, Plans, Befores
<1>2. Off \in [pc : Pc, op : Op \cup {None}, plan : Plans, left : Nat, expected : Nat \cup {None}]
      /\ Off.pc = "off"
  BY <1>1 DEF Off, Pc
<1>3. UNCHANGED <<op, admins, changing, rec, done>>
  BY DEF NoticeLostLock, Crash, LoseLock, database, history
<1>4. /\ DispType' /\ OthersStay(d)
      /\ disp'[d] = disp[d] \/ disp'[d].pc = "off"
  BY <1>2 DEF NoticeLostLock, Crash, LoseLock, PortalInv, DispType, OthersStay
<1>5. \/ outlived'
      \/ /\ outlived' = outlived /\ disp'[d].pc = "off"
         /\ lock' \in {lock, None} /\ (lock' # lock => lock = d)
  BY <1>2 DEF NoticeLostLock, Crash, LoseLock, PortalInv, DispType, history
<1>6. Engaged' /\ Single' /\ Counted' /\ Succeeded'
  BY <1>3, <1>4
  DEF PortalInv, Engaged, Single, Counted, Succeeded, OthersStay, Validating, Applying, Writing
<1>7. Exclusive'
  BY <1>3, <1>4, <1>5 DEF PortalInv, Exclusive, OthersStay, Validating, Applying
<1>8. OpType' /\ DataType'
  BY <1>3 DEF PortalInv, OpType, DataType
<1>. QED  BY <1>4, <1>6, <1>7, <1>8 DEF PortalInv

\* Other programs change records and administrators only.
LEMMA ElsewhereInv ==
  ASSUME PortalInv,
         \/ \E r \in Record \ {"admins"} : Elsewhere(r)
         \/ \E a \in Membership, who \in Account : BeginElsewhere(a, who)
         \/ \E c \in changing : ChangeAdminsElsewhere(c) \/ RollBack(c)
  PROVE  PortalInv'
<1>1. UNCHANGED <<op, disp, lock, done, outlived>>
  BY DEF Elsewhere, BeginElsewhere, ChangeAdminsElsewhere, RollBack, history
<1>2. DataType'
  <2>1. ASSUME NEW r \in Record \ {"admins"}, Elsewhere(r) PROVE DataType'
    BY <2>1, <1>1, RaiseType DEF Elsewhere, PortalInv, DataType
  <2>2. ASSUME NEW a \in Membership, NEW who \in Account, BeginElsewhere(a, who)
        PROVE  DataType'
    BY <2>2, <1>1, BeginChangeType DEF BeginElsewhere, PortalInv
  <2>3. ASSUME NEW c \in changing, ChangeAdminsElsewhere(c) PROVE DataType'
    BY <2>3, <1>1, CommitChangeType DEF ChangeAdminsElsewhere, PortalInv, DataType
  <2>4. ASSUME NEW c \in changing, RollBack(c) PROVE DataType'
    BY <2>4, <1>1 DEF RollBack, PortalInv, DataType
  <2>. QED  BY <2>1, <2>2, <2>3, <2>4
<1>. QED
  BY <1>1, <1>2
  DEF PortalInv, OpType, DispType, Engaged, Single, Counted, Succeeded, Exclusive

-----------------------------------------------------------------------------
\* Every step keeps the invariant.
LEMMA PortalStep == PortalInv /\ [Next]_vars => PortalInv'
<1>. SUFFICES ASSUME PortalInv, [Next]_vars PROVE PortalInv'
  OBVIOUS
<1>1. ASSUME NEW o \in Op, NEW s \in Session, NEW a \in Offered, NEW who \in Account \cup {None},
             Submit(o, s, a, who)
      PROVE  PortalInv'
  BY <1>1, SubmitInv
<1>2. ASSUME NEW o \in Op, NEW s \in Session, NEW t \in Dispatcher, Confirm(o, s, t)
      PROVE  PortalInv'
  BY <1>2, ConfirmInv
<1>3. ASSUME NEW d \in Dispatcher,
             \/ Start(d) \/ Poll(d) \/ FindNothing(d)
             \/ \E o \in Op : Pick(d, o)
             \/ NoticeLostLock(d) \/ Crash(d) \/ LoseLock(d)
      PROVE  PortalInv'
  BY <1>3, StartInv, PollInv, FindNothingInv, PickInv, StopsInv
<1>4. ASSUME NEW d \in Dispatcher, NotAuthorized(d) \/ StepFails(d) \/ RecordFailure(d)
      PROVE  PortalInv'
  BY <1>4, FailingInv, RecordFailureInv DEF NotAuthorized, StepFails
<1>5. ASSUME NEW d \in Dispatcher,
             \/ Prepare(d) \/ Store(d)
             \/ Recheck(d) \/ Import(d) \/ AuditRegrade(d) \/ Write(d) \/ SweepOn(d)
             \/ BeginMembership(d) \/ WriteMembership(d)
             \/ PrepareExercise(d) \/ Publish(d) \/ Finish(d)
      PROVE  PortalInv'
  BY <1>5, PrepareInv, StoreInv, RecheckInv, WritesInv, AuditRegradeInv, BeginMembershipInv,
     WriteMembershipInv, PrepareExerciseInv, PublishInv, FinishInv
<1>6. CASE \/ \E r \in Record \ {"admins"} : Elsewhere(r)
           \/ \E a \in Membership, who \in Account : BeginElsewhere(a, who)
         \/ \E c \in changing : ChangeAdminsElsewhere(c) \/ RollBack(c)
  BY <1>6, ElsewhereInv
<1>7. CASE UNCHANGED vars
  BY <1>7
  DEF vars, database, history, PortalInv, OpType, DispType, DataType, Engaged, Single,
      Counted, Succeeded, Exclusive
<1>. QED  BY <1>1, <1>2, <1>3, <1>4, <1>5, <1>6, <1>7, Zenon DEF Next

\* The invariant of the portal, for any number of operations and dispatchers.
THEOREM PortalInvariant == Spec => []PortalInv
  BY PortalInitially, PortalStep, PTL DEF Spec

\* Whatever dies, restarts or runs on without its lock, no transaction of a confirmed
\* operation is committed twice, and nothing leads back to its confirmation.
THEOREM OperationsApplyOnce == Spec => []AppliedOnce
<1>1. PortalInv => AppliedOnce
  BY DEF PortalInv, Counted, Late, AppliedOnce
<1>. QED  BY <1>1, PortalInvariant, PTL

\* The page of an operation does not say "failed" at validation, or "succeeded", of one
\* that was applied, or was not.
THEOREM PagesTellTheTruth == Spec => []OutcomeIsTrue
<1>1. PortalInv => OutcomeIsTrue
  BY DEF PortalInv, Succeeded, Exclusive, OutcomeIsTrue
<1>. QED  BY <1>1, PortalInvariant, PTL

-----------------------------------------------------------------------------
(* Stale plans.  Versions only grow: the records a plan was made for, those *)
(* at the moment the operation was picked, and those of now come in this    *)
(* order.  When the first and the last agree, so does the one between.      *)

\* The plan p of an action a was made for records no newer than R.
Past(a, p, R) ==
    /\ p.before[1] \in [Reads(a) -> Nat]
    /\ \A r \in Reads(a) : p.before[1][r] <= R[r]
    /\ IF a \in CatalogActions
       THEN p.catalog \in Nat /\ p.catalog <= R["exercise"]
       ELSE p.catalog = None

\* When the operation was picked the records were pk, after p and before R.
PickedBetween(a, p, pk, R) ==
    /\ pk = <<pk[1], pk[2]>>
    /\ pk[1] \in [Reads(a) -> Nat]
    /\ \A r \in Reads(a) : p.before[1][r] <= pk[1][r] /\ pk[1][r] <= R[r]
    /\ IF a \in CatalogActions
       THEN pk[2] \in Nat /\ p.catalog <= pk[2] /\ pk[2] <= R["exercise"]
       ELSE pk[2] = None

AsReviewed(pk, p) == pk = <<p.before[1], p.catalog>>

Proceeding == {"applying", "preparing", "publishing", "writing", "applied"}

\* What a dispatcher holds: a plan of the past that is the operation's own,
\* and from the comparison on the records of that plan.
Sure(d) ==
    /\ disp[d].pc = "storing" => Past(op[disp[d].op].action, disp[d].plan, rec)
    /\ disp[d].pc \in Proceeding =>
          /\ disp[d].plan = op[disp[d].op].plan
          /\ Past(op[disp[d].op].action, disp[d].plan, rec)
    /\ disp[d].pc = "applying" =>
          PickedBetween(op[disp[d].op].action, disp[d].plan, picked[disp[d].op], rec)
    /\ disp[d].pc \in Proceeding \ {"applying"} => AsReviewed(picked[disp[d].op], disp[d].plan)

Fresh ==
    /\ picked = [o \in Op |-> picked[o]]
    /\ \A o \in Op : op[o].state \in {"ready", "queued"} => Past(op[o].action, op[o].plan, rec)
    /\ \A d \in Dispatcher : Sure(d)
    /\ \A o \in Op : done[o] > 0 => AsReviewed(picked[o], op[o].plan)

RecGrows == rec' \in [Record -> Nat] /\ \A r \in Record : rec[r] <= rec'[r]

\* What is past stays past.
LEMMA PastStays ==
  ASSUME DataType, RecGrows, NEW a \in Offered, NEW p
  PROVE  /\ Past(a, p, rec) => Past(a, p, rec')
         /\ \A pk : PickedBetween(a, p, pk, rec) => PickedBetween(a, p, pk, rec')
<1>1. Reads(a) \subseteq Record /\ (a \in CatalogActions => "exercise" \in Record)
  BY CatalogRecord DEF Record
<1>2. /\ \A r \in Reads(a) : rec[r] \in Nat /\ rec'[r] \in Nat /\ rec[r] <= rec'[r]
      /\ a \in CatalogActions => /\ rec["exercise"] \in Nat /\ rec'["exercise"] \in Nat
                                 /\ rec["exercise"] <= rec'["exercise"]
  BY <1>1 DEF DataType, RecGrows
<1>3. Past(a, p, rec) => Past(a, p, rec')
  <2>. SUFFICES ASSUME Past(a, p, rec) PROVE Past(a, p, rec')
    OBVIOUS
  <2>1. \A r \in Reads(a) : p.before[1][r] <= rec'[r]
    <3>. SUFFICES ASSUME NEW r \in Reads(a) PROVE p.before[1][r] <= rec'[r]
      OBVIOUS
    <3>1. p.before[1][r] \in Nat /\ p.before[1][r] <= rec[r]
      BY DEF Past
    <3>. QED  BY <1>2, <3>1
  <2>2. a \in CatalogActions => p.catalog <= rec'["exercise"]
    BY <1>2 DEF Past
  <2>. QED  BY <2>1, <2>2 DEF Past
<1>4. ASSUME NEW pk, PickedBetween(a, p, pk, rec) PROVE PickedBetween(a, p, pk, rec')
  <2>1. \A r \in Reads(a) : pk[1][r] <= rec'[r]
    <3>. SUFFICES ASSUME NEW r \in Reads(a) PROVE pk[1][r] <= rec'[r]
      OBVIOUS
    <3>1. pk[1][r] \in Nat /\ pk[1][r] <= rec[r]
      BY <1>4 DEF PickedBetween
    <3>. QED  BY <1>2, <3>1
  <2>2. a \in CatalogActions => pk[2] <= rec'["exercise"]
    BY <1>2, <1>4 DEF PickedBetween
  <2>. QED  BY <1>4, <2>1, <2>2 DEF PickedBetween
<1>. QED  BY <1>3, <1>4

\* What a step has to respect: the action and, once it is made, the plan of an
\* operation, and what was picked.
LEMMA FreshStays ==
  ASSUME PortalInv, Fresh, RecGrows,
         picked' = [o \in Op |-> picked'[o]],
         \A o \in Op : op[o].state # "absent" => op'[o].action = op[o].action,
         \A o \in Op : op[o].state \notin {"absent", "validating"} => op'[o].plan = op[o].plan,
         \A o \in Op : op'[o].state \in {"ready", "queued"} =>
            op[o].state \in {"ready", "queued"} \/ Past(op'[o].action, op'[o].plan, rec'),
         \A o \in Op : op[o].state \in Late =>
            \/ picked'[o] = picked[o]
            \/ /\ AsReviewed(picked'[o], op[o].plan)
               /\ \A d \in Dispatcher : disp[d].pc = "applying" => disp[d].op # o,
         \A o \in Op : done'[o] > 0 => done[o] > 0 \/ AsReviewed(picked'[o], op'[o].plan),
         \A d \in Dispatcher : disp'[d] = disp[d] \/ Sure(d)'
  PROVE  Fresh'
<1>0. DataType
  BY DEF PortalInv
<1>1. \A o \in Op : op[o].state # "absent" => op[o].action \in Offered
  BY DEF PortalInv, Engaged
<1>2. ASSUME NEW o \in Op, op'[o].state \in {"ready", "queued"}
      PROVE  Past(op'[o].action, op'[o].plan, rec')
  <2>. SUFFICES ASSUME op[o].state \in {"ready", "queued"}
                PROVE  Past(op'[o].action, op'[o].plan, rec')
    BY <1>2
  <2>1. op'[o].action = op[o].action /\ op'[o].plan = op[o].plan /\ op[o].action \in Offered
    BY <1>1
  <2>2. Past(op[o].action, op[o].plan, rec)
    BY DEF Fresh
  <2>3. Past(op[o].action, op[o].plan, rec')
    BY <1>0, <2>1, <2>2, PastStays
  <2>. QED  BY <2>1, <2>3
<1>3. ASSUME NEW d \in Dispatcher, disp'[d] = disp[d] PROVE Sure(d)'
  <2>. DEFINE o == disp[d].op
              a == op[o].action
  <2>1. Sure(d)
    BY DEF Fresh
  <2>2. disp[d].pc \in Proceeding \cup {"storing"} =>
           o \in Op /\ a \in Offered /\ op'[o].action = a
    BY <1>1 DEF PortalInv, Engaged, Proceeding, Validating, Applying
  <2>3. disp[d].pc \in Proceeding => op[o].state \in Late
    BY DEF PortalInv, Single, Proceeding, Applying
  <2>4. disp[d].pc \in Proceeding => op'[o].plan = op[o].plan
    BY <2>2, <2>3 DEF Late
  <2>. HIDE DEF o, a
  <2>5. disp[d].pc \in Proceeding \cup {"storing"} => Past(a, disp[d].plan, rec')
    <3>1. disp[d].pc \in Proceeding \cup {"storing"} => Past(a, disp[d].plan, rec)
      BY <2>1 DEF Sure, o, a
    <3>. QED  BY <1>0, <2>2, <3>1, PastStays
  <2>6. disp[d].pc = "applying" => PickedBetween(a, disp[d].plan, picked'[o], rec')
    <3>. SUFFICES ASSUME disp[d].pc = "applying"
                  PROVE  PickedBetween(a, disp[d].plan, picked'[o], rec')
      OBVIOUS
    <3>0. "applying" \in Proceeding
      BY DEF Proceeding
    <3>1. PickedBetween(a, disp[d].plan, picked[o], rec)
      BY <2>1 DEF Sure, o, a
    <3>2. picked'[o] = picked[o]
      BY <2>2, <2>3, <3>0 DEF o
    <3>3. \A pk : PickedBetween(a, disp[d].plan, pk, rec) =>
                    PickedBetween(a, disp[d].plan, pk, rec')
      BY <1>0, <2>2, <3>0, PastStays
    <3>. QED  BY <3>1, <3>2, <3>3
  <2>7. disp[d].pc \in Proceeding \ {"applying"} => AsReviewed(picked'[o], disp[d].plan)
    BY <2>1, <2>2, <2>3 DEF Sure, AsReviewed, o
  <2>8. disp[d].pc \in Proceeding => disp[d].plan = op'[o].plan
    BY <2>1, <2>4 DEF Sure, o
  <2>. QED  BY <1>3, <2>2, <2>5, <2>6, <2>7, <2>8 DEF Sure, Proceeding, o
<1>4. ASSUME NEW o \in Op, done'[o] > 0 PROVE AsReviewed(picked'[o], op'[o].plan)
  <2>. SUFFICES ASSUME done[o] > 0 PROVE AsReviewed(picked'[o], op'[o].plan)
    BY <1>4
  <2>1. op[o].state \in Late
    BY DEF PortalInv, Counted
  <2>2. op'[o].plan = op[o].plan
    BY <2>1 DEF Late
  <2>3. AsReviewed(picked[o], op[o].plan)
    BY DEF Fresh
  <2>. QED  BY <2>1, <2>2, <2>3 DEF AsReviewed
<1>. QED  BY <1>2, <1>3, <1>4 DEF Fresh

\* Versions never go down.
LEMMA RaiseGrows ==
  ASSUME DataType
  PROVE  (rec' = rec => RecGrows) /\ (\A r \in Record : Raise(r) => RecGrows)
<1>1. rec' = rec => RecGrows
  BY DEF DataType, RecGrows
<1>2. ASSUME NEW r \in Record, Raise(r) PROVE RecGrows
  <2>1. \A q \in Record : rec[q] \in Nat /\ rec'[q] = IF q = r THEN rec[q] + 1 ELSE rec[q]
    BY <1>2 DEF DataType, Raise
  <2>2. rec' \in [Record -> Nat]
    BY <1>2, RaiseType
  <2>. QED  BY <2>1, <2>2 DEF RecGrows
<1>. QED  BY <1>1, <1>2

\* At the start nothing is planned.
LEMMA FreshInitially == Init => Fresh
<1>. SUFFICES ASSUME Init PROVE Fresh
  OBVIOUS
<1>1. picked = [o \in Op |-> picked[o]]
  BY DEF Init
<1>2. \A o \in Op : op[o].state = "absent" /\ done[o] = 0
  BY DEF Init, NoOp
<1>3. \A d \in Dispatcher : disp[d].pc = "off"
  BY DEF Init, Off
<1>. QED  BY <1>1, <1>2, <1>3 DEF Fresh, Sure, Proceeding

\* Operations and what was picked stay; a dispatcher may stop or fail.
LEMMA QuietFresh ==
  ASSUME PortalInv, Fresh, RecGrows, UNCHANGED <<op, picked, done>>,
         \A d \in Dispatcher :
            disp'[d] = disp[d] \/ disp'[d].pc \notin Proceeding \cup {"storing"}
  PROVE  Fresh'
<1>1. \A d \in Dispatcher : disp'[d] = disp[d] \/ Sure(d)'
  BY DEF Sure, Proceeding
<1>2. picked' = [o \in Op |-> picked'[o]]
  BY DEF Fresh
<1>. QED  BY <1>1, <1>2, FreshStays

LEMMA FailingFresh ==
  ASSUME PortalInv, Fresh, NEW d \in Dispatcher, Failing(d),
         UNCHANGED <<op, lock, database, history, bounds>>
  PROVE  Fresh'
<1>1. RecGrows
  BY RaiseGrows DEF PortalInv, database
<1>2. \A e \in Dispatcher : disp'[e] = disp[e] \/ disp'[e].pc \in {"failing_validation", "failing"}
  BY DEF Failing, At, PortalInv, DispType
<1>3. \A e \in Dispatcher : disp'[e] = disp[e] \/ disp'[e].pc \notin Proceeding \cup {"storing"}
  BY <1>2 DEF Proceeding
<1>. QED  BY <1>1, <1>3, QuietFresh DEF history

LEMMA StopsFresh ==
  ASSUME PortalInv, Fresh, NEW d \in Dispatcher,
         NoticeLostLock(d) \/ Crash(d) \/ LoseLock(d) \/ FindNothing(d)
  PROVE  Fresh'
<1>1. rec' = rec /\ UNCHANGED <<op, picked, done>>
  BY DEF NoticeLostLock, Crash, LoseLock, FindNothing, database, history
<1>2. RecGrows
  BY <1>1, RaiseGrows DEF PortalInv
<1>3. \A e \in Dispatcher : disp'[e] = disp[e] \/ disp'[e].pc \in {"off", "idle"}
  <2>1. Off.pc = "off"
    BY DEF Off
  <2>. QED  BY <2>1 DEF NoticeLostLock, Crash, LoseLock, FindNothing, At, PortalInv, DispType
<1>4. \A e \in Dispatcher : disp'[e] = disp[e] \/ disp'[e].pc \notin Proceeding \cup {"storing"}
  BY <1>3 DEF Proceeding
<1>. QED  BY <1>1, <1>2, <1>4, QuietFresh

LEMMA ElsewhereFresh ==
  ASSUME PortalInv, Fresh,
         \/ \E r \in Record \ {"admins"} : Elsewhere(r)
         \/ \E a \in Membership, who \in Account : BeginElsewhere(a, who)
         \/ \E c \in changing : ChangeAdminsElsewhere(c) \/ RollBack(c)
  PROVE  Fresh'
<1>1. UNCHANGED <<op, disp, picked, done>>
  BY DEF Elsewhere, BeginElsewhere, ChangeAdminsElsewhere, RollBack, history
<1>2. rec' = rec \/ \E r \in Record : Raise(r)
  BY
  DEF Elsewhere, BeginElsewhere, ChangeAdminsElsewhere, RollBack, BeginChange, CommitChange,
      Record
<1>3. RecGrows
  BY <1>2, RaiseGrows DEF PortalInv
<1>. QED  BY <1>1, <1>3, QuietFresh

LEMMA BeginMembershipFresh ==
  ASSUME PortalInv, Fresh, NEW d \in Dispatcher, BeginMembership(d)
  PROVE  Fresh'
<1>1. UNCHANGED <<op, disp, picked, done, rec>>
  BY DEF BeginMembership, BeginChange, history
<1>2. RecGrows
  BY <1>1, RaiseGrows DEF PortalInv
<1>. QED  BY <1>1, <1>2, QuietFresh

\* Operations that nobody works on: submitted, confirmed, expired, taken over.
LEMMA WaitingFresh ==
  ASSUME PortalInv, Fresh,
         \/ \E o \in Op, s \in Session, a \in Offered, who \in Account \cup {None} :
              Submit(o, s, a, who)
         \/ \E o \in Op, s \in Session, t \in Dispatcher : Confirm(o, s, t)
         \/ \E d \in Dispatcher : Start(d) \/ Poll(d)
  PROVE  Fresh'
<1>1. rec' = rec /\ UNCHANGED <<picked, done>>
  BY DEF Submit, Confirm, Start, Poll, database, history
<1>2. RecGrows
  BY <1>1, RaiseGrows DEF PortalInv
<1>3. \A e \in Dispatcher : disp'[e] = disp[e] \/ disp'[e].pc \in {"idle", "polling"}
  BY DEF Submit, Confirm, Start, Poll, At, PortalInv, DispType
<1>4. \A o \in Op :
         /\ op[o].state # "absent" => op'[o].action = op[o].action /\ op'[o].plan = op[o].plan
         /\ op'[o].state \in {"ready", "queued"} => op[o].state \in {"ready", "queued"}
  <2>1. ASSUME NEW p \in Op, NEW s \in Session, NEW a \in Offered, NEW who \in Account \cup {None},
               Submit(p, s, a, who), NEW o \in Op
        PROVE  /\ op[o].state # "absent" => op'[o].action = op[o].action /\ op'[o].plan = op[o].plan
               /\ op'[o].state \in {"ready", "queued"} => op[o].state \in {"ready", "queued"}
    BY <2>1 DEF Submit, PortalInv, OpType
  <2>2. ASSUME NEW p \in Op, NEW s \in Session, NEW t \in Dispatcher, Confirm(p, s, t), NEW o \in Op
        PROVE  /\ op[o].state # "absent" => op'[o].action = op[o].action /\ op'[o].plan = op[o].plan
               /\ op'[o].state \in {"ready", "queued"} => op[o].state \in {"ready", "queued"}
    BY <2>2 DEF Confirm, IsConfirmable, PortalInv, OpType
  <2>3. ASSUME NEW d \in Dispatcher, Start(d), NEW o \in Op
        PROVE  /\ op[o].state # "absent" => op'[o].action = op[o].action /\ op'[o].plan = op[o].plan
               /\ op'[o].state \in {"ready", "queued"} => op[o].state \in {"ready", "queued"}
    <3>1. op'[o] = [op[o] EXCEPT !.state = OnStart(op[o].state)]
      BY <2>3 DEF Start
    <3>2. /\ op'[o].state = OnStart(op[o].state)
          /\ op'[o].action = op[o].action /\ op'[o].plan = op[o].plan
      BY <3>1 DEF PortalInv, OpType
    <3>. QED  BY <3>2 DEF OnStart
  <2>4. ASSUME NEW d \in Dispatcher, Poll(d), NEW o \in Op
        PROVE  /\ op[o].state # "absent" => op'[o].action = op[o].action /\ op'[o].plan = op[o].plan
               /\ op'[o].state \in {"ready", "queued"} => op[o].state \in {"ready", "queued"}
    <3>1. op'[o] = op[o] \/ op'[o] = [op[o] EXCEPT !.state = "expired"]
      BY <2>4 DEF Poll
    <3>. QED  BY <3>1 DEF PortalInv, OpType
  <2>. QED  BY <2>1, <2>2, <2>3, <2>4
<1>5. \A d \in Dispatcher : disp'[d] = disp[d] \/ Sure(d)'
  BY <1>3 DEF Sure, Proceeding
<1>6. picked' = [o \in Op |-> picked'[o]]
  BY <1>1 DEF Fresh
<1>. QED  BY <1>1, <1>2, <1>4, <1>5, <1>6, FreshStays

\* An operation is picked to be validated; or to be applied, with its plan, and
\* the records are no older than that.
LEMMA PickFresh == ASSUME PortalInv, Fresh, NEW d \in Dispatcher, NEW o \in Op, Pick(d, o)
                   PROVE  Fresh'
<1>1. rec' = rec /\ done' = done
  BY DEF Pick, database
<1>2. RecGrows /\ DataType
  BY <1>1, RaiseGrows DEF PortalInv
<1>3. CASE op[o].state = "pending_validation"
  <2>1. /\ op' = [op EXCEPT ![o].state = "validating"] /\ picked' = picked
        /\ disp' = [disp EXCEPT ![d] = [pc |-> "validating", op |-> o, plan |-> NoPlan,
                                        left |-> 0, expected |-> None]]
    BY <1>3 DEF Pick
  <2>2. \A p \in Op : /\ op'[p].action = op[p].action /\ op'[p].plan = op[p].plan
                      /\ op'[p].state \in {"ready", "queued"} => op[p].state \in {"ready", "queued"}
    BY <2>1 DEF PortalInv, OpType
  <2>3. \A e \in Dispatcher : disp'[e] = disp[e] \/ disp'[e].pc = "validating"
    BY <2>1 DEF PortalInv, DispType
  <2>4. \A e \in Dispatcher : disp'[e] = disp[e] \/ Sure(e)'
    BY <2>3 DEF Sure, Proceeding
  <2>5. picked' = [p \in Op |-> picked'[p]]
    BY <2>1 DEF Fresh
  <2>. QED  BY <1>1, <1>2, <2>1, <2>2, <2>4, <2>5, FreshStays
<1>4. CASE op[o].state = "queued"
  <2>. DEFINE a == op[o].action
              p == op[o].plan
  <2>1. /\ op' = [op EXCEPT ![o].state = "applying"]
        /\ disp' = [disp EXCEPT ![d] = [pc |-> "applying", op |-> o, plan |-> p,
                                        left |-> 0, expected |-> None]]
        /\ picked' = [picked EXCEPT ![o] = <<Rows(a), Catalog(a)>>]
    BY <1>4 DEF Pick
  <2>2. \A q \in Op : /\ op'[q].action = op[q].action /\ op'[q].plan = op[q].plan
                      /\ op'[q].state \in {"ready", "queued"} => op[q].state \in {"ready", "queued"}
    BY <2>1 DEF PortalInv, OpType
  <2>3. picked = [q \in Op |-> picked[q]]
    BY DEF Fresh
  <2>4. /\ picked' = [q \in Op |-> picked'[q]]
        /\ picked'[o] = <<Rows(a), Catalog(a)>>
        /\ \A q \in Op : op[q].state \in Late => picked'[q] = picked[q]
    BY <1>4, <2>1, <2>3 DEF Late
  <2>5. /\ disp'[d].pc = "applying" /\ disp'[d].op = o /\ disp'[d].plan = p
        /\ \A e \in Dispatcher \ {d} : disp'[e] = disp[e]
    BY <2>1 DEF PortalInv, DispType
  <2>6. Past(a, p, rec) /\ a \in Offered
    BY <1>4 DEF Fresh, PortalInv, Engaged
  <2>. HIDE DEF a, p
  <2>7. PickedBetween(a, p, <<Rows(a), Catalog(a)>>, rec)
    <3>1. Reads(a) \subseteq Record /\ (a \in CatalogActions => "exercise" \in Record)
      BY <2>6, CatalogRecord DEF Record
    <3>2. Rows(a) \in [Reads(a) -> Nat] /\ \A r \in Reads(a) : Rows(a)[r] = rec[r]
      BY <1>2, <3>1 DEF Rows, DataType
    <3>3. \A r \in Reads(a) : p.before[1][r] <= Rows(a)[r] /\ Rows(a)[r] <= rec[r]
      BY <2>6, <3>2 DEF Past
    <3>4. IF a \in CatalogActions
          THEN Catalog(a) \in Nat /\ p.catalog <= Catalog(a) /\ Catalog(a) <= rec["exercise"]
          ELSE Catalog(a) = None
      BY <1>2, <2>6, <3>1 DEF Past, Catalog, DataType
    <3>. QED  BY <3>2, <3>3, <3>4 DEF PickedBetween
  <2>8. op'[o].action = a /\ op'[o].plan = p
    BY <2>2 DEF a, p
  <2>9. Sure(d)'
    BY <1>1, <2>4, <2>5, <2>6, <2>7, <2>8 DEF Sure, Proceeding
  <2>10. \A e \in Dispatcher : disp'[e] = disp[e] \/ Sure(e)'
    BY <2>5, <2>9
  <2>. QED  BY <1>1, <1>2, <2>2, <2>4, <2>10, FreshStays
<1>. QED  BY <1>3, <1>4 DEF Pick

\* A dispatcher is done with an operation: only a plan of the past is stored.
LEMMA EndsFresh ==
  ASSUME PortalInv, Fresh, NEW d \in Dispatcher, Store(d) \/ RecordFailure(d) \/ Finish(d)
  PROVE  Fresh'
<1>. DEFINE o == disp[d].op
<1>1. rec' = rec /\ UNCHANGED <<picked, done>>
  BY DEF Store, RecordFailure, Finish, database, history
<1>2. RecGrows /\ picked' = [q \in Op |-> picked'[q]]
  BY <1>1, RaiseGrows DEF PortalInv, Fresh
<1>3. \A e \in Dispatcher : disp'[e] = disp[e] \/ disp'[e].pc = "idle"
  BY BackToIdle DEF Store, RecordFailure, Finish, OthersStay
<1>4. \A e \in Dispatcher : disp'[e] = disp[e] \/ Sure(e)'
  BY <1>3 DEF Sure, Proceeding
<1>5. o \in Op
  BY DEF Store, RecordFailure, Finish, PortalInv, Engaged, Validating, Applying
<1>6. \A q \in Op :
         /\ op'[q].action = op[q].action
         /\ op'[q].plan = op[q].plan \/ op[q].state = "validating"
         /\ op'[q].state \in {"ready", "queued"} =>
              \/ op[q].state \in {"ready", "queued"}
              \/ Past(op'[q].action, op'[q].plan, rec)
  <2>1. CASE Store(d) /\ op[o].state = "validating"
    <3>1. Past(op[o].action, disp[d].plan, rec)
      BY <2>1 DEF Store, Fresh, Sure
    <3>2. op' = [op EXCEPT ![o] =
                   [state |-> "ready", session |-> @.session, action |-> @.action,
                    subject |-> @.subject, plan |-> disp[d].plan, denied |-> @.denied]]
      BY <2>1 DEF Store
    <3>3. /\ op'[o].action = op[o].action /\ op'[o].plan = disp[d].plan
          /\ \A q \in Op \ {o} : op'[q] = op[q]
      BY <1>5, <3>2 DEF PortalInv, OpType
    <3>. HIDE DEF o
    <3>. QED  BY <2>1, <3>1, <3>3
  <2>2. CASE RecordFailure(d)
    <3>1. PICK denied :
            op' = [op EXCEPT ![o] = [state |-> "failed", session |-> @.session,
                                     action |-> @.action, subject |-> @.subject,
                                     plan |-> @.plan, denied |-> denied]]
      BY <2>2, Zenon DEF RecordFailure
    <3>2. /\ op'[o].action = op[o].action /\ op'[o].plan = op[o].plan /\ op'[o].state = "failed"
          /\ \A q \in Op \ {o} : op'[q] = op[q]
      BY <1>5, <3>1 DEF PortalInv, OpType
    <3>. HIDE DEF o
    <3>. QED  BY <3>2
  <2>3. CASE Finish(d) /\ op[o].state = "applying"
    BY <1>5, <2>3 DEF Finish, PortalInv, OpType
  <2>4. CASE op' = op
    BY <2>4
  <2>. QED  BY <2>1, <2>2, <2>3, <2>4 DEF Store, Finish
<1>. QED  BY <1>1, <1>2, <1>4, <1>6, FreshStays

\* The plan is made of the records as they are.
LEMMA PrepareFresh == ASSUME PortalInv, Fresh, NEW d \in Dispatcher, Prepare(d) PROVE Fresh'
<1>. DEFINE a == op[disp[d].op].action
            plan == [before |-> Snapshot(a), catalog |-> Catalog(a), token |-> d]
<1>1. CASE Accepts(a, op[disp[d].op].subject)
  <2>1. a \in Offered
    BY DEF Prepare, PortalInv, Engaged, Validating
  <2>2. /\ disp' = [disp EXCEPT ![d] =
                      [pc |-> "storing", op |-> @.op, left |-> 0, expected |-> None,
                       plan |-> plan]]
        /\ UNCHANGED <<op, picked, done, rec>>
    BY <1>1 DEF Prepare, history, database
  <2>3. /\ disp'[d].op = disp[d].op /\ disp'[d].pc = "storing" /\ disp'[d].plan = plan
        /\ OthersStay(d)
    BY <2>2 DEF PortalInv, DispType, OthersStay
  <2>4. plan.before[1] = Rows(a) /\ plan.catalog = Catalog(a)
    BY DEF Snapshot
  <2>5. a = op'[disp'[d].op].action
    BY <2>2, <2>3
  <2>. HIDE DEF a, plan
  <2>6. Past(a, plan, rec)
    <3>1. Reads(a) \subseteq Record /\ (a \in CatalogActions => "exercise" \in Record)
      BY <2>1, CatalogRecord DEF Record
    <3>2. Rows(a) \in [Reads(a) -> Nat] /\ \A r \in Reads(a) : Rows(a)[r] <= rec[r]
      BY <3>1 DEF Rows, PortalInv, DataType
    <3>3. IF a \in CatalogActions
          THEN Catalog(a) \in Nat /\ Catalog(a) <= rec["exercise"]
          ELSE Catalog(a) = None
      BY <3>1 DEF Catalog, PortalInv, DataType
    <3>. QED  BY <2>4, <3>2, <3>3 DEF Past
  <2>7. Sure(d)'
    BY <2>2, <2>3, <2>5, <2>6 DEF Sure, Proceeding
  <2>8. \A e \in Dispatcher : disp'[e] = disp[e] \/ Sure(e)'
    BY <2>3, <2>7 DEF OthersStay
  <2>9. RecGrows /\ picked' = [q \in Op |-> picked'[q]]
    BY <2>2, RaiseGrows DEF PortalInv, Fresh
  <2>. QED  BY <2>2, <2>8, <2>9, FreshStays
<1>2. CASE ~Accepts(a, op[disp[d].op].subject)
  BY <1>2, FailingFresh DEF Prepare
<1>. QED  BY <1>1, <1>2

\* Old and new records are the same, and so are those between.
LEMMA Squeezed ==
  ASSUME DataType, NEW a \in Offered, NEW p, NEW pk, PickedBetween(a, p, pk, rec), Past(a, p, rec),
         Snapshot(a) = p.before, Catalog(a) = p.catalog
  PROVE  AsReviewed(pk, p)
<1>1. Reads(a) \subseteq Record
  BY DEF Record
<1>2. p.before[1] = Rows(a)
  BY DEF Snapshot
<1>3. \A r \in Reads(a) : pk[1][r] = Rows(a)[r]
  <2>. SUFFICES ASSUME NEW r \in Reads(a) PROVE pk[1][r] = Rows(a)[r]
    OBVIOUS
  <2>1. Rows(a)[r] = rec[r] /\ rec[r] \in Nat
    BY <1>1 DEF Rows, DataType
  <2>2. pk[1][r] \in Nat /\ p.before[1][r] <= pk[1][r] /\ pk[1][r] <= rec[r]
    BY DEF PickedBetween
  <2>. QED  BY <1>2, <2>1, <2>2
<1>4. pk[1] = Rows(a)
  BY <1>3 DEF PickedBetween, Rows
<1>5. pk[2] = p.catalog
  <2>1. CASE a \in CatalogActions
    <3>1. p.catalog \in Nat /\ p.catalog = rec["exercise"]
      BY <2>1 DEF Past, Catalog
    <3>. QED  BY <2>1, <3>1 DEF PickedBetween
  <2>2. CASE a \notin CatalogActions
    BY <2>2 DEF PickedBetween, Past
  <2>. QED  BY <2>1, <2>2
<1>6. pk = <<pk[1], pk[2]>>
  BY DEF PickedBetween
<1>. QED  BY <1>2, <1>4, <1>5, <1>6 DEF AsReviewed

\* The comparison before anything is applied.
LEMMA RecheckFresh == ASSUME PortalInv, Fresh, NEW d \in Dispatcher, Recheck(d) PROVE Fresh'
<1>. DEFINE o == disp[d].op
            a == op[o].action
            p == disp[d].plan
<1>1. CASE StillAsReviewed(d)
  <2>1. o \in Op /\ a \in Offered /\ disp[d].pc = "applying"
    BY DEF Recheck, PortalInv, Engaged, Applying
  <2>2. Snapshot(a) = p.before /\ Catalog(a) = p.catalog
    BY <1>1 DEF StillAsReviewed
  <2>3. PickedBetween(a, p, picked[o], rec) /\ Past(a, p, rec) /\ p = op[o].plan
    BY <2>1 DEF Fresh, Sure, Proceeding
  <2>4. PICK pc :
          disp' = [disp EXCEPT ![d] = [pc |-> pc, op |-> @.op, plan |-> @.plan,
                                       left |-> Steps(a), expected |-> None]]
    BY <1>1 DEF Recheck
  <2>5. disp'[d].op = o /\ disp'[d].plan = p /\ OthersStay(d)
    BY <2>4 DEF PortalInv, DispType, OthersStay
  <2>6. UNCHANGED <<op, picked, done, rec>>
    BY DEF Recheck, database, history
  <2>7. disp'[d].pc \notin {"storing", "applying"}
    <3>1. disp'[d].pc = CASE Steps(a) = 0 -> "applied"
                          [] a \in CatalogActions -> "preparing"
                          [] OTHER -> "writing"
      BY <1>1 DEF Recheck, PortalInv, DispType
    <3>2. a \in Action
      BY <2>1, PortalAssumption
    <3>3. a \in CatalogActions => Steps(a) # 0
      BY <3>2, StepsType
    <3>. HIDE DEF a
    <3>. QED  BY <3>1, <3>3
  <2>. HIDE DEF a, p
  <2>8. AsReviewed(picked[o], p)
    BY <2>1, <2>2, <2>3, Squeezed DEF PortalInv
  <2>9. Sure(d)'
    BY <2>3, <2>5, <2>6, <2>7, <2>8 DEF Sure, a
  <2>10. \A e \in Dispatcher : disp'[e] = disp[e] \/ Sure(e)'
    BY <2>5, <2>9 DEF OthersStay
  <2>11. RecGrows /\ picked' = [q \in Op |-> picked'[q]]
    BY <2>6, RaiseGrows DEF PortalInv, Fresh
  <2>. QED  BY <2>6, <2>10, <2>11, FreshStays
<1>2. CASE ~StillAsReviewed(d)
  BY <1>2, FailingFresh DEF Recheck
<1>. QED  BY <1>1, <1>2

\* A transaction of the operation is committed: its records were the reviewed
\* ones, or its catalog is.
LEMMA CommitsFresh ==
  ASSUME PortalInv, Fresh, NEW d \in Dispatcher, disp[d].pc \in {"publishing", "writing"},
         Committed(d), RecGrows, op' = op,
         picked' = [q \in Op |-> picked'[q]],
         AsReviewed(picked'[disp[d].op], disp[d].plan),
         \A q \in Op \ {disp[d].op} : picked'[q] = picked[q]
  PROVE  Fresh'
<1>. DEFINE o == disp[d].op
            a == op[o].action
            p == disp[d].plan
<1>1. o \in Op /\ a \in Offered /\ disp[d].pc \in Proceeding
  BY DEF PortalInv, Engaged, Applying, Proceeding
<1>2. p = op[o].plan /\ Past(a, p, rec)
  BY <1>1 DEF Fresh, Sure
<1>3. disp'[d].op = o /\ disp'[d].plan = p /\ OthersStay(d)
  BY DEF Committed, PortalInv, DispType, OthersStay
<1>4. disp'[d].pc \in {"publishing", "writing", "applied"}
  BY DEF Committed, PortalInv, DispType
<1>5. \A q \in Op : q # o => done'[q] = done[q]
  BY <1>1 DEF Committed, PortalInv, DataType
<1>6. \A e \in Dispatcher : disp[e].pc = "applying" => disp[e].op # o
  BY DEF PortalInv, Single, Applying
<1>. HIDE DEF a, p
<1>7. Past(a, p, rec')
  BY <1>1, <1>2, PastStays DEF PortalInv
<1>8. Sure(d)'
  BY <1>1, <1>2, <1>3, <1>4, <1>7 DEF Sure, a, p
<1>9. \A e \in Dispatcher : disp'[e] = disp[e] \/ Sure(e)'
  BY <1>3, <1>8 DEF OthersStay
<1>10. \A q \in Op : done'[q] > 0 => done[q] > 0 \/ AsReviewed(picked'[q], op'[q].plan)
  BY <1>2, <1>5 DEF p
<1>11. \A q \in Op : op[q].state \in Late =>
            \/ picked'[q] = picked[q]
            \/ /\ AsReviewed(picked'[q], op[q].plan)
               /\ \A e \in Dispatcher : disp[e].pc = "applying" => disp[e].op # q
  BY <1>2, <1>6 DEF p
<1>. QED  BY <1>9, <1>10, <1>11, FreshStays

LEMMA WritesFresh ==
  ASSUME PortalInv, Fresh, NEW d \in Dispatcher,
         Import(d) \/ AuditRegrade(d) \/ Write(d) \/ SweepOn(d) \/ WriteMembership(d)
  PROVE  Fresh'
<1>. DEFINE a == op[disp[d].op].action
<1>1. /\ disp[d].pc = "writing" /\ Committed(d) /\ UNCHANGED <<op, picked>>
      /\ Raise(Target(a)) \/ Raise("admins") \/ rec' = rec
  BY DEF Import, AuditRegrade, Write, SweepOn, WriteMembership, CommitChange, database
<1>2. a \in Offered
  BY <1>1 DEF PortalInv, Engaged, Applying
<1>3. Target(a) \in Record /\ "admins" \in Record
  BY <1>2 DEF Record
<1>4. RecGrows
  BY <1>1, <1>3, RaiseGrows DEF PortalInv
<1>5. AsReviewed(picked[disp[d].op], disp[d].plan) /\ picked = [q \in Op |-> picked[q]]
  BY <1>1 DEF Fresh, Sure, Proceeding
<1>. QED  BY <1>1, <1>4, <1>5, CommitsFresh

LEMMA PrepareExerciseFresh ==
  ASSUME PortalInv, Fresh, NEW d \in Dispatcher, PrepareExercise(d)
  PROVE  Fresh'
<1>1. /\ disp[d].pc = "preparing" /\ UNCHANGED <<op, picked, done, rec>>
      /\ disp'[d].op = disp[d].op /\ disp'[d].plan = disp[d].plan /\ disp'[d].pc = "publishing"
      /\ OthersStay(d)
  BY DEF PrepareExercise, PortalInv, DispType, OthersStay, database, history
<1>2. Sure(d)
  BY DEF Fresh
<1>3. Sure(d)'
  BY <1>1, <1>2 DEF Sure, Proceeding
<1>4. \A e \in Dispatcher : disp'[e] = disp[e] \/ Sure(e)'
  BY <1>1, <1>3 DEF OthersStay
<1>5. RecGrows /\ picked' = [q \in Op |-> picked'[q]]
  BY <1>1, RaiseGrows DEF PortalInv, Fresh
<1>. QED  BY <1>1, <1>4, <1>5, FreshStays

\* apply_set compares the catalog once more.
LEMMA PublishFresh == ASSUME PortalInv, Fresh, NEW d \in Dispatcher, Publish(d) PROVE Fresh'
<1>. DEFINE o == disp[d].op
            p == disp[d].plan
<1>1. disp[d].pc = "publishing" /\ o \in Op /\ op' = op /\ Committed(d) /\ Raise("exercise")
  BY DEF Publish, PortalInv, Engaged, Applying
<1>2. "exercise" \in Record
  BY <1>1, CatalogRecord DEF PortalInv, Counted, Engaged, Applying
<1>3. RecGrows
  BY <1>1, <1>2, RaiseGrows DEF PortalInv
<1>4. /\ AsReviewed(picked[o], p) /\ Past(op[o].action, p, rec)
      /\ picked = [q \in Op |-> picked[q]]
  BY <1>1 DEF Fresh, Sure, Proceeding
<1>5. CASE op[o].action = "exercises"
  <2>1. picked' = [picked EXCEPT ![o] = <<Rows("exercises"), rec["exercise"]>>]
    BY <1>5 DEF Publish
  <2>2. rec["exercise"] = p.catalog
    BY <1>5 DEF Publish, CatalogAsReviewed
  <2>3. Reads("exercises") = {}
    BY DEF Reads, CatalogActions
  <2>4. p.before[1] = Rows("exercises")
    <3>1. p.before[1] \in [Reads("exercises") -> Nat]
      BY <1>4, <1>5 DEF Past
    <3>2. p.before[1] = [r \in {} |-> p.before[1][r]]
      BY <2>3, <3>1
    <3>. QED  BY <2>3, <3>2 DEF Rows
  <2>. HIDE DEF p, o
  <2>5. picked'[o] = <<Rows("exercises"), rec["exercise"]>>
    BY <1>1, <1>4, <2>1
  <2>6. AsReviewed(picked'[o], p)
    BY <2>2, <2>4, <2>5 DEF AsReviewed
  <2>7. picked' = [q \in Op |-> picked'[q]] /\ \A q \in Op \ {o} : picked'[q] = picked[q]
    BY <1>4, <2>1
  <2>. QED  BY <1>1, <1>3, <2>6, <2>7, CommitsFresh DEF o, p
<1>6. CASE op[o].action # "exercises"
  <2>1. picked' = picked
    BY <1>6 DEF Publish
  <2>. QED  BY <1>1, <1>3, <1>4, <2>1, CommitsFresh
<1>. QED  BY <1>5, <1>6

\* Every step keeps plans in the past.
LEMMA FreshStep == PortalInv /\ Fresh /\ [Next]_vars => Fresh'
<1>. SUFFICES ASSUME PortalInv, Fresh, [Next]_vars PROVE Fresh'
  OBVIOUS
<1>1. CASE \/ \E o \in Op, s \in Session, a \in Offered, who \in Account \cup {None} :
                Submit(o, s, a, who)
           \/ \E o \in Op, s \in Session, t \in Dispatcher : Confirm(o, s, t)
           \/ \E d \in Dispatcher : Start(d) \/ Poll(d)
  BY <1>1, WaitingFresh
<1>2. ASSUME NEW d \in Dispatcher,
             \/ FindNothing(d) \/ NoticeLostLock(d) \/ Crash(d) \/ LoseLock(d)
             \/ \E o \in Op : Pick(d, o)
      PROVE  Fresh'
  BY <1>2, StopsFresh, PickFresh
<1>3. ASSUME NEW d \in Dispatcher, NotAuthorized(d) \/ StepFails(d) PROVE Fresh'
  BY <1>3, FailingFresh DEF NotAuthorized, StepFails
<1>4. ASSUME NEW d \in Dispatcher,
             \/ RecordFailure(d) \/ Prepare(d) \/ Store(d) \/ Finish(d)
             \/ Recheck(d) \/ PrepareExercise(d) \/ Publish(d)
      PROVE  Fresh'
  BY <1>4, EndsFresh, PrepareFresh, RecheckFresh, PrepareExerciseFresh, PublishFresh
<1>5. ASSUME NEW d \in Dispatcher,
             \/ Import(d) \/ AuditRegrade(d) \/ Write(d) \/ SweepOn(d)
             \/ BeginMembership(d) \/ WriteMembership(d)
      PROVE  Fresh'
  BY <1>5, WritesFresh, BeginMembershipFresh
<1>6. CASE \/ \E r \in Record \ {"admins"} : Elsewhere(r)
           \/ \E a \in Membership, who \in Account : BeginElsewhere(a, who)
         \/ \E c \in changing : ChangeAdminsElsewhere(c) \/ RollBack(c)
  BY <1>6, ElsewhereFresh
<1>7. CASE UNCHANGED vars
  BY <1>7, RaiseGrows, QuietFresh DEF vars, database, history, PortalInv
<1>. QED  BY <1>1, <1>2, <1>3, <1>4, <1>5, <1>6, <1>7, Zenon DEF Next

\* An operation changes something only if its records, when it was picked up,
\* were those its confirmed plan was made for; a catalog also when it is replaced.
THEOREM StalePlansAreRefused == Spec => []StaleIsRefused
<1>1. Init => PortalInv /\ Fresh
  BY PortalInitially, FreshInitially
<1>2. PortalInv /\ Fresh /\ [Next]_vars => (PortalInv /\ Fresh)'
  BY PortalStep, FreshStep
<1>3. PortalInv /\ Fresh => StaleIsRefused
  BY DEF Fresh, StaleIsRefused, AsReviewed
<1>. QED  BY <1>1, <1>2, <1>3, PTL DEF Spec

-----------------------------------------------------------------------------
(* Types, idle dispatchers and the lock.                                   *)

Unengaged == {"off", "idle", "polling"}

\* An operation has a session from the start, a dispatcher without work has no
\* operation, and the holder of the lock runs.
House ==
    /\ \A o \in Op : (op[o].state = "absent") <=> (op[o].session = None)
    /\ \A d \in Dispatcher : disp[d].pc \in Unengaged => disp[d].op = None
    /\ lock \in Dispatcher \cup {None} /\ (lock # None => disp[lock].pc # "off")
    /\ outlived \in BOOLEAN /\ faults \in 0..MaxFaults /\ elsewhere \in 0..MaxElsewhere

LEMMA HouseInitially == Init => House
<1>. SUFFICES ASSUME Init PROVE House
  OBVIOUS
<1>1. \A o \in Op : op[o].state = "absent" /\ op[o].session = None
  BY DEF Init, NoOp
<1>2. \A d \in Dispatcher : disp[d].op = None
  BY DEF Init, Off
<1>3. lock = None /\ outlived = FALSE
  BY DEF Init
<1>4. faults \in 0..MaxFaults /\ elsewhere \in 0..MaxElsewhere
  BY PortalAssumption DEF Init
<1>. QED  BY <1>1, <1>2, <1>3, <1>4 DEF House

\* A dispatcher works on, fails or is done; it stays alive.
LEMMA HouseStays ==
  ASSUME PortalInv, House, UNCHANGED <<lock, outlived, bounds>>,
         \A o \in Op : /\ op'[o].session = op[o].session
                       /\ op'[o].state = "absent" <=> op[o].state = "absent",
         \A d \in Dispatcher :
            \/ disp'[d] = disp[d]
            \/ disp'[d].pc \notin Unengaged
            \/ disp'[d].pc \in {"idle", "polling"} /\ disp'[d].op = None
  PROVE  House'
<1>1. lock # None => disp'[lock].pc # "off"
  BY DEF House, Unengaged
<1>2. \A d \in Dispatcher : disp'[d].pc \in Unengaged => disp'[d].op = None
  BY DEF House
<1>. QED  BY <1>1, <1>2 DEF House, bounds

\* Steps that leave the operations alone.
LEMMA WorksOnHouse ==
  ASSUME PortalInv, House, NEW d \in Dispatcher,
         \/ FindNothing(d) \/ NotAuthorized(d) \/ StepFails(d) \/ Prepare(d) \/ Recheck(d)
         \/ Import(d) \/ AuditRegrade(d) \/ Write(d) \/ SweepOn(d)
         \/ BeginMembership(d) \/ WriteMembership(d)
         \/ PrepareExercise(d) \/ Publish(d)
  PROVE  House'
<1>1. UNCHANGED <<op, lock, outlived, bounds>>
  BY
  DEF FindNothing, NotAuthorized, StepFails, Prepare, Recheck, Import, AuditRegrade, Write,
      SweepOn, BeginMembership, WriteMembership, PrepareExercise, Publish, history
<1>2. \A e \in Dispatcher \ {d} : disp'[e] = disp[e]
  BY
  DEF FindNothing, NotAuthorized, StepFails, Prepare, Recheck, Import, AuditRegrade, Write,
      SweepOn, BeginMembership, WriteMembership, PrepareExercise, Publish, Failing, At, Committed,
      PortalInv, DispType
<1>3. CASE FindNothing(d)
  <2>1. disp'[d].pc = "idle" /\ disp'[d].op = disp[d].op /\ disp[d].pc = "polling"
    BY <1>3 DEF FindNothing, At, PortalInv, DispType
  <2>2. disp[d].op = None
    BY <2>1 DEF House, Unengaged
  <2>. QED  BY <1>1, <1>2, <2>1, <2>2, HouseStays
<1>4. ASSUME Failing(d) PROVE disp'[d].pc \notin Unengaged
  BY <1>4 DEF Failing, At, PortalInv, DispType, Unengaged
<1>5. CASE NotAuthorized(d) \/ StepFails(d) \/ Prepare(d)
  <2>1. disp'[d].pc \notin Unengaged
    BY <1>4, <1>5 DEF NotAuthorized, StepFails, Prepare, PortalInv, DispType, Unengaged
  <2>. QED  BY <1>1, <1>2, <2>1, HouseStays
<1>6. CASE Recheck(d)
  <2>1. CASE StillAsReviewed(d)
    <3>. DEFINE a == op[disp[d].op].action
    <3>1. disp'[d].pc = CASE Steps(a) = 0 -> "applied"
                          [] a \in CatalogActions -> "preparing"
                          [] OTHER -> "writing"
      BY <1>6, <2>1 DEF Recheck, PortalInv, DispType
    <3>2. a \in Action
      BY <1>6, PortalAssumption DEF Recheck, PortalInv, Engaged, Applying
    <3>3. a \in CatalogActions => Steps(a) # 0
      BY <3>2, StepsType
    <3>. HIDE DEF a
    <3>4. disp'[d].pc \notin Unengaged
      BY <3>1, <3>3 DEF Unengaged
    <3>. QED  BY <1>1, <1>2, <3>4, HouseStays
  <2>2. CASE ~StillAsReviewed(d)
    <3>1. disp'[d].pc \notin Unengaged
      BY <1>4, <1>6, <2>2 DEF Recheck
    <3>. QED  BY <1>1, <1>2, <3>1, HouseStays
  <2>. QED  BY <2>1, <2>2
<1>7. CASE BeginMembership(d)
  <2>1. disp' = disp
    BY <1>7 DEF BeginMembership
  <2>. QED  BY <1>1, <2>1, HouseStays
<1>8. CASE \/ Import(d) \/ AuditRegrade(d) \/ Write(d) \/ SweepOn(d) \/ WriteMembership(d)
           \/ PrepareExercise(d) \/ Publish(d)
  <2>1. disp'[d].pc \in {"applied", "writing", "publishing"}
    <3>1. disp[d].pc \in {"writing", "publishing"} /\ Committed(d) =>
             disp'[d].pc \in {"applied", "writing", "publishing"}
      BY DEF Committed, PortalInv, DispType
    <3>2. CASE Import(d) \/ AuditRegrade(d) \/ Write(d) \/ SweepOn(d)
      BY <3>1, <3>2 DEF Import, AuditRegrade, Write, SweepOn
    <3>3. CASE WriteMembership(d) \/ Publish(d)
      BY <3>1, <3>3 DEF WriteMembership, Publish
    <3>4. CASE PrepareExercise(d)
      BY <3>4 DEF PrepareExercise, PortalInv, DispType
    <3>. QED  BY <1>8, <3>2, <3>3, <3>4
  <2>2. disp'[d].pc \notin Unengaged
    BY <2>1 DEF Unengaged
  <2>. QED  BY <1>1, <1>2, <2>2, HouseStays
<1>. QED  BY <1>3, <1>5, <1>6, <1>7, <1>8

\* Steps that move an operation on.
LEMMA MovesOnHouse ==
  ASSUME PortalInv, House, NEW d \in Dispatcher,
         \/ Poll(d) \/ RecordFailure(d) \/ Store(d) \/ Finish(d) \/ \E o \in Op : Pick(d, o)
  PROVE  House'
<1>1. UNCHANGED <<lock, outlived, bounds>>
  BY DEF Poll, RecordFailure, Store, Finish, Pick, history
<1>2. \A o \in Op : /\ op'[o].session = op[o].session
                    /\ op'[o].state = "absent" <=> op[o].state = "absent"
  <2>0. disp[d].pc \in Validating \cup Applying =>
           disp[d].op \in Op /\ op[disp[d].op].state # "absent"
    BY DEF PortalInv, Engaged
  <2>1. CASE Poll(d)
    <3>1. \A o \in Op : op'[o] = op[o] \/ (op[o].state = "ready"
                                           /\ op'[o] = [op[o] EXCEPT !.state = "expired"])
      BY <2>1 DEF Poll
    <3>2. ASSUME NEW o \in Op
          PROVE  /\ [op[o] EXCEPT !.state = "expired"].session = op[o].session
                 /\ [op[o] EXCEPT !.state = "expired"].state = "expired"
      BY DEF PortalInv, OpType
    <3>. QED  BY <3>1, <3>2
  <2>2. ASSUME NEW p \in Op, Pick(d, p)
        PROVE  \A o \in Op : /\ op'[o].session = op[o].session
                             /\ op'[o].state = "absent" <=> op[o].state = "absent"
    BY <2>2 DEF Pick, PortalInv, OpType
  <2>3. CASE RecordFailure(d)
    <3>1. disp[d].op \in Op /\ op[disp[d].op].state # "absent"
      BY <2>0, <2>3 DEF RecordFailure, Validating, Applying
    <3>. DEFINE p == disp[d].op
    <3>2. PICK denied :
            op' = [op EXCEPT ![p] = [state |-> "failed", session |-> @.session,
                                     action |-> @.action, subject |-> @.subject,
                                     plan |-> @.plan, denied |-> denied]]
      BY <2>3, Zenon DEF RecordFailure
    <3>3. /\ op'[p].session = op[p].session /\ op'[p].state = "failed"
          /\ \A o \in Op \ {p} : op'[o] = op[o]
      BY <3>1, <3>2 DEF PortalInv, OpType
    <3>. HIDE DEF p
    <3>. QED  BY <3>1, <3>3 DEF p
  <2>4. CASE Store(d)
    BY <2>0, <2>4 DEF Store, Validating, PortalInv, OpType
  <2>5. CASE Finish(d)
    BY <2>0, <2>5 DEF Finish, Applying, PortalInv, OpType
  <2>. QED  BY <2>1, <2>2, <2>3, <2>4, <2>5
<1>3. \A e \in Dispatcher :
            \/ disp'[e] = disp[e]
            \/ disp'[e].pc \notin Unengaged
            \/ disp'[e].pc \in {"idle", "polling"} /\ disp'[e].op = None
  <2>1. CASE Poll(d)
    <3>1. /\ disp'[d].pc = "polling" /\ disp'[d].op = disp[d].op /\ disp[d].pc = "idle"
          /\ \A e \in Dispatcher \ {d} : disp'[e] = disp[e]
      BY <2>1 DEF Poll, At, PortalInv, DispType
    <3>2. disp[d].op = None
      BY <3>1 DEF House, Unengaged
    <3>. QED  BY <3>1, <3>2
  <2>2. ASSUME NEW p \in Op, Pick(d, p)
        PROVE  \A e \in Dispatcher : disp'[e] = disp[e] \/ disp'[e].pc \notin Unengaged
    BY <2>2 DEF Pick, PortalInv, DispType, Unengaged
  <2>3. CASE RecordFailure(d) \/ Store(d) \/ Finish(d)
    <3>1. disp' = [disp EXCEPT ![d] = Looping]
      BY <2>3 DEF RecordFailure, Store, Finish
    <3>. QED  BY <3>1 DEF Looping, PortalInv, DispType
  <2>. QED  BY <2>1, <2>2, <2>3
<1>. QED  BY <1>1, <1>2, <1>3, HouseStays

\* A process starts with the lock, and without it ends or goes on.
LEMMA ProcessHouse ==
  ASSUME PortalInv, House, NEW d \in Dispatcher,
         Start(d) \/ NoticeLostLock(d) \/ Crash(d) \/ LoseLock(d)
  PROVE  House'
<1>1. \A e \in Dispatcher \ {d} : disp'[e] = disp[e]
  BY DEF Start, NoticeLostLock, Crash, LoseLock, At, PortalInv, DispType
<1>2. None \notin Dispatcher
  BY PortalAssumption
<1>3. CASE Start(d)
  <2>1. /\ disp[d].pc = "off" /\ disp'[d].pc = "idle" /\ disp'[d].op = disp[d].op /\ lock' = d
        /\ UNCHANGED <<outlived, bounds>>
    BY <1>3 DEF Start, At, PortalInv, DispType, history
  <2>2. \A o \in Op : op'[o].session = op[o].session /\ op'[o].state = OnStart(op[o].state)
    BY <1>3 DEF Start, PortalInv, OpType
  <2>3. \A o \in Op : op'[o].state = "absent" <=> op[o].state = "absent"
    BY <2>2 DEF OnStart
  <2>4. disp'[d].op = None
    BY <2>1 DEF House, Unengaged
  <2>. QED  BY <1>1, <2>1, <2>2, <2>3, <2>4 DEF House, bounds
<1>4. CASE NoticeLostLock(d) \/ Crash(d)
  <2>1. disp'[d].op = None /\ disp'[d].pc = "off"
    BY <1>4 DEF NoticeLostLock, Crash, Off, PortalInv, DispType
  <2>2. /\ UNCHANGED <<op, outlived, elsewhere>>
        /\ lock' = None \/ (lock' = lock /\ lock # d)
    BY <1>4 DEF NoticeLostLock, Crash, history, bounds
  <2>3. faults' \in 0..MaxFaults
    BY <1>4, PortalAssumption DEF NoticeLostLock, Crash, House, bounds
  <2>. QED  BY <1>1, <2>1, <2>2, <2>3 DEF House
<1>5. CASE LoseLock(d)
  <2>1. UNCHANGED <<op, disp, elsewhere>> /\ lock' = None /\ outlived' = TRUE
    BY <1>5 DEF LoseLock
  <2>2. faults' \in 0..MaxFaults
    BY <1>5, PortalAssumption DEF LoseLock, House
  <2>. QED  BY <2>1, <2>2 DEF House
<1>. QED  BY <1>3, <1>4, <1>5

LEMMA HouseStep == PortalInv /\ House /\ [Next]_vars => House'
<1>. SUFFICES ASSUME PortalInv, House, [Next]_vars PROVE House'
  OBVIOUS
<1>1. ASSUME NEW o \in Op, NEW s \in Session, NEW a \in Offered, NEW who \in Account \cup {None},
             Submit(o, s, a, who)
      PROVE  House'
  <2>1. /\ op'[o].session = s /\ op'[o].state = "pending_validation"
        /\ \A p \in Op \ {o} : op'[p] = op[p]
    BY <1>1 DEF Submit, PortalInv, OpType
  <2>2. UNCHANGED <<disp, lock, outlived, bounds>> /\ s # None
    BY <1>1, PortalAssumption DEF Submit, history
  <2>. QED  BY <2>1, <2>2 DEF House, bounds
<1>2. ASSUME NEW o \in Op, NEW s \in Session, NEW t \in Dispatcher, Confirm(o, s, t)
      PROVE  House'
  <2>1. \A p \in Op : /\ op'[p].session = op[p].session
                      /\ op'[p].state = "absent" <=> op[p].state = "absent"
    BY <1>2 DEF Confirm, IsConfirmable, PortalInv, OpType
  <2>2. UNCHANGED <<disp, lock, outlived, bounds>>
    BY <1>2 DEF Confirm, history
  <2>. QED  BY <2>1, <2>2, HouseStays
<1>3. ASSUME NEW d \in Dispatcher,
             \/ FindNothing(d) \/ NotAuthorized(d) \/ StepFails(d) \/ Prepare(d) \/ Recheck(d)
             \/ Import(d) \/ AuditRegrade(d) \/ Write(d) \/ SweepOn(d)
             \/ BeginMembership(d) \/ WriteMembership(d)
             \/ PrepareExercise(d) \/ Publish(d)
      PROVE  House'
  BY <1>3, WorksOnHouse
<1>4. ASSUME NEW d \in Dispatcher,
             \/ Poll(d) \/ RecordFailure(d) \/ Store(d) \/ Finish(d) \/ \E o \in Op : Pick(d, o)
      PROVE  House'
  BY <1>4, MovesOnHouse
<1>5. ASSUME NEW d \in Dispatcher,
             Start(d) \/ NoticeLostLock(d) \/ Crash(d) \/ LoseLock(d)
      PROVE  House'
  BY <1>5, ProcessHouse
<1>6. CASE \/ \E r \in Record \ {"admins"} : Elsewhere(r)
           \/ \E a \in Membership, who \in Account : BeginElsewhere(a, who)
         \/ \E c \in changing : ChangeAdminsElsewhere(c) \/ RollBack(c)
  <2>1. UNCHANGED <<op, disp, lock, outlived, faults>>
    BY <1>6 DEF Elsewhere, BeginElsewhere, ChangeAdminsElsewhere, RollBack, history, bounds
  <2>2. elsewhere' \in 0..MaxElsewhere
    BY <1>6, PortalAssumption
    DEF Elsewhere, BeginElsewhere, ChangeAdminsElsewhere, RollBack, House, bounds
  <2>. QED  BY <2>1, <2>2 DEF House
<1>7. CASE UNCHANGED vars
  BY <1>7 DEF vars, history, bounds, House
<1>. QED  BY <1>1, <1>2, <1>3, <1>4, <1>5, <1>6, <1>7, Zenon DEF Next

\* Columns and process variables keep their types; only a running dispatcher
\* holds the lock, and it has an operation exactly while it works on one.
THEOREM PortalTypes == Spec => []PortalTypeOK
<1>1. Init => PortalInv /\ House
  BY PortalInitially, HouseInitially
<1>2. PortalInv /\ House /\ [Next]_vars => (PortalInv /\ House)'
  BY PortalStep, HouseStep
<1>3. PortalInv /\ House => PortalTypeOK
  <2>. SUFFICES ASSUME PortalInv, House PROVE PortalTypeOK
    OBVIOUS
  <2>1. \A o \in Op :
         /\ op[o].state \in State
         /\ op[o].session \in Session \cup {None}
         /\ op[o].action \in Offered \cup {None}
         /\ op[o].subject \in Account \cup {None}
         /\ op[o].denied \in BOOLEAN
         /\ (op[o].state = "absent") <=> (op[o].session = None)
    BY DEF PortalInv, OpType, House
  <2>2. ASSUME NEW d \in Dispatcher
        PROVE  /\ disp[d].pc \in Pc
               /\ disp[d].op \in Op \cup {None}
               /\ disp[d].left \in Nat
    BY DEF PortalInv, DispType
  <2>3. ASSUME NEW d \in Dispatcher
        PROVE  (disp[d].op = None) <=> (disp[d].pc \in {"off", "idle", "polling"})
    <3>1. disp[d].pc \in {"off", "idle", "polling"} => disp[d].op = None
      BY DEF House, Unengaged
    <3>2. disp[d].pc \notin {"off", "idle", "polling"} => disp[d].pc \in Validating \cup Applying
      BY <2>2 DEF Pc, Validating, Applying
    <3>3. disp[d].pc \in Validating \cup Applying => disp[d].op # None
      BY PortalAssumption DEF PortalInv, Engaged
    <3>. QED  BY <3>1, <3>2, <3>3
  <2>. QED  BY <2>1, <2>2, <2>3 DEF PortalTypeOK, PortalInv, DataType, Changes, House
<1>. QED  BY <1>1, <1>2, <1>3, PTL DEF Spec

-----------------------------------------------------------------------------
(* The administrators.  Lock 704311 makes what a revocation has counted      *)
(* stay true until it commits.                                               *)

\* There is one transaction at a time, and an administrator besides the one it
\* is about to revoke.
OneChange ==
    /\ \A c, e \in changing : c = e
    /\ \A c \in changing : KeepsAnAdmin(c.action, c.who)

AdminStep ==
    admins # {} /\ admins' = {} => \E c \in changing \ changing' : c.action = "admin_recover"

LEMMA BeginsOneChange ==
  ASSUME OneChange, NEW o, NEW a, NEW who, BeginChange(o, a, who)
  PROVE  OneChange' /\ AdminStep
<1>. DEFINE new == [op |-> o, action |-> a, who |-> who]
<1>1. changing' = {new} /\ admins' = admins /\ KeepsAnAdmin(a, who)
  BY DEF BeginChange, AdminLockFree
<1>2. new.action = a /\ new.who = who
  OBVIOUS
<1>. HIDE DEF new
<1>. QED  BY <1>1, <1>2 DEF OneChange, AdminStep, KeepsAnAdmin

LEMMA CommitsOneChange ==
  ASSUME PortalInv, OneChange, NEW c \in changing, CommitChange(c)
  PROVE  OneChange' /\ AdminStep
<1>1. changing = {c} /\ changing' = {}
  BY DEF OneChange, CommitChange
<1>2. c.action \in Membership
  BY DEF PortalInv, DataType, Changes
<1>3. CASE c.action = "admin_grant"
  BY <1>1, <1>3 DEF CommitChange, OneChange, AdminStep
<1>4. CASE c.action = "admin_revoke"
  <2>1. PICK x \in admins : x # c.who
    BY <1>4 DEF OneChange, KeepsAnAdmin
  <2>2. x \in admins'
    BY <1>4, <2>1 DEF CommitChange
  <2>. QED  BY <1>1, <2>2 DEF OneChange, AdminStep
<1>5. CASE c.action = "admin_recover"
  BY <1>1, <1>5 DEF OneChange, AdminStep
<1>. QED  BY <1>2, <1>3, <1>4, <1>5 DEF Membership

LEMMA KeepsOneChange ==
  ASSUME OneChange, admins' = admins, changing' \subseteq changing
  PROVE  OneChange' /\ AdminStep
<1>1. (\A c, e \in changing : c = e)'
  BY DEF OneChange
<1>2. (\A c \in changing : KeepsAnAdmin(c.action, c.who))'
  BY DEF OneChange, KeepsAnAdmin
<1>. QED  BY <1>1, <1>2 DEF OneChange, AdminStep

LEMMA OneChangeStep == PortalInv /\ OneChange /\ [Next]_vars => OneChange' /\ AdminStep
<1>. SUFFICES ASSUME PortalInv, OneChange, [Next]_vars PROVE OneChange' /\ AdminStep
  OBVIOUS
<1>1. ASSUME NEW d \in Dispatcher, BeginMembership(d) PROVE OneChange' /\ AdminStep
  BY <1>1, BeginsOneChange DEF BeginMembership
<1>2. ASSUME NEW d \in Dispatcher, WriteMembership(d) PROVE OneChange' /\ AdminStep
  BY <1>2, CommitsOneChange DEF WriteMembership
<1>3. ASSUME NEW a \in Membership, NEW who \in Account, BeginElsewhere(a, who)
      PROVE  OneChange' /\ AdminStep
  BY <1>3, BeginsOneChange DEF BeginElsewhere
<1>4. ASSUME NEW c \in changing, ChangeAdminsElsewhere(c) PROVE OneChange' /\ AdminStep
  BY <1>4, CommitsOneChange DEF ChangeAdminsElsewhere
<1>5. ASSUME NEW c \in changing, RollBack(c) PROVE OneChange' /\ AdminStep
  BY <1>5, KeepsOneChange DEF RollBack
<1>6. UNCHANGED <<admins, changing>> => OneChange' /\ AdminStep
  BY KeepsOneChange
<1>7. ASSUME NEW d \in Dispatcher,
             \/ Start(d) \/ Poll(d) \/ FindNothing(d)
             \/ \E o \in Op : Pick(d, o)
             \/ NotAuthorized(d) \/ StepFails(d) \/ RecordFailure(d)
             \/ NoticeLostLock(d) \/ Crash(d) \/ LoseLock(d)
      PROVE  UNCHANGED <<admins, changing>>
  BY <1>7
  DEF Start, Poll, FindNothing, Pick, NotAuthorized, StepFails, RecordFailure,
      NoticeLostLock, Crash, LoseLock, database
<1>8. ASSUME NEW d \in Dispatcher,
             \/ Prepare(d) \/ Store(d) \/ Recheck(d) \/ Import(d) \/ AuditRegrade(d) \/ Write(d)
             \/ SweepOn(d) \/ PrepareExercise(d) \/ Publish(d) \/ Finish(d)
      PROVE  UNCHANGED <<admins, changing>>
  BY <1>8
  DEF Prepare, Store, Recheck, Import, AuditRegrade, Write, SweepOn, PrepareExercise, Publish,
      Finish, database
<1>9. ASSUME NEW o \in Op, NEW s \in Session, NEW a \in Offered,
             NEW who \in Account \cup {None}, Submit(o, s, a, who)
      PROVE  UNCHANGED <<admins, changing>>
  BY <1>9 DEF Submit, database
<1>10. ASSUME NEW o \in Op, NEW s \in Session, NEW t \in Dispatcher, Confirm(o, s, t)
       PROVE  UNCHANGED <<admins, changing>>
  BY <1>10 DEF Confirm, database
<1>11. ASSUME NEW r \in Record \ {"admins"}, Elsewhere(r) PROVE UNCHANGED <<admins, changing>>
  BY <1>11 DEF Elsewhere
<1>12. CASE UNCHANGED vars
  BY <1>6, <1>12 DEF vars, database
<1>. QED
  BY <1>1, <1>2, <1>3, <1>4, <1>5, <1>6, <1>7, <1>8, <1>9, <1>10, <1>11, <1>12, Zenon DEF Next

\* Revocations side by side, from the portal and from gradingctl, take the last
\* administrator only with the recovery override.
THEOREM AnAdminRemains == Spec => AlwaysAnAdmin
<1>1. Init => PortalInv /\ OneChange
  BY PortalInitially DEF Init, OneChange
<1>2. PortalInv /\ OneChange /\ [Next]_vars => (PortalInv /\ OneChange)' /\ [AdminStep]_vars
  BY PortalStep, OneChangeStep
<1>. QED  BY <1>1, <1>2, PTL DEF Spec, AlwaysAnAdmin, AdminStep
=============================================================================
