-------------------------- MODULE PublishingProofs --------------------------
(***************************************************************************)
(* Publishing for any number of worker loops: the check runs of a run are  *)
(* counted by the senders that were at work side by side.                  *)
(***************************************************************************)
EXTENDS Publishing, FiniteSetTheorems, TLAPS

PubStep == {"rest", "look", "send", "store"}

\* GitHub numbers the check runs; ids that somebody remembers are among them.
Known ==
    /\ \E n \in Nat : checks = 1 .. n
    /\ publisher \in [Publisher -> [at : PubStep, found : checks \cup {0}]]
    /\ outbox.check \in checks \cup {0}
    /\ \A p \in Publisher : publisher[p].at = "store" => publisher[p].found \in checks
    /\ posting \in Nat /\ overlaps \in Nat

\* The holder is at work, and nobody holds a task that can be taken as pending.
Held ==
    /\ pubHolder \in Publisher \cup {NoPublisher}
    /\ pubHolder # NoPublisher => publisher[pubHolder].at # "rest" /\ pubTask = "leased"

\* Who is about to create a check run, and who may come to it as long as there
\* is none.
Creating == {p \in Publisher : publisher[p].at = "send" /\ publisher[p].found = 0}
Unaware == {p \in Publisher : publisher[p].at \in {"look", "send"} /\ publisher[p].found = 0}

\* Everybody but the holder has been counted as an overlap; once there is a
\* check run, nobody who looks creates another.
Counted ==
    /\ IsFiniteSet(Unaware)
    /\ checks = {} => posting + Cardinality(Unaware \ {pubHolder}) <= overlaps
    /\ checks # {} => Cardinality(checks) + posting + Cardinality(Creating) <= 1 + overlaps

PubInv == Known /\ Held /\ Counted

\* The ids given out so far, and the next one.
LEMMA NextId ==
  ASSUME Known
  PROVE  /\ IsFiniteSet(checks)
         /\ Cardinality(checks) \in Nat
         /\ Cardinality(checks) + 1 \notin checks
         /\ 0 \notin checks
         /\ \E n \in Nat : checks \cup {Cardinality(checks) + 1} = 1 .. n
         /\ checks # {} <=> Cardinality(checks) # 0
         /\ Cardinality(checks \cup {Cardinality(checks) + 1}) = Cardinality(checks) + 1
<1>1. PICK n \in Nat : checks = 1 .. n
  BY DEF Known
<1>2. IsFiniteSet(checks) /\ Cardinality(checks) = n
  BY <1>1, FS_Interval
<1>3. checks \cup {n + 1} = 1 .. (n + 1)
  BY <1>1
<1>4. n + 1 \notin checks /\ 0 \notin checks
  BY <1>1
<1>5. Cardinality(checks \cup {n + 1}) = n + 1
  BY <1>2, <1>4, FS_AddElement
<1>6. checks # {} <=> n # 0
  BY <1>1
<1>7. \E k \in Nat : checks \cup {n + 1} = 1 .. k
  BY <1>3
<1>. QED  BY <1>2, <1>4, <1>5, <1>6, <1>7

\* Those who create are among those who do not know of a check run.
LEMMA Numbers ==
  ASSUME IsFiniteSet(Unaware)
  PROVE  /\ Creating \subseteq Unaware
         /\ IsFiniteSet(Creating)
         /\ Cardinality(Creating) \in Nat
         /\ Cardinality(Unaware) \in Nat
         /\ IsFiniteSet(Unaware \ {pubHolder})
         /\ Cardinality(Unaware \ {pubHolder}) \in Nat
         /\ Cardinality(Unaware) <= Cardinality(Unaware \ {pubHolder}) + 1
<1>1. Creating \subseteq Unaware
  BY DEF Creating, Unaware
<1>2. IsFiniteSet(Creating) /\ Cardinality(Creating) \in Nat /\ Cardinality(Unaware) \in Nat
  BY <1>1, FS_Subset, FS_CardinalityType
<1>3. /\ IsFiniteSet(Unaware \ {pubHolder})
      /\ Cardinality(Unaware \ {pubHolder}) =
           IF pubHolder \in Unaware THEN Cardinality(Unaware) - 1 ELSE Cardinality(Unaware)
  BY FS_RemoveElement
<1>4. Cardinality(Unaware \ {pubHolder}) \in Nat
  BY <1>3, FS_CardinalityType
<1>5. Cardinality(Unaware) <= Cardinality(Unaware \ {pubHolder}) + 1
  BY <1>2, <1>3, <1>4
<1>. QED  BY <1>1, <1>2, <1>3, <1>4, <1>5

\* Nobody is at work at the start.
LEMMA PubInitially == PubInit => PubInv
<1>. SUFFICES ASSUME PubInit PROVE PubInv
  OBVIOUS
<1>1. checks = 1 .. 0
  BY DEF PubInit
<1>2. Known /\ Held
  BY <1>1 DEF PubInit, Known, Held, AtRest, PubStep
<1>3. Unaware = {}
  BY DEF PubInit, Unaware, AtRest
<1>4. Unaware \ {pubHolder} = {}
  BY <1>3
<1>5. Counted
  BY <1>3, <1>4, FS_EmptySet DEF Counted, PubInit
<1>. QED  BY <1>2, <1>5 DEF PubInv

\* The task appears.
LEMMA EnqueueInv == ASSUME PubInv, EnqueuePublish PROVE PubInv'
  BY DEF PubInv, Known, Held, Counted, Creating, Unaware, EnqueuePublish

\* A step that neither changes GitHub nor lets anybody begin: nobody joins
\* those who may create.
LEMMA FewerSenders ==
  ASSUME PubInv, UNCHANGED <<checks, posting>>,
         overlaps' \in Nat, overlaps' >= overlaps,
         Unaware' \subseteq Unaware, Creating' \subseteq Creating,
         Unaware' \ {pubHolder'} \subseteq Unaware \ {pubHolder}
  PROVE  Counted'
<1>1. IsFiniteSet(Unaware)
  BY DEF PubInv, Counted
<1>2. /\ IsFiniteSet(Unaware')
      /\ Cardinality(Creating') \in Nat /\ Cardinality(Creating') <= Cardinality(Creating)
      /\ Cardinality(Unaware' \ {pubHolder'}) \in Nat
      /\ Cardinality(Unaware' \ {pubHolder'}) <= Cardinality(Unaware \ {pubHolder})
  BY <1>1, Numbers, FS_Subset, FS_CardinalityType
<1>3. Cardinality(checks) \in Nat
  BY NextId DEF PubInv
<1>4. posting \in Nat /\ overlaps \in Nat
  BY DEF PubInv, Known
<1>5. Cardinality(Creating) \in Nat /\ Cardinality(Unaware \ {pubHolder}) \in Nat
  BY <1>1, Numbers
<1>6. checks = {} => posting + Cardinality(Unaware' \ {pubHolder'}) <= overlaps'
  BY <1>2, <1>4, <1>5 DEF PubInv, Counted
<1>7. checks # {} => Cardinality(checks) + posting + Cardinality(Creating') <= 1 + overlaps'
  BY <1>2, <1>3, <1>4, <1>5 DEF PubInv, Counted
<1>. QED  BY <1>2, <1>6, <1>7 DEF Counted

LEMMA TakeInv == ASSUME PubInv, NEW p \in Publisher, TakePublish(p) PROVE PubInv'
<1>1. pubHolder = NoPublisher
  BY DEF PubInv, Held, TakePublish
<1>2. publisher' \in [Publisher -> [at : PubStep, found : checks \cup {0}]]
  BY DEF PubInv, Known, TakePublish, PubStep
<1>3. Known' /\ Held'
  BY <1>2, PublisherAssumption DEF PubInv, Known, Held, TakePublish
<1>4. Unaware' \subseteq Unaware \cup {p} /\ Unaware' \ {pubHolder'} \subseteq Unaware
      /\ Creating' \subseteq Creating
  BY DEF PubInv, Known, TakePublish, Unaware, Creating
<1>5. IsFiniteSet(Unaware) /\ pubHolder \notin Publisher
  BY <1>1, PublisherAssumption DEF PubInv, Counted
<1>6. Unaware \ {pubHolder} = Unaware
  BY <1>5 DEF Unaware
<1>7. IsFiniteSet(Unaware')
  BY <1>4, <1>5, FS_AddElement, FS_Subset
<1>8. Cardinality(Unaware' \ {pubHolder'}) \in Nat
      /\ Cardinality(Unaware' \ {pubHolder'}) <= Cardinality(Unaware)
  BY <1>4, <1>5, FS_Subset, FS_CardinalityType
<1>9. Cardinality(Creating') \in Nat /\ Cardinality(Creating') <= Cardinality(Creating)
  BY <1>4, <1>5, Numbers, FS_Subset, FS_CardinalityType
<1>10. UNCHANGED <<checks, posting, overlaps>>
  BY DEF TakePublish
<1>11. Cardinality(checks) \in Nat
  BY NextId DEF PubInv
<1>12. Counted'
  <2>1. Cardinality(Creating) \in Nat /\ Cardinality(Unaware) \in Nat
    BY <1>5, Numbers
  <2>2. posting \in Nat /\ overlaps \in Nat
    BY DEF PubInv, Known
  <2>3. checks = {} => posting + Cardinality(Unaware' \ {pubHolder'}) <= overlaps
    BY <1>6, <1>8, <2>1, <2>2 DEF PubInv, Counted
  <2>4. checks # {} => Cardinality(checks) + posting + Cardinality(Creating') <= 1 + overlaps
    BY <1>9, <1>11, <2>1, <2>2 DEF PubInv, Counted
  <2>. QED  BY <1>7, <1>10, <2>3, <2>4 DEF Counted
<1>. QED  BY <1>3, <1>12 DEF PubInv

\* Who finds a check run updates it.
LEMMA LookInv == ASSUME PubInv, NEW p \in Publisher, LookForCheck(p) PROVE PubInv'
<1>1. PICK id \in IF publisher[p].found # 0 \/ checks = {} THEN {publisher[p].found} ELSE checks :
        publisher' = [publisher EXCEPT ![p] = [at |-> "send", found |-> id]]
  BY DEF LookForCheck
<1>2. id \in checks \cup {0} /\ (id = 0 => publisher[p].found = 0 /\ checks = {})
  BY NextId DEF PubInv, Known
<1>3. Known' /\ Held'
  BY <1>1, <1>2, PublisherAssumption DEF PubInv, Known, Held, LookForCheck, PubStep
<1>4. Unaware' \subseteq Unaware
  BY <1>1, <1>2 DEF PubInv, Known, LookForCheck, Unaware
<1>5. CASE checks = {}
  <2>1. IsFiniteSet(Unaware)
    BY DEF PubInv, Counted
  <2>2. IsFiniteSet(Unaware')
    BY <1>4, <2>1, FS_Subset
  <2>3. UNCHANGED <<checks, posting, overlaps, pubHolder>>
    BY DEF LookForCheck
  <2>4. Unaware' \ {pubHolder'} \subseteq Unaware \ {pubHolder}
    BY <1>4, <2>3
  <2>5. Cardinality(Unaware' \ {pubHolder'}) \in Nat
        /\ Cardinality(Unaware' \ {pubHolder'}) <= Cardinality(Unaware \ {pubHolder})
    BY <2>1, <2>4, Numbers, FS_Subset, FS_CardinalityType
  <2>6. /\ Cardinality(Unaware \ {pubHolder}) \in Nat
        /\ posting \in Nat /\ overlaps \in Nat
    BY <2>1, Numbers DEF PubInv, Known
  <2>7. posting + Cardinality(Unaware \ {pubHolder}) <= overlaps
    BY <1>5 DEF PubInv, Counted
  <2>8. posting + Cardinality(Unaware' \ {pubHolder'}) <= overlaps
    BY <2>5, <2>6, <2>7
  <2>9. Counted'
    BY <1>5, <2>2, <2>3, <2>8 DEF Counted
  <2>. QED  BY <1>3, <2>9 DEF PubInv
<1>6. CASE checks # {}
  <2>1. Creating' \subseteq Creating
    BY <1>1, <1>2, <1>6 DEF PubInv, Known, LookForCheck, Creating
  <2>2. UNCHANGED <<checks, posting, overlaps, pubHolder>> /\ overlaps >= overlaps
    BY DEF LookForCheck, PubInv, Known
  <2>3. Unaware' \ {pubHolder'} \subseteq Unaware \ {pubHolder}
    BY <1>4, <2>2
  <2>4. Counted'
    BY <1>4, <2>1, <2>2, <2>3, FewerSenders DEF PubInv, Known
  <2>. QED  BY <1>3, <2>4 DEF PubInv
<1>. QED  BY <1>5, <1>6

\* One more check run, and one fewer who may create one.
LEMMA OneMore ==
  ASSUME PubInv, checks' = checks \cup {Cardinality(checks) + 1},
         UNCHANGED <<overlaps, pubHolder>>, posting' \in Nat,
         IsFiniteSet(Unaware'), Creating' \subseteq Creating,
         posting' + Cardinality(Creating') + 1 <= posting + Cardinality(Creating)
  PROVE  Counted'
<1>1. /\ Cardinality(checks) \in Nat
      /\ Cardinality(checks') = Cardinality(checks) + 1
      /\ checks = {} => Cardinality(checks) = 0
  BY NextId DEF PubInv
<1>2. posting \in Nat /\ overlaps \in Nat /\ IsFiniteSet(Unaware)
  BY DEF PubInv, Known, Counted
<1>3. /\ Cardinality(Creating) \in Nat /\ Cardinality(Unaware) \in Nat
      /\ Cardinality(Unaware \ {pubHolder}) \in Nat
      /\ Cardinality(Creating) <= Cardinality(Unaware)
  BY <1>2, Numbers, FS_Subset
<1>4. Cardinality(Unaware) <= Cardinality(Unaware \ {pubHolder}) + 1
  BY <1>2, Numbers
<1>5. Cardinality(Creating') \in Nat
  BY <1>2, Numbers, FS_Subset, FS_CardinalityType
<1>6. Cardinality(checks) + posting + Cardinality(Creating) <= 1 + overlaps
  <2>1. CASE checks = {}
    BY <1>1, <1>2, <1>3, <1>4, <2>1 DEF PubInv, Counted
  <2>2. CASE checks # {}
    BY <2>2 DEF PubInv, Counted
  <2>. QED  BY <2>1, <2>2
<1>7. Cardinality(checks') + posting' + Cardinality(Creating') <= 1 + overlaps'
  BY <1>1, <1>2, <1>3, <1>5, <1>6
<1>8. checks' # {}
  OBVIOUS
<1>. QED  BY <1>7, <1>8 DEF Counted

\* The request that updates or creates.
LEMMA SendInv == ASSUME PubInv, NEW p \in Publisher, SendCheck(p) PROVE PubInv'
<1>. DEFINE c == Cardinality(checks) + 1
<1>1. publisher[p].at = "send" /\ publisher[p].found \in checks \cup {0}
  BY DEF PubInv, Known, SendCheck
<1>2. CASE publisher[p].found # 0
  <2>1. checks' = checks /\ publisher' = [publisher EXCEPT ![p].at = "store"]
    BY <1>1, <1>2 DEF SendCheck, PubInv, Known
  <2>2. Known' /\ Held'
    BY <1>1, <1>2, <2>1, PublisherAssumption DEF PubInv, Known, Held, SendCheck, PubStep
  <2>3. /\ Unaware' \subseteq Unaware /\ Creating' \subseteq Creating
        /\ UNCHANGED <<posting, overlaps, pubHolder>>
    BY <2>1 DEF PubInv, Known, SendCheck, Unaware, Creating
  <2>4. Counted'
    BY <2>1, <2>3, FewerSenders DEF PubInv, Known
  <2>. QED  BY <2>2, <2>4 DEF PubInv
<1>3. CASE publisher[p].found = 0
  <2>1. /\ checks' = checks \cup {c}
        /\ publisher' = [publisher EXCEPT ![p] = [at |-> "store", found |-> c]]
        /\ UNCHANGED <<posting, overlaps, pubHolder, pubTask, outbox>>
    BY <1>3 DEF SendCheck
  <2>2. c # 0 /\ \E n \in Nat : checks' = 1 .. n
    BY <2>1, NextId DEF PubInv
  <2>3. Known' /\ Held'
    BY <2>1, <2>2, PublisherAssumption DEF PubInv, Known, Held, PubStep
  <2>4. p \in Creating /\ Creating' = Creating \ {p} /\ Unaware' = Unaware \ {p}
    BY <1>1, <1>3, <2>1, <2>2 DEF PubInv, Known, Creating, Unaware
  <2>5. IsFiniteSet(Unaware) /\ posting \in Nat
    BY DEF PubInv, Counted, Known
  <2>6. IsFiniteSet(Unaware') /\ IsFiniteSet(Creating) /\ Cardinality(Creating) \in Nat
        /\ Cardinality(Creating') = Cardinality(Creating) - 1
    BY <2>4, <2>5, Numbers, FS_RemoveElement
  <2>7. Counted'
    BY <2>1, <2>4, <2>5, <2>6, OneMore
  <2>. QED  BY <2>3, <2>7 DEF PubInv
<1>. QED  BY <1>2, <1>3

\* A request of a sender that is gone.
LEMMA ArrivesInv == ASSUME PubInv, PostArrives PROVE PubInv'
<1>1. \E n \in Nat : checks' = 1 .. n
  BY NextId DEF PubInv, PostArrives
<1>2. Known' /\ Held'
  BY <1>1 DEF PubInv, Known, Held, PostArrives
<1>3. Creating' = Creating /\ Unaware' = Unaware
  BY DEF PostArrives, Creating, Unaware
<1>4. IsFiniteSet(Unaware) /\ posting \in Nat
  BY DEF PubInv, Counted, Known
<1>5. Cardinality(Creating) \in Nat
  BY <1>4, Numbers
<1>6. posting' \in Nat /\ posting' + 1 = posting
  BY <1>4 DEF PostArrives
<1>7. Counted'
  BY <1>3, <1>4, <1>5, <1>6, OneMore DEF PostArrives
<1>. QED  BY <1>2, <1>7 DEF PubInv

\* The worker is done, gives up or dies; a request that it leaves behind is counted.
LEMMA EndInv ==
  ASSUME PubInv, NEW p \in Publisher, StoreCheck(p) \/ PublishFails(p) \/ PublisherDies(p)
  PROVE  PubInv'
<1>1. /\ publisher' = [publisher EXCEPT ![p] = AtRest]
      /\ UNCHANGED checks
      /\ pubHolder' = IF pubHolder = p THEN NoPublisher ELSE pubHolder
      /\ pubHolder # p => pubTask' = pubTask
  BY DEF StoreCheck, PublishFails, PublisherDies
<1>2. outbox'.check \in checks \cup {0}
  BY DEF PubInv, Known, StoreCheck, PublishFails, PublisherDies
<1>3. \/ UNCHANGED <<posting, overlaps>>
      \/ posting' = posting + 1 /\ overlaps' = overlaps + 1
  BY DEF StoreCheck, PublishFails, PublisherDies, LeavesPost
<1>4. Known' /\ Held'
  <2>1. posting' \in Nat /\ overlaps' \in Nat
    BY <1>3 DEF PubInv, Known
  <2>. QED  BY <1>1, <1>2, <2>1, PublisherAssumption DEF PubInv, Known, Held, AtRest, PubStep
<1>5. /\ Unaware' \subseteq Unaware /\ Creating' \subseteq Creating
      /\ Unaware' \ {pubHolder'} \subseteq Unaware \ {pubHolder}
  BY <1>1 DEF PubInv, Known, Unaware, Creating, AtRest
<1>6. CASE UNCHANGED <<posting, overlaps>>
  <2>1. UNCHANGED <<checks, posting>> /\ overlaps' \in Nat /\ overlaps' >= overlaps
    BY <1>1, <1>6 DEF PubInv, Known
  <2>2. Counted'
    BY <1>5, <2>1, FewerSenders
  <2>. QED  BY <1>4, <2>2 DEF PubInv
<1>7. CASE posting' = posting + 1 /\ overlaps' = overlaps + 1
  <2>1. IsFiniteSet(Unaware)
    BY DEF PubInv, Counted
  <2>2. /\ posting \in Nat /\ overlaps \in Nat /\ Cardinality(checks) \in Nat
        /\ Cardinality(Creating) \in Nat /\ Cardinality(Unaware \ {pubHolder}) \in Nat
    BY <2>1, Numbers, NextId DEF PubInv, Known
  <2>3. /\ IsFiniteSet(Unaware')
        /\ Cardinality(Creating') \in Nat /\ Cardinality(Creating') <= Cardinality(Creating)
        /\ Cardinality(Unaware' \ {pubHolder'}) \in Nat
        /\ Cardinality(Unaware' \ {pubHolder'}) <= Cardinality(Unaware \ {pubHolder})
    BY <1>5, <2>1, Numbers, FS_Subset, FS_CardinalityType
  <2>4. checks = {} => posting' + Cardinality(Unaware' \ {pubHolder'}) <= overlaps'
    BY <1>7, <2>2, <2>3 DEF PubInv, Counted
  <2>5. checks # {} => Cardinality(checks) + posting' + Cardinality(Creating') <= 1 + overlaps'
    BY <1>7, <2>2, <2>3 DEF PubInv, Counted
  <2>6. Counted'
    BY <1>1, <2>3, <2>4, <2>5 DEF Counted
  <2>. QED  BY <1>4, <2>6 DEF PubInv
<1>. QED  BY <1>3, <1>6, <1>7

\* The holder becomes one of the others, and is counted.
LEMMA StallInv == ASSUME PubInv, NEW p \in Publisher, PublishStalls(p) PROVE PubInv'
<1>1. Known' /\ Held'
  BY PublisherAssumption DEF PubInv, Known, Held, PublishStalls
<1>2. Unaware' = Unaware /\ Creating' = Creating /\ IsFiniteSet(Unaware)
  BY DEF PubInv, Counted, PublishStalls, Unaware, Creating
<1>3. /\ posting \in Nat /\ overlaps \in Nat /\ Cardinality(checks) \in Nat
      /\ Cardinality(Creating) \in Nat /\ Cardinality(Unaware) \in Nat
      /\ Cardinality(Unaware \ {pubHolder}) \in Nat
  BY <1>2, Numbers, NextId DEF PubInv, Known
<1>4. Cardinality(Unaware) <= Cardinality(Unaware \ {pubHolder}) + 1
  BY <1>2, Numbers
<1>5. Unaware' \ {pubHolder'} = Unaware
  BY <1>2, PublisherAssumption DEF PublishStalls, Unaware
<1>6. UNCHANGED <<checks, posting>> /\ overlaps' = overlaps + 1
  BY DEF PublishStalls
<1>7. checks = {} => posting + Cardinality(Unaware) <= overlaps + 1
  BY <1>3, <1>4 DEF PubInv, Counted
<1>8. checks # {} => Cardinality(checks) + posting + Cardinality(Creating) <= 1 + (overlaps + 1)
  BY <1>3 DEF PubInv, Counted
<1>9. Counted'
  BY <1>2, <1>5, <1>6, <1>7, <1>8 DEF Counted
<1>. QED  BY <1>1, <1>9 DEF PubInv

\* Every step keeps the count.
LEMMA PubStepInv == PubInv /\ [PubNext]_pubVars => PubInv'
<1>. SUFFICES ASSUME PubInv, [PubNext]_pubVars PROVE PubInv'
  OBVIOUS
<1>1. CASE EnqueuePublish
  BY <1>1, EnqueueInv
<1>2. CASE PostArrives
  BY <1>2, ArrivesInv
<1>3. ASSUME NEW p \in Publisher, PublishStep(p) PROVE PubInv'
  BY <1>3, TakeInv, LookInv, SendInv, EndInv DEF PublishStep
<1>4. ASSUME NEW p \in Publisher, PublishFails(p) \/ PublishStalls(p) \/ PublisherDies(p)
      PROVE  PubInv'
  BY <1>4, EndInv, StallInv
<1>5. CASE UNCHANGED pubVars
  BY <1>5 DEF pubVars, PubInv, Known, Held, Counted, Creating, Unaware
<1>. QED  BY <1>1, <1>2, <1>3, <1>4, <1>5 DEF PubNext

-----------------------------------------------------------------------------
\* The inductive invariant, for any number of worker loops and of mishaps.
THEOREM PublishingInvariant == PubSpec => []PubInv
  BY PubInitially, PubStepInv, PTL DEF PubSpec

\* publish looks for the check run of the run before it creates one: however
\* often it fails or is tried again, a second one needs a sender that was still
\* at work, or whose POST was, when its successor had begun.
THEOREM ChecksAreCounted == PubSpec => []OneCheckPerSender
<1>1. PubInv => OneCheckPerSender
  <2>. SUFFICES ASSUME PubInv PROVE OneCheckPerSender
    OBVIOUS
  <2>1. IsFiniteSet(Unaware) /\ posting \in Nat /\ overlaps \in Nat
    BY DEF PubInv, Counted, Known
  <2>2. Cardinality(Creating) \in Nat /\ Cardinality(checks) \in Nat
    BY <2>1, Numbers, NextId DEF PubInv
  <2>3. checks = {} => Cardinality(checks) = 0
    BY NextId DEF PubInv
  <2>. QED  BY <2>1, <2>2, <2>3 DEF PubInv, Counted, OneCheckPerSender
<1>. QED  BY <1>1, PublishingInvariant, PTL
=============================================================================
