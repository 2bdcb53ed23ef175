---------------------------- MODULE MCTaskQueue ----------------------------
(* A small queue for TLC: one task of each kind that matters to the table, *)
(* and worker loops: of gradingctl work --once, which serves every kind, or *)
(* of gradingctl work, which has a loop of its own for deadline locks.     *)
EXTENDS TaskQueue, TLC

CONSTANTS snap, prov, lock,  \* tasks
          w1, w2             \* worker loops

MCKindOf == [t \in Task |-> CASE t = snap -> "snapshot"
                              [] t = prov -> "provision"
                              [] t = lock -> "lock"]
AllKinds == [w \in Worker |-> Kind]
MixedKinds == [w \in Worker |-> IF w = w2 THEN {"lock"} ELSE Kind]
Symmetry == Permutations(Worker)
MCBackoff == [n \in 1..MaxAttempts |-> n]
=============================================================================
