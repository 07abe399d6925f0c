----------------------------- MODULE MCTaskQueue -----------------------------
(* TaskQueue on a small instance: both workers compete for both tasks, one  *)
(* with a single attempt and one that may retry.                            *)
EXTENDS TaskQueue, TLC

CONSTANTS t1, t2, w1, w2

MCTypes == {"BUILD_RESUME"}

OneType == [t \in Tasks |-> "BUILD_RESUME"]
AllServe == [w \in Workers |-> {"BUILD_RESUME"}]

MCPriority == [t \in Tasks |-> IF t = t1 THEN 1 ELSE 2]
MCMaxAttempts == [t \in Tasks |-> IF t = t1 THEN 2 ELSE 1]
MCRetryDelays == <<1>>

Symmetry == Permutations(Owners) \cup Permutations(Workers)
=============================================================================
