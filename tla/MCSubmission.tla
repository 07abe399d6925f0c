---------------------------- MODULE MCSubmission ----------------------------
(* Submission with two rounds, one review worker and one or two submission  *)
(* workers.  The tasks are named by strings, as app.current may also be the *)
(* connector's task.                                                        *)
EXTENDS Submission, TLC

CONSTANTS rw  \* the review worker

MCTasks == {"review1", "submit1"} \cup (IF MaxRounds = 2 THEN {"review2", "submit2"} ELSE {})
MCReviewTask == [r \in Rounds |-> IF r = 1 THEN "review1" ELSE "review2"]
MCSubmitTask == [r \in Rounds |-> IF r = 1 THEN "submit1" ELSE "submit2"]
MCTypes == {"CREATE_REVIEW", "SUBMIT_APPLICATION"}
MCTypeOf == [t \in Tasks |-> IF t \in {"review1", "review2"} THEN "CREATE_REVIEW"
                             ELSE "SUBMIT_APPLICATION"]
MCServes == [w \in Workers |-> IF w = rw THEN {"CREATE_REVIEW"} ELSE {"SUBMIT_APPLICATION"}]
MCPriority == [t \in Tasks |-> 100]
MCMaxAttempts == [t \in Tasks |-> IF TypeOf[t] = "CREATE_REVIEW" THEN 1 ELSE 2]
MCRetryDelays == <<1>>

Symmetry == Permutations(Owners) \cup Permutations(Contents) \cup Permutations(Workers \ {rw})
=============================================================================
