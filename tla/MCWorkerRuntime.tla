--------------------------- MODULE MCWorkerRuntime ---------------------------
(* WorkerRuntime on small instances: two workers compete for one task whose *)
(* graph prepares, asks a human and finishes (workflows.fake_workflow).     *)
EXTENDS WorkerRuntime, TLC

MCTypes == {"BUILD_RESUME"}
MCTypeOf == [t \in Tasks |-> "BUILD_RESUME"]
MCServes == [w \in Workers |-> MCTypes]
MCPriority == [t \in Tasks |-> 100]
MCMaxAttempts == [t \in Tasks |-> 2]
MCRetryDelays == <<1>>

=============================================================================
