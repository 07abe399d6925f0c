---------------------------- MODULE TaskLifecycle ----------------------------
(***************************************************************************)
(* What the queue promises about a task, without leases, clocks, workers   *)
(* or memory: the stages it may pass through, that at most one owner has   *)
(* it at a time and only that owner's attempt ends, and that it starts at  *)
(* most MaxAttempts attempts.  A lease that runs out is a choice here.     *)
(***************************************************************************)
EXTENDS Integers

CONSTANTS Tasks, Owners, Null, MaxAttempts

VARIABLES stage, owner, spent

lifecycleVars == <<stage, owner, spent>>

Final == {"SUCCEEDED", "ABORTED", "FAILED", "CANCELED"}

Init ==
  /\ stage = [t \in Tasks |-> "ABSENT"]
  /\ owner = [t \in Tasks |-> Null]
  /\ spent = [t \in Tasks |-> 0]

\* One task moves: each is a relation between its old and its new values.
Publish(t) ==
  /\ stage[t] = "ABSENT" /\ stage'[t] \in {"READY", "WAITING_HUMAN"}
  /\ owner'[t] = Null /\ spent'[t] = 0

Grant(t) ==
  /\ stage[t] = "READY" /\ stage'[t] = "ACTIVE"
  /\ owner'[t] \in Owners
  /\ \A u \in Tasks : owner[u] # owner'[t]
  /\ spent'[t] \in {spent[t], spent[t] + 1}
  /\ spent'[t] <= MaxAttempts[t]

EndAttempt(t) ==
  /\ stage[t] = "ACTIVE"
  /\ \/ stage'[t] \in {"READY", "WAITING_HUMAN"} \cup (Final \ {"CANCELED"})
     \/ stage'[t] = "WAITING_RETRY" /\ spent[t] < MaxAttempts[t]
  /\ owner'[t] = Null /\ spent'[t] = spent[t]

Awake(t) ==
  /\ stage[t] \in {"WAITING_HUMAN", "WAITING_RETRY"} /\ stage'[t] = "READY"
  /\ owner'[t] = owner[t] /\ spent'[t] = spent[t]

Cancel(t) ==
  /\ stage[t] \in {"READY", "WAITING_HUMAN"} /\ stage'[t] = "CANCELED"
  /\ owner'[t] = owner[t] /\ spent'[t] = spent[t]

Stay(t) == stage'[t] = stage[t] /\ owner'[t] = owner[t] /\ spent'[t] = spent[t]

\* Recovery moves several tasks in one step.
Next ==
  /\ DOMAIN stage' = Tasks /\ DOMAIN owner' = Tasks /\ DOMAIN spent' = Tasks
  /\ \A t \in Tasks :
       Publish(t) \/ Grant(t) \/ EndAttempt(t) \/ Awake(t) \/ Cancel(t) \/ Stay(t)

Spec == Init /\ [][Next]_lifecycleVars
=============================================================================
