----------------------------- MODULE LeasedTasks -----------------------------
(***************************************************************************)
(* The queue as the agents use it: orchestration/queue.py without clocks,  *)
(* tokens and memory documents.  TaskQueue models the queue itself and     *)
(* shows that it implements TaskLifecycle; this module gives the agents'   *)
(* modules the same rows in the terms of that promise.                     *)
(*                                                                         *)
(* The owner of a row is the worker whose attempt it is.  A worker has one *)
(* attempt at a time, so its name stands for its token; a row that a crash *)
(* left behind is not the worker's current one.  A lease may run out at    *)
(* any moment, as a worker may stall for longer than any lease; the        *)
(* recovery that finds it is a step per row.                               *)
(***************************************************************************)
EXTENDS Integers

CONSTANTS
  Tasks, Workers, Null,
  MaxAttempts   \* the max_attempts column of each task

ASSUME AttemptsAssumption == MaxAttempts \in [Tasks -> Nat \ {0}]
ASSUME NobodyAssumption == Null \notin Workers

VARIABLE task   \* the row of each task

Absent == [status |-> "ABSENT", owner |-> Null, spent |-> 0]
Published(status) == [Absent EXCEPT !.status = status]

\* QueueService.fence: w's attempt still owns the task.
Fence(t, w) == task[t].status = "ACTIVE" /\ task[t].owner = w

\* A claim counts an attempt unless it continues one that a human answered.
Granted(row, w, continues) ==
  [row EXCEPT !.status = "ACTIVE", !.owner = w, !.spent = IF continues THEN @ ELSE @ + 1]

Ended(row, status) == [row EXCEPT !.status = status, !.owner = Null]

\* recover: an expired lease makes the row READY while attempts are left.
Lapsed(row, t) == Ended(row, IF row.spent < MaxAttempts[t] THEN "READY" ELSE "FAILED")

\* fail: a retryable error waits for the next attempt, if there is one.
Retried(row, t, retryable) ==
  Ended(row, IF retryable /\ row.spent < MaxAttempts[t] THEN "WAITING_RETRY" ELSE "FAILED")

\* release: a worker that stops gives the row back with a continuation mark.
Released(row) == Ended(row, "READY")

Claimable(t) == task[t].status = "READY" /\ task[t].spent < MaxAttempts[t]

\* Mutant: recovery looks at leases only.
RecoverLapsed(t) ==
  task[t].status = "ACTIVE" /\ task' = [task EXCEPT ![t] = Lapsed(@, t)]

\* Recovery takes back a row whose lease has run out, or wakes a due retry.
RecoverTask(t) ==
  \/ task[t].status = "ACTIVE" /\ task' = [task EXCEPT ![t] = Lapsed(@, t)]
  \/ task[t].status = "WAITING_RETRY" /\ task' = [task EXCEPT ![t].status = "READY"]

-----------------------------------------------------------------------------
(* What one transaction of the queue may do to a row.  TaskQueue shows that it *)
(* does nothing else, and the agents' modules that they ask for nothing else.  *)

\* enqueue, at once READY or with a question for a human.
PublishRow(t) == task[t].status = "ABSENT" /\ task'[t] \in {Published("READY"), Published("WAITING_HUMAN")}

\* claim: the first claims count, up to max_attempts; a continuation does not.
GrantRow(t) ==
  /\ task[t].status = "READY"
  /\ \E w \in Workers, continues \in BOOLEAN :
       /\ task'[t] = Granted(task[t], w, continues)
       /\ continues \/ Claimable(t)

\* complete, release, abort and fail by the owner, or recovery of its lease.
EndRow(t) ==
  /\ task[t].status = "ACTIVE"
  /\ \/ task'[t] \in {Ended(task[t], "SUCCEEDED"), Ended(task[t], "WAITING_HUMAN"), Ended(task[t], "ABORTED"),
                      Released(task[t]), Lapsed(task[t], t)}
     \/ \E retryable \in BOOLEAN : task'[t] = Retried(task[t], t, retryable)

\* resume by a human's answer, and recovery of a due retry.
WakeRow(t) ==
  task[t].status \in {"WAITING_HUMAN", "WAITING_RETRY"} /\ task'[t] = [task[t] EXCEPT !.status = "READY"]

CancelRow(t) ==
  task[t].status \in {"READY", "WAITING_HUMAN"} /\ task'[t] = Ended(task[t], "CANCELED")

RowStep(t) ==
  task'[t] = task[t] \/ PublishRow(t) \/ GrantRow(t) \/ EndRow(t) \/ WakeRow(t) \/ CancelRow(t)
=============================================================================
