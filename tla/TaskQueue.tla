------------------------------ MODULE TaskQueue ------------------------------
(***************************************************************************)
(* The durable task queue: orchestration/queue.py (QueueService) over the  *)
(* agent_queue and task_memory tables, with the leases that workers hold.  *)
(*                                                                         *)
(* Every QueueService method is one BEGIN IMMEDIATE transaction, so it is  *)
(* one action.  A worker is a client process; it keeps the Lease value     *)
(* that claim returned until its attempt is over or the process dies, also *)
(* after the row has moved on: calls with a stale lease are what fence()   *)
(* must reject.                                                            *)
(*                                                                         *)
(* Time is a countdown: a timestamp column holds the seconds that are left *)
(* until it elapses, 0 once it has, NoTime for SQL NULL.  The audit log,   *)
(* the version column and the error columns are left out.                  *)
(***************************************************************************)
EXTENDS Integers, Sequences

CONSTANTS
  Tasks,          \* the identities under which tasks are enqueued
  Workers,        \* worker processes
  Owners,         \* ULIDs that claim generates as ownership tokens
  Interrupts,     \* identities of questions to a human
  Values,         \* what the human may answer
  Null,           \* SQL NULL / Python None
  Types, TypeOf, Serves,  \* task types, each task's, those a worker claims
  Priority,       \* the priority column, lowest first
  MaxAttempts,    \* the max_attempts column of each task
  LeaseSeconds,   \* QueueService.lease_seconds
  RetryDelays     \* RetryPolicy.delays

NoTime == -1
Replies == [interrupt_id : Interrupts, value : Values]
Leases == [task_id : Tasks, worker_id : Owners, attempt : Nat]

ASSUME NullAssumption == Null \notin Owners \cup Replies \cup Leases
ASSUME TypeOfAssumption == TypeOf \in [Tasks -> Types]
ASSUME ServesAssumption == Serves \in [Workers -> SUBSET Types]
ASSUME PriorityAssumption == Priority \in [Tasks -> Int]
ASSUME MaxAttemptsAssumption == MaxAttempts \in [Tasks -> Nat \ {0}]
ASSUME LeaseAssumption == LeaseSeconds \in Nat \ {0}
ASSUME RetryAssumption == RetryDelays \in Seq(Nat \ {0}) /\ RetryDelays # <<>>

Terminal == {"SUCCEEDED", "ABORTED", "FAILED", "CANCELED"}
Statuses == {"ABSENT", "READY", "ACTIVE", "WAITING_HUMAN", "WAITING_RETRY"} \cup Terminal

\* task_memory: the marker that the next claim continues a paused attempt, the
\* questions that were asked, the accepted reply.  The rest is workflow data.
Memories == [continuation : BOOLEAN, interrupts : SUBSET Interrupts, resume : Replies \cup {Null}]
NoMemory == [continuation |-> FALSE, interrupts |-> {}, resume |-> Null]

Countdowns == Nat \cup {NoTime}
Rows == [status : Statuses, worker_id : Owners \cup {Null}, attempt_count : Nat,
         lease_expires_at : Countdowns, next_run_at : Countdowns, memory : Memories]

NoRow == [status |-> "ABSENT", worker_id |-> Null, attempt_count |-> 0,
          lease_expires_at |-> NoTime, next_run_at |-> NoTime, memory |-> NoMemory]

VARIABLES
  task,   \* the row and memory of each task
  held    \* the Lease a worker's current attempt was given, Null between attempts

queueVars == <<task, held>>

-----------------------------------------------------------------------------
(* Rows: what a transaction writes into the row it has selected.            *)

Elapsed(countdown) == countdown \in {NoTime, 0}

\* Mutants: recovery takes every ACTIVE row; it looks for rows without a lease.
ExpiredOrNot(row) == row.status = "ACTIVE"
ExpiredIfNull(row) == row.status = "ACTIVE" /\ row.lease_expires_at = NoTime
Expired(row) == row.status = "ACTIVE" /\ Elapsed(row.lease_expires_at)
\* Mutant: a retry is due only without a due time.
RetryDueIfNull(row) == row.status = "WAITING_RETRY" /\ row.next_run_at = NoTime
RetryDue(row) == row.status = "WAITING_RETRY" /\ row.next_run_at = 0

Created(status, interrupts) ==
  [NoRow EXCEPT !.status = status, !.memory = [NoMemory EXCEPT !.interrupts = interrupts]]

\* Mutant: the lease is left on a finished row.
FinishedWithLease(row, status) ==
  [row EXCEPT !.status = status, !.worker_id = Null,
              !.next_run_at = IF status \in Terminal THEN NoTime ELSE @]

Finished(row, status) ==
  [row EXCEPT !.status = status, !.worker_id = Null, !.lease_expires_at = NoTime,
              !.next_run_at = IF status \in Terminal THEN NoTime ELSE @]

Claimed(row, owner) ==
  [row EXCEPT !.status = "ACTIVE", !.worker_id = owner,
              !.attempt_count = IF row.memory.continuation THEN @ ELSE @ + 1,
              !.lease_expires_at = LeaseSeconds, !.next_run_at = NoTime,
              !.memory.continuation = FALSE]

\* Mutant: recovery allows one attempt more.
RecoveredOnceMore(row, t) ==
  Finished([row EXCEPT !.next_run_at = NoTime],
           IF row.attempt_count > MaxAttempts[t] THEN "FAILED" ELSE "READY")

Recovered(row, t) ==
  Finished([row EXCEPT !.next_run_at = NoTime],
           IF row.attempt_count >= MaxAttempts[t] THEN "FAILED" ELSE "READY")

Resumed(row, reply) ==
  Finished([row EXCEPT !.memory.resume = reply, !.memory.continuation = TRUE], "READY")

Older(row) ==
  [row EXCEPT !.lease_expires_at = IF @ > 0 THEN @ - 1 ELSE @,
              !.next_run_at = IF @ > 0 THEN @ - 1 ELSE @]

\* RetryPolicy.delay: the delay of the attempt (0 when the task was enqueued
\* waiting and every claim so far continued it), plus up to a fifth of it as
\* jitter (rounded up: a fraction of a second ends within the next second).
RetryDelay(attempt) ==
  LET nth == IF attempt > 1 THEN attempt ELSE 1
      d == RetryDelays[IF nth < Len(RetryDelays) THEN nth ELSE Len(RetryDelays)]
  IN  d .. (d + (d + 4) \div 5)

\* Mutant: the fence compares the attempt and not the token.
FencedByAttempt(lease) ==
  /\ lease # Null
  /\ LET row == task[lease.task_id]
     IN  /\ row.status = "ACTIVE"
         /\ row.attempt_count = lease.attempt
         /\ row.lease_expires_at > 0

\* fence(): the lease still owns the row and has not expired.
Fenced(lease) ==
  /\ lease # Null
  /\ LET row == task[lease.task_id]
     IN  /\ row.status = "ACTIVE"
         /\ row.worker_id = lease.worker_id
         /\ row.attempt_count = lease.attempt
         /\ row.lease_expires_at > 0

\* Mutant: the token of a worker that runs without its row is given out again.
FreshAmongRows(owner) == \A t \in Tasks : task[t].worker_id # owner

\* generate_ulid: no row and no worker has ever seen the token.
FreshOwner(owner) ==
  /\ \A t \in Tasks : task[t].worker_id # owner
  /\ \A w \in Workers : held[w] # Null => held[w].worker_id # owner

\* The rows that the SELECT of claim returns, before ORDER BY.
Claimable(w) ==
  {t \in Tasks : /\ task[t].status = "READY"
                 /\ TypeOf[t] \in Serves[w]
                 /\ Elapsed(task[t].next_run_at)
                 /\ Elapsed(task[t].lease_expires_at)}

-----------------------------------------------------------------------------
Init ==
  /\ task = [t \in Tasks |-> NoRow]
  /\ held = [w \in Workers |-> Null]

Enqueue(t) ==
  /\ task[t].status = "ABSENT"
  /\ task' = [task EXCEPT ![t] = Created("READY", {})]
  /\ UNCHANGED held

EnqueueWaiting(t, interrupts) ==
  /\ task[t].status = "ABSENT"
  /\ interrupts # {}
  /\ task' = [task EXCEPT ![t] = Created("WAITING_HUMAN", interrupts)]
  /\ UNCHANGED held

\* The first claimable row in priority order (created_at and task_id, which
\* order rows of one priority, are left open).  A row without attempts left is
\* failed and no lease is returned, unless the claim continues an attempt.
Claim(w) ==
  /\ held[w] = Null
  /\ \E t \in Claimable(w), owner \in Owners :
       /\ \A u \in Claimable(w) : Priority[t] <= Priority[u]
       /\ FreshOwner(owner)
       /\ LET row == task[t]
              exhausted == row.attempt_count >= MaxAttempts[t] /\ ~row.memory.continuation
              claimed == Claimed(row, owner)
          IN  /\ task' = [task EXCEPT ![t] = IF exhausted THEN Finished(row, "FAILED") ELSE claimed]
              /\ held' = IF exhausted THEN held
                         ELSE [held EXCEPT ![w] = [task_id |-> t, worker_id |-> owner,
                                                   attempt |-> claimed.attempt_count]]

Heartbeat(w) ==
  /\ Fenced(held[w])
  /\ task' = [task EXCEPT ![held[w].task_id].lease_expires_at = LeaseSeconds]
  /\ UNCHANGED held

SaveMemory(w, memory) ==
  /\ Fenced(held[w])
  /\ ~memory.continuation
  /\ task' = [task EXCEPT ![held[w].task_id].memory = memory]
  /\ UNCHANGED held

\* complete and complete_in_transaction: callers that wait leave a question.
Complete(w, memory, waiting) ==
  /\ Fenced(held[w])
  /\ ~memory.continuation
  /\ waiting => memory.interrupts # {}
  /\ task' = [task EXCEPT ![held[w].task_id] =
                Finished([@ EXCEPT !.memory = memory],
                         IF waiting THEN "WAITING_HUMAN" ELSE "SUCCEEDED")]
  /\ UNCHANGED held

\* A finished task hands over to the next one in the same transaction: it
\* enqueues it READY, or waiting for a human when there is something to ask.
CompleteSpawning(w, next, interrupts) ==
  /\ Fenced(held[w])
  /\ task[next].status = "ABSENT"
  /\ task' = [task EXCEPT ![held[w].task_id] = Finished([@ EXCEPT !.memory = NoMemory], "SUCCEEDED"),
                          ![next] = Created(IF interrupts = {} THEN "READY" ELSE "WAITING_HUMAN",
                                            interrupts)]
  /\ UNCHANGED held

Fail(w, retryable) ==
  /\ Fenced(held[w])
  /\ LET t == held[w].task_id
         row == task[t]
     IN  IF retryable /\ row.attempt_count < MaxAttempts[t]
         THEN \E delay \in RetryDelay(row.attempt_count) :
                task' = [task EXCEPT ![t] =
                           Finished([row EXCEPT !.next_run_at = delay], "WAITING_RETRY")]
         ELSE task' = [task EXCEPT ![t] = Finished(row, "FAILED")]
  /\ UNCHANGED held

\* Mutant: the memory document is written anew with the mark only.
ReleaseAfresh(w) ==
  /\ Fenced(held[w])
  /\ task' = [task EXCEPT ![held[w].task_id] =
                Finished([@ EXCEPT !.memory = [NoMemory EXCEPT !.continuation = TRUE]], "READY")]
  /\ UNCHANGED held

Release(w) ==
  /\ Fenced(held[w])
  /\ task' = [task EXCEPT ![held[w].task_id] =
                Finished([@ EXCEPT !.memory.continuation = TRUE], "READY")]
  /\ UNCHANGED held

Abort(w) ==
  /\ Fenced(held[w])
  /\ task' = [task EXCEPT ![held[w].task_id] = Finished(@, "ABORTED")]
  /\ UNCHANGED held

\* One transaction recovers every expired lease and every due retry.
Recover ==
  /\ \E t \in Tasks : Expired(task[t]) \/ RetryDue(task[t])
  /\ task' = [t \in Tasks |-> IF Expired(task[t]) \/ RetryDue(task[t])
                              THEN Recovered(task[t], t) ELSE task[t]]
  /\ UNCHANGED held

\* resume: a repeated reply returns without a write (a stuttering step); any
\* other reply needs a pending question.
Resume(t, reply) ==
  /\ task[t].memory.resume # reply
  /\ task[t].status = "WAITING_HUMAN"
  /\ reply.interrupt_id \in task[t].memory.interrupts
  /\ task' = [task EXCEPT ![t] = Resumed(@, reply)]
  /\ UNCHANGED held

\* Mutant: any task that has not ended can be canceled.
CancelUnfinished(t) ==
  /\ task[t].status \notin Terminal \cup {"ABSENT"}
  /\ task' = [task EXCEPT ![t] = Finished(@, "CANCELED")]
  /\ UNCHANGED held

Cancel(t) ==
  /\ task[t].status \in {"READY", "WAITING_HUMAN"}
  /\ task' = [task EXCEPT ![t] = Finished(@, "CANCELED")]
  /\ UNCHANGED held

\* The attempt is over (Worker._attempt returned) or the process died.
Forget(w) ==
  /\ held[w] # Null
  /\ held' = [held EXCEPT ![w] = Null]
  /\ UNCHANGED task

Tick ==
  /\ \E t \in Tasks : task[t].lease_expires_at > 0 \/ task[t].next_run_at > 0
  /\ task' = [t \in Tasks |-> Older(task[t])]
  /\ UNCHANGED held

Next ==
  \/ \E t \in Tasks :
       \/ Enqueue(t)
       \/ \E interrupts \in SUBSET Interrupts : EnqueueWaiting(t, interrupts)
       \/ \E reply \in Replies : Resume(t, reply)
       \/ Cancel(t)
  \/ \E w \in Workers :
       \/ Claim(w) \/ Heartbeat(w) \/ Release(w) \/ Abort(w) \/ Forget(w)
       \/ \E memory \in Memories :
            SaveMemory(w, memory) \/ \E waiting \in BOOLEAN : Complete(w, memory, waiting)
       \/ \E retryable \in BOOLEAN : Fail(w, retryable)
       \/ \E next \in Tasks, interrupts \in SUBSET Interrupts :
            CompleteSpawning(w, next, interrupts)
  \/ Recover
  \/ Tick

Spec == Init /\ [][Next]_queueVars

-----------------------------------------------------------------------------
(* Properties                                                               *)

TypeOK ==
  /\ task \in [Tasks -> Rows]
  /\ held \in [Workers -> Leases \cup {Null}]

\* Ownership tokens name one claim: no two rows and no two workers share one,
\* and a worker whose token is on a row was given it for that row and attempt.
TokensUnique ==
  /\ \A t, u \in Tasks : task[t].worker_id # Null /\ task[t].worker_id = task[u].worker_id => t = u
  /\ \A v, w \in Workers :
       held[v] # Null /\ held[w] # Null /\ held[v].worker_id = held[w].worker_id => v = w
  /\ \A w \in Workers, t \in Tasks :
       held[w] # Null /\ held[w].worker_id = task[t].worker_id
         => held[w].task_id = t /\ held[w].attempt = task[t].attempt_count

\* The fence admits at most one of the workers that believe they run a task
\* (orchestration.md, "Ownership and fencing").
FenceExclusive ==
  \A v, w \in Workers :
    Fenced(held[v]) /\ Fenced(held[w]) /\ held[v].task_id = held[w].task_id => v = w

\* A row has an owner and a lease exactly while it is ACTIVE; a row that waits
\* for a human has asked something; only a READY row (or one canceled there) is
\* marked as a continuation; only a retry has a due time.
RowsConsistent ==
  \A t \in Tasks : LET row == task[t] IN
    /\ row.status = "ACTIVE" <=> row.worker_id # Null
    /\ row.status = "ACTIVE" <=> row.lease_expires_at # NoTime
    /\ row.status = "WAITING_RETRY" <=> row.next_run_at # NoTime
    /\ row.status = "WAITING_HUMAN" => row.memory.interrupts # {}
    /\ row.memory.continuation => row.status \in {"READY", "CANCELED"}

\* The retry budget: attempts never pass max_attempts, and work that is made
\* READY or told to retry can still be claimed, so claim never takes its
\* attempts_exhausted branch and recover never fails a waiting retry.
RetryBudget ==
  \A t \in Tasks : LET row == task[t] IN
    /\ row.attempt_count <= MaxAttempts[t]
    /\ row.status = "WAITING_RETRY" => row.attempt_count < MaxAttempts[t]
    /\ row.status = "READY" /\ ~row.memory.continuation => row.attempt_count < MaxAttempts[t]

\* While a lease runs, its row belongs to its holder alone: if no process holds
\* the owner's token (the owner has died), nothing but time touches the row -
\* not recovery, a stale owner, another claim or a human reply.
LiveLeaseProtected ==
  \A t \in Tasks :
    /\ task[t].status = "ACTIVE"
    /\ task[t].lease_expires_at > 0
    /\ \A w \in Workers : held[w] # Null => held[w].worker_id # task[t].worker_id
    => task'[t] \in {task[t], Older(task[t])}

LiveLeasesProtected == [][LiveLeaseProtected]_queueVars

\* Only two writers replace the accepted reply of a task: resume, by the answer
\* to a question the waiting task has asked, and the worker that owns the row,
\* by the memory it saves or ends the task with.  Every other step that rewrites
\* the row or its memory document carries the reply along: release, recover,
\* fail, abort, claim, cancel, and whatever a stale owner calls.
ReplyKept(t) == task'[t].memory.resume = task[t].memory.resume
Answered(t) ==
  /\ task[t].status = "WAITING_HUMAN" /\ task'[t].status = "READY"
  /\ task'[t].memory.resume # Null
  /\ task'[t].memory.resume.interrupt_id \in task[t].memory.interrupts
Rewritten(t) ==
  /\ \E w \in Workers : Fenced(held[w]) /\ held[w].task_id = t
  /\ \/ task'[t].status = "ACTIVE" /\ task'[t].worker_id = task[t].worker_id
     \/ task'[t].status \in {"WAITING_HUMAN", "SUCCEEDED"}

AcceptedReplyKept ==
  [][\A t \in Tasks :
       task[t].status # "ABSENT" => ReplyKept(t) \/ Answered(t) \/ Rewritten(t)]_queueVars

-----------------------------------------------------------------------------
(* What the queue promises, and the queue as an implementation of it.       *)

Promise == INSTANCE TaskLifecycle WITH
  stage <- [t \in Tasks |-> task[t].status],
  owner <- [t \in Tasks |-> task[t].worker_id],
  spent <- [t \in Tasks |-> task[t].attempt_count]

Lifecycle == Promise!Spec
=============================================================================
