--------------------------- MODULE TaskQueueProofs ---------------------------
(***************************************************************************)
(* Proofs about TaskQueue for any tasks, workers, lease and retry policy.  *)
(*                                                                         *)
(* Almost every transaction rewrites rows and hands out no token, so the   *)
(* inductive step is proved once for "each row stays well formed and keeps *)
(* or drops its owner" (RowsRewritten) and each action shows that it is    *)
(* such a rewrite; Claim and Forget, which change a lease, stand apart.    *)
(***************************************************************************)
EXTENDS TaskQueue, TLAPS

\* A row that satisfies RowsConsistent and RetryBudget.
RowOK(t, row) ==
  /\ row.status = "ACTIVE" <=> row.worker_id # Null
  /\ row.status = "ACTIVE" <=> row.lease_expires_at # NoTime
  /\ row.status = "WAITING_RETRY" <=> row.next_run_at # NoTime
  /\ row.status = "WAITING_HUMAN" => row.memory.interrupts # {}
  /\ row.memory.continuation => row.status \in {"READY", "CANCELED"}
  /\ row.attempt_count <= MaxAttempts[t]
  /\ row.status = "WAITING_RETRY" => row.attempt_count < MaxAttempts[t]
  /\ row.status = "READY" /\ ~row.memory.continuation => row.attempt_count < MaxAttempts[t]

\* The inductive invariant.
IInv == TypeOK /\ TokensUnique /\ \A t \in Tasks : RowOK(t, task[t])

\* The new row keeps its owner and attempt, or is nobody's.
KeepsOrDropsOwner(row, new) ==
  \/ new.worker_id = Null
  \/ new.worker_id = row.worker_id /\ new.attempt_count = row.attempt_count

-----------------------------------------------------------------------------
(* The row operators *)

LEMMA FinishedFields ==
  ASSUME NEW row \in Rows, NEW status \in Statuses
  PROVE  /\ Finished(row, status) \in Rows
         /\ Finished(row, status).status = status
         /\ Finished(row, status).worker_id = Null
         /\ Finished(row, status).lease_expires_at = NoTime
         /\ Finished(row, status).next_run_at =
              IF status \in Terminal THEN NoTime ELSE row.next_run_at
         /\ Finished(row, status).attempt_count = row.attempt_count
         /\ Finished(row, status).memory = row.memory
BY NullAssumption DEF Finished, Rows, Countdowns, NoTime

LEMMA ClaimedFields ==
  ASSUME NEW row \in Rows, NEW owner \in Owners
  PROVE  /\ Claimed(row, owner) \in Rows
         /\ Claimed(row, owner).status = "ACTIVE"
         /\ Claimed(row, owner).worker_id = owner
         /\ Claimed(row, owner).lease_expires_at = LeaseSeconds
         /\ Claimed(row, owner).next_run_at = NoTime
         /\ Claimed(row, owner).attempt_count =
              IF row.memory.continuation THEN row.attempt_count ELSE row.attempt_count + 1
         /\ Claimed(row, owner).memory.continuation = FALSE
         /\ Claimed(row, owner).memory.resume = row.memory.resume
<1> DEFINE memory == [row.memory EXCEPT !.continuation = FALSE]
<1>1. memory \in Memories /\ memory.continuation = FALSE /\ memory.resume = row.memory.resume
  BY DEF Rows, Memories
<1> DEFINE attempt == IF row.memory.continuation THEN row.attempt_count ELSE row.attempt_count + 1
<1>2. attempt \in Nat
  BY DEF Rows
<1>3. Claimed(row, owner) =
        [row EXCEPT !.status = "ACTIVE", !.worker_id = owner, !.attempt_count = attempt,
                    !.lease_expires_at = LeaseSeconds, !.next_run_at = NoTime, !.memory = memory]
  BY DEF Claimed, Rows
<1> HIDE DEF memory, attempt
<1>4. /\ Claimed(row, owner) \in Rows
      /\ Claimed(row, owner).attempt_count = attempt
      /\ Claimed(row, owner).memory = memory
      /\ Claimed(row, owner).status = "ACTIVE"
      /\ Claimed(row, owner).worker_id = owner
      /\ Claimed(row, owner).lease_expires_at = LeaseSeconds
      /\ Claimed(row, owner).next_run_at = NoTime
  BY <1>1, <1>2, <1>3, LeaseAssumption DEF Rows, Countdowns, NoTime, Statuses
<1>5. QED
  BY <1>1, <1>4 DEF attempt

LEMMA OlderFields ==
  ASSUME NEW row \in Rows
  PROVE  /\ Older(row) \in Rows
         /\ Older(row).status = row.status
         /\ Older(row).worker_id = row.worker_id
         /\ Older(row).attempt_count = row.attempt_count
         /\ Older(row).memory = row.memory
         /\ Older(row).lease_expires_at = NoTime <=> row.lease_expires_at = NoTime
         /\ Older(row).next_run_at = NoTime <=> row.next_run_at = NoTime
<1> DEFINE lease == IF row.lease_expires_at > 0 THEN row.lease_expires_at - 1
                                                   ELSE row.lease_expires_at
           due == IF row.next_run_at > 0 THEN row.next_run_at - 1 ELSE row.next_run_at
<1>1. /\ lease \in Countdowns /\ (lease = NoTime <=> row.lease_expires_at = NoTime)
      /\ due \in Countdowns /\ (due = NoTime <=> row.next_run_at = NoTime)
  BY DEF Rows, Countdowns, NoTime
<1>2. Older(row) = [row EXCEPT !.lease_expires_at = lease, !.next_run_at = due]
  BY DEF Older, Rows
<1> HIDE DEF lease, due
<1>3. QED
  BY <1>1, <1>2 DEF Rows

\* RetryPolicy.delay is a positive number of seconds for every attempt.
LEMMA RetryDelayType ==
  ASSUME NEW attempt \in Nat, NEW delay \in RetryDelay(attempt)
  PROVE  delay \in Nat \ {0}
<1> DEFINE nth == IF attempt > 1 THEN attempt ELSE 1
           index == IF nth < Len(RetryDelays) THEN nth ELSE Len(RetryDelays)
           d == RetryDelays[index]
<1>1. Len(RetryDelays) \in Nat \ {0} /\ \A i \in 1 .. Len(RetryDelays) : RetryDelays[i] \in Nat \ {0}
  BY RetryAssumption
<1>2. index \in 1 .. Len(RetryDelays)
  BY <1>1
<1>3. d \in Nat \ {0}
  BY <1>1, <1>2
<1>4. delay \in d .. (d + (d + 4) \div 5)
  BY DEF RetryDelay
<1> HIDE DEF d
<1>5. (d + 4) \div 5 \in Int
  BY <1>3
<1>6. QED
  BY <1>3, <1>4, <1>5

-----------------------------------------------------------------------------
(* Preservation of the inductive invariant *)

LEMMA RowsRewritten ==
  ASSUME IInv, task' \in [Tasks -> Rows], held' = held,
         \A t \in Tasks : RowOK(t, task'[t]) /\ KeepsOrDropsOwner(task[t], task'[t])
  PROVE  IInv'
<1>1. TypeOK'
  BY DEF IInv, TypeOK
<1>2. TokensUnique'
  <2>1. \A t \in Tasks : task'[t].worker_id # Null =>
          task'[t].worker_id = task[t].worker_id /\ task'[t].attempt_count = task[t].attempt_count
    BY DEF KeepsOrDropsOwner
  <2>2. \A w \in Workers : held[w] # Null => held[w].worker_id # Null
    BY NullAssumption DEF IInv, TypeOK, Leases
  <2>3. QED
    BY <2>1, <2>2 DEF IInv, TokensUnique
<1>3. QED
  BY <1>1, <1>2 DEF IInv

LEMMA RowRewritten ==
  ASSUME IInv, NEW t \in Tasks, NEW new \in Rows, task' = [task EXCEPT ![t] = new], held' = held,
         RowOK(t, new), KeepsOrDropsOwner(task[t], new)
  PROVE  IInv'
<1>1. task' \in [Tasks -> Rows] /\ task'[t] = new /\ \A u \in Tasks \ {t} : task'[u] = task[u]
  BY DEF IInv, TypeOK
<1>2. \A u \in Tasks : RowOK(u, task'[u]) /\ KeepsOrDropsOwner(task[u], task'[u])
  <2> SUFFICES ASSUME NEW u \in Tasks
               PROVE  RowOK(u, task'[u]) /\ KeepsOrDropsOwner(task[u], task'[u])
    OBVIOUS
  <2>1. CASE u = t
    BY <1>1, <2>1
  <2>2. CASE u # t
    BY <1>1, <2>2 DEF IInv, KeepsOrDropsOwner
  <2>3. QED
    BY <2>1, <2>2
<1>3. QED
  BY <1>1, <1>2, RowsRewritten

\* A fenced lease names the row of an ACTIVE task.
LEMMA FencedRow ==
  ASSUME IInv, NEW w \in Workers, Fenced(held[w])
  PROVE  /\ held[w] \in Leases
         /\ held[w].task_id \in Tasks
         /\ task[held[w].task_id] \in Rows
         /\ task[held[w].task_id].status = "ACTIVE"
         /\ RowOK(held[w].task_id, task[held[w].task_id])
BY DEF IInv, TypeOK, Fenced, Leases

\* The rows that end an attempt are well formed: one fact for complete, fail,
\* release, abort, resume, cancel and recover.
LEMMA FinishedOK ==
  ASSUME NEW t \in Tasks, NEW row \in Rows, NEW status \in Statuses \ {"ACTIVE"},
         row.attempt_count <= MaxAttempts[t],
         row.memory.continuation => status \in {"READY", "CANCELED"},
         status = "WAITING_HUMAN" => row.memory.interrupts # {},
         status \notin Terminal => (status = "WAITING_RETRY" <=> row.next_run_at # NoTime),
         status = "WAITING_RETRY" => row.attempt_count < MaxAttempts[t],
         status = "READY" /\ ~row.memory.continuation => row.attempt_count < MaxAttempts[t]
  PROVE  /\ Finished(row, status) \in Rows
         /\ RowOK(t, Finished(row, status))
         /\ KeepsOrDropsOwner(task[t], Finished(row, status))
<1> DEFINE new == Finished(row, status)
<1>1. /\ new \in Rows /\ new.status = status /\ new.worker_id = Null
      /\ new.lease_expires_at = NoTime
      /\ new.next_run_at = IF status \in Terminal THEN NoTime ELSE row.next_run_at
      /\ new.attempt_count = row.attempt_count /\ new.memory = row.memory
  BY FinishedFields
<1> HIDE DEF new
<1>2. status = "WAITING_RETRY" <=> new.next_run_at # NoTime
  BY <1>1 DEF Terminal
<1>3. RowOK(t, new)
  BY <1>1, <1>2 DEF RowOK
<1>4. QED
  BY <1>1, <1>3 DEF new, KeepsOrDropsOwner

LEMMA InitIInv == Init => IInv
<1> SUFFICES ASSUME Init PROVE IInv
  OBVIOUS
<1>1. NoRow \in Rows
  BY DEF NoRow, Rows, Statuses, Countdowns, NoTime, Memories, NoMemory
<1>2. TypeOK
  BY <1>1 DEF Init, TypeOK
<1>3. \A t \in Tasks : task[t].worker_id = Null
  BY DEF Init, NoRow
<1>4. TokensUnique
  BY <1>3 DEF Init, TokensUnique
<1>5. \A t \in Tasks : RowOK(t, NoRow)
  BY MaxAttemptsAssumption DEF RowOK, NoRow, NoMemory, NoTime
<1>6. QED
  BY <1>2, <1>4, <1>5 DEF IInv, Init
LEMMA CreatedOK ==
  ASSUME NEW t \in Tasks, NEW status \in {"READY", "WAITING_HUMAN"},
         NEW interrupts \in SUBSET Interrupts, status = "WAITING_HUMAN" => interrupts # {}
  PROVE  /\ Created(status, interrupts) \in Rows
         /\ RowOK(t, Created(status, interrupts))
         /\ KeepsOrDropsOwner(task[t], Created(status, interrupts))
<1> DEFINE memory == [NoMemory EXCEPT !.interrupts = interrupts]
           new == Created(status, interrupts)
<1>1. memory \in Memories /\ ~memory.continuation /\ memory.interrupts = interrupts
  BY DEF NoMemory, Memories
<1>2. new = [NoRow EXCEPT !.status = status, !.memory = memory]
  BY DEF Created
<1> HIDE DEF memory, new
<1>3. /\ new \in Rows /\ new.status = status /\ new.worker_id = Null /\ new.attempt_count = 0
      /\ new.lease_expires_at = NoTime /\ new.next_run_at = NoTime /\ new.memory = memory
  BY <1>1, <1>2 DEF NoRow, Rows, Statuses, Countdowns, NoTime
<1>4. RowOK(t, new)
  BY <1>1, <1>3, MaxAttemptsAssumption DEF RowOK
<1>5. QED
  BY <1>3, <1>4 DEF new, KeepsOrDropsOwner

LEMMA EnqueueIInv ==
  ASSUME IInv, NEW t \in Tasks,
         Enqueue(t) \/ \E interrupts \in SUBSET Interrupts : EnqueueWaiting(t, interrupts)
  PROVE  IInv'
<1>1. CASE Enqueue(t)
  BY <1>1, CreatedOK, RowRewritten DEF Enqueue
<1>2. CASE \E interrupts \in SUBSET Interrupts : EnqueueWaiting(t, interrupts)
  BY <1>2, CreatedOK, RowRewritten DEF EnqueueWaiting
<1>3. QED
  BY <1>1, <1>2

LEMMA ResumeIInv ==
  ASSUME IInv, NEW t \in Tasks, NEW reply \in Replies, Resume(t, reply)
  PROVE  IInv'
<1> DEFINE row == [task[t] EXCEPT !.memory.resume = reply, !.memory.continuation = TRUE]
<1>1. task[t] \in Rows /\ RowOK(t, task[t]) /\ task[t].status = "WAITING_HUMAN"
  BY DEF IInv, TypeOK, Resume
<1>2. row \in Rows /\ row.memory.continuation /\ row.attempt_count = task[t].attempt_count
      /\ row.next_run_at = task[t].next_run_at
  BY <1>1 DEF Rows, Memories
<1> HIDE DEF row
<1>3. Finished(row, "READY") \in Rows /\ RowOK(t, Finished(row, "READY"))
      /\ KeepsOrDropsOwner(task[t], Finished(row, "READY"))
  BY <1>1, <1>2, FinishedOK DEF RowOK, Statuses
<1>4. QED
  BY <1>3, RowRewritten DEF Resume, Resumed, row

LEMMA CancelIInv ==
  ASSUME IInv, NEW t \in Tasks, Cancel(t)
  PROVE  IInv'
<1>1. task[t] \in Rows /\ RowOK(t, task[t])
  BY DEF IInv, TypeOK
<1>2. Finished(task[t], "CANCELED") \in Rows /\ RowOK(t, Finished(task[t], "CANCELED"))
      /\ KeepsOrDropsOwner(task[t], Finished(task[t], "CANCELED"))
  BY <1>1, FinishedOK DEF RowOK, Statuses, Terminal
<1>3. QED
  BY <1>2, RowRewritten DEF Cancel

LEMMA OwnedCallIInv ==
  ASSUME IInv, NEW w \in Workers, Heartbeat(w) \/ Release(w) \/ Abort(w)
  PROVE  IInv'
<1> DEFINE t == held[w].task_id
           row == task[t]
<1>1. Fenced(held[w])
  BY DEF Heartbeat, Release, Abort
<1>2. t \in Tasks /\ row \in Rows /\ row.status = "ACTIVE" /\ RowOK(t, row)
  BY <1>1, FencedRow
<1> HIDE DEF t
<1>3. CASE Heartbeat(w)
  <2> DEFINE new == [row EXCEPT !.lease_expires_at = LeaseSeconds]
  <2>1. new \in Rows /\ RowOK(t, new) /\ KeepsOrDropsOwner(row, new)
    BY <1>2, LeaseAssumption DEF Rows, RowOK, KeepsOrDropsOwner, Countdowns, NoTime
  <2>2. task' = [task EXCEPT ![t] = new] /\ held' = held
    BY <1>3 DEF Heartbeat, t
  <2>3. QED
    BY <1>2, <2>1, <2>2, RowRewritten
<1>4. CASE Release(w)
  <2> DEFINE paused == [row EXCEPT !.memory.continuation = TRUE]
             new == Finished(paused, "READY")
  <2>1. paused \in Rows /\ paused.memory.continuation
        /\ paused.attempt_count = row.attempt_count /\ paused.next_run_at = row.next_run_at
    BY <1>2 DEF Rows, Memories
  <2> HIDE DEF paused
  <2>2. new \in Rows /\ RowOK(t, new) /\ KeepsOrDropsOwner(row, new)
    BY <1>2, <2>1, FinishedOK DEF RowOK, Statuses
  <2>3. task' = [task EXCEPT ![t] = new] /\ held' = held
    BY <1>4 DEF Release, t, paused
  <2>4. QED
    BY <1>2, <2>2, <2>3, RowRewritten
<1>5. CASE Abort(w)
  <2> DEFINE new == Finished(row, "ABORTED")
  <2>1. new \in Rows /\ RowOK(t, new) /\ KeepsOrDropsOwner(row, new)
    BY <1>2, FinishedOK DEF RowOK, Statuses, Terminal
  <2>2. task' = [task EXCEPT ![t] = new] /\ held' = held
    BY <1>5 DEF Abort, t
  <2>3. QED
    BY <1>2, <2>1, <2>2, RowRewritten
<1>6. QED
  BY <1>3, <1>4, <1>5

LEMMA MemoryIInv ==
  ASSUME IInv, NEW w \in Workers, NEW memory \in Memories,
         SaveMemory(w, memory) \/ \E waiting \in BOOLEAN : Complete(w, memory, waiting)
  PROVE  IInv'
<1> DEFINE t == held[w].task_id
           row == task[t]
           saved == [row EXCEPT !.memory = memory]
<1>1. Fenced(held[w]) /\ ~memory.continuation
  BY DEF SaveMemory, Complete
<1>2. t \in Tasks /\ row \in Rows /\ row.status = "ACTIVE" /\ RowOK(t, row)
  BY <1>1, FencedRow
<1> HIDE DEF t
<1>3. saved \in Rows /\ RowOK(t, saved) /\ KeepsOrDropsOwner(row, saved)
      /\ saved.memory = memory /\ saved.attempt_count = row.attempt_count
      /\ saved.next_run_at = row.next_run_at /\ saved.status = "ACTIVE"
  BY <1>1, <1>2 DEF Rows, RowOK, KeepsOrDropsOwner
<1>4. CASE SaveMemory(w, memory)
  <2>1. task' = [task EXCEPT ![t] = saved] /\ held' = held
    BY <1>4 DEF SaveMemory, t
  <2>2. QED
    BY <1>2, <1>3, <2>1, RowRewritten
<1>5. ASSUME NEW waiting \in BOOLEAN, Complete(w, memory, waiting)
      PROVE  IInv'
  <2> DEFINE status == IF waiting THEN "WAITING_HUMAN" ELSE "SUCCEEDED"
             new == Finished(saved, status)
  <2>1. status \in {"WAITING_HUMAN", "SUCCEEDED"}
        /\ (status = "WAITING_HUMAN" => memory.interrupts # {})
    BY <1>5 DEF Complete
  <2>2. task' = [task EXCEPT ![t] = new] /\ held' = held
    BY <1>5 DEF Complete, t
  <2> HIDE DEF status, saved
  <2>3. /\ status \in Statuses \ {"ACTIVE"} /\ status \notin {"READY", "WAITING_RETRY"}
        /\ status \notin Terminal => status = "WAITING_HUMAN"
    BY <2>1 DEF Statuses, Terminal
  <2>4. /\ saved.attempt_count <= MaxAttempts[t] /\ saved.next_run_at = NoTime
        /\ ~saved.memory.continuation
        /\ status = "WAITING_HUMAN" => saved.memory.interrupts # {}
    BY <1>1, <1>3, <2>1 DEF RowOK
  <2>5. new \in Rows /\ RowOK(t, new) /\ KeepsOrDropsOwner(row, new)
    BY <1>2, <1>3, <2>3, <2>4, FinishedOK
  <2>6. QED
    BY <1>2, <2>2, <2>5, RowRewritten
<1>6. QED
  BY <1>4, <1>5

LEMMA SpawnIInv ==
  ASSUME IInv, NEW w \in Workers, NEW next \in Tasks, NEW interrupts \in SUBSET Interrupts,
         CompleteSpawning(w, next, interrupts)
  PROVE  IInv'
<1> DEFINE t == held[w].task_id
           row == task[t]
           saved == [row EXCEPT !.memory = NoMemory]
           done == Finished(saved, "SUCCEEDED")
           status == IF interrupts = {} THEN "READY" ELSE "WAITING_HUMAN"
           new == Created(status, interrupts)
<1>1. Fenced(held[w]) /\ task[next].status = "ABSENT" /\ held' = held
      /\ task' = [task EXCEPT ![t] = done, ![next] = new]
  BY DEF CompleteSpawning
<1>2. t \in Tasks /\ row \in Rows /\ row.status = "ACTIVE" /\ RowOK(t, row)
  BY <1>1, FencedRow
<1>3. t # next
  BY <1>1, <1>2
<1> HIDE DEF t
<1>4. saved \in Rows /\ saved.memory = NoMemory /\ saved.attempt_count = row.attempt_count
  BY <1>2 DEF Rows, NoMemory, Memories
<1> HIDE DEF saved
<1>5. done \in Rows /\ RowOK(t, done) /\ KeepsOrDropsOwner(row, done)
  BY <1>2, <1>4, FinishedOK DEF RowOK, Statuses, Terminal, NoMemory
<1>6. new \in Rows /\ RowOK(next, new) /\ KeepsOrDropsOwner(task[next], new)
  BY CreatedOK
<1> HIDE DEF done, new
<1>7. /\ task' \in [Tasks -> Rows] /\ task'[t] = done /\ task'[next] = new
      /\ \A u \in Tasks \ {t, next} : task'[u] = task[u]
  BY <1>1, <1>2, <1>3, <1>5, <1>6 DEF IInv, TypeOK
<1>8. ASSUME NEW u \in Tasks
      PROVE  RowOK(u, task'[u]) /\ KeepsOrDropsOwner(task[u], task'[u])
  <2>1. CASE u \in {t, next}
    BY <1>5, <1>6, <1>7, <2>1
  <2>2. CASE u \notin {t, next}
    BY <1>7, <2>2 DEF IInv, KeepsOrDropsOwner
  <2>3. QED
    BY <2>1, <2>2
<1>9. QED
  BY <1>1, <1>7, <1>8, RowsRewritten

LEMMA FailIInv ==
  ASSUME IInv, NEW w \in Workers, NEW retryable \in BOOLEAN, Fail(w, retryable)
  PROVE  IInv'
<1> DEFINE t == held[w].task_id
           row == task[t]
<1>1. Fenced(held[w]) /\ held' = held
  BY DEF Fail
<1>2. t \in Tasks /\ row \in Rows /\ row.status = "ACTIVE" /\ RowOK(t, row)
  BY <1>1, FencedRow
<1>3. CASE retryable /\ row.attempt_count < MaxAttempts[t]
  <2>1. PICK delay \in RetryDelay(row.attempt_count) :
          task' = [task EXCEPT ![t] = Finished([row EXCEPT !.next_run_at = delay], "WAITING_RETRY")]
    BY <1>3 DEF Fail
  <2> DEFINE delayed == [row EXCEPT !.next_run_at = delay]
  <2>2. delay \in Nat \ {0}
    BY <1>2, RetryDelayType DEF Rows
  <2>3. /\ delayed \in Rows /\ delayed.next_run_at # NoTime /\ delayed.memory = row.memory
        /\ delayed.attempt_count = row.attempt_count
    BY <1>2, <2>2 DEF Rows, Countdowns, NoTime
  <2> HIDE DEF t, delayed
  <2>4. /\ Finished(delayed, "WAITING_RETRY") \in Rows
        /\ RowOK(t, Finished(delayed, "WAITING_RETRY"))
        /\ KeepsOrDropsOwner(row, Finished(delayed, "WAITING_RETRY"))
    BY <1>2, <1>3, <2>3, FinishedOK DEF RowOK, Statuses
  <2>5. QED
    BY <1>1, <1>2, <2>1, <2>4, RowRewritten DEF delayed
<1>4. CASE ~(retryable /\ row.attempt_count < MaxAttempts[t])
  <2>1. task' = [task EXCEPT ![t] = Finished(row, "FAILED")]
    BY <1>4 DEF Fail
  <2> HIDE DEF t
  <2>2. /\ Finished(row, "FAILED") \in Rows /\ RowOK(t, Finished(row, "FAILED"))
        /\ KeepsOrDropsOwner(row, Finished(row, "FAILED"))
    BY <1>2, FinishedOK DEF RowOK, Statuses, Terminal
  <2>3. QED
    BY <1>1, <1>2, <2>1, <2>2, RowRewritten
<1>5. QED
  BY <1>3, <1>4

LEMMA RecoverIInv ==
  ASSUME IInv, Recover
  PROVE  IInv'
<1>1. ASSUME NEW t \in Tasks
      PROVE  task'[t] \in Rows /\ RowOK(t, task'[t]) /\ KeepsOrDropsOwner(task[t], task'[t])
  <2>1. task[t] \in Rows /\ RowOK(t, task[t])
    BY DEF IInv, TypeOK
  <2>2. CASE Expired(task[t]) \/ RetryDue(task[t])
    <3> DEFINE cleared == [task[t] EXCEPT !.next_run_at = NoTime]
               status == IF task[t].attempt_count >= MaxAttempts[t] THEN "FAILED" ELSE "READY"
    <3>1. task'[t] = Finished(cleared, status)
      BY <2>2 DEF Recover, Recovered
    <3>2. /\ cleared \in Rows /\ cleared.next_run_at = NoTime /\ cleared.memory = task[t].memory
          /\ cleared.attempt_count = task[t].attempt_count
      BY <2>1 DEF Rows, Countdowns
    <3>3. ~task[t].memory.continuation
      BY <2>1, <2>2 DEF RowOK, Expired, RetryDue
    <3>4. /\ status = "FAILED" \/ (status = "READY" /\ task[t].attempt_count < MaxAttempts[t])
          /\ task[t].attempt_count <= MaxAttempts[t]
      BY <2>1, MaxAttemptsAssumption DEF RowOK, Rows
    <3> HIDE DEF cleared, status
    <3>5. Finished(cleared, status) \in Rows /\ RowOK(t, Finished(cleared, status))
          /\ KeepsOrDropsOwner(task[t], Finished(cleared, status))
      BY <3>2, <3>3, <3>4, FinishedOK DEF Statuses, Terminal
    <3>6. QED
      BY <3>1, <3>5
  <2>3. CASE ~(Expired(task[t]) \/ RetryDue(task[t]))
    BY <2>1, <2>3 DEF Recover, KeepsOrDropsOwner
  <2>4. QED
    BY <2>2, <2>3
<1>2. task' \in [Tasks -> Rows] /\ held' = held
  BY <1>1 DEF Recover
<1>3. QED
  BY <1>1, <1>2, RowsRewritten

LEMMA TickIInv ==
  ASSUME IInv, Tick
  PROVE  IInv'
<1>1. ASSUME NEW t \in Tasks
      PROVE  task'[t] \in Rows /\ RowOK(t, task'[t]) /\ KeepsOrDropsOwner(task[t], task'[t])
  <2>1. task[t] \in Rows /\ RowOK(t, task[t]) /\ task'[t] = Older(task[t])
    BY DEF IInv, TypeOK, Tick
  <2>2. QED
    BY <2>1, OlderFields DEF RowOK, KeepsOrDropsOwner
<1>2. task' \in [Tasks -> Rows] /\ held' = held
  BY <1>1 DEF Tick
<1>3. QED
  BY <1>1, <1>2, RowsRewritten

\* claim hands out a token that nobody has; it never finds a row exhausted.
LEMMA ClaimIInv ==
  ASSUME IInv, NEW w \in Workers, Claim(w)
  PROVE  /\ IInv'
         /\ \E t \in Tasks, owner \in Owners :
              /\ task[t].status = "READY" /\ FreshOwner(owner)
              /\ task' = [task EXCEPT ![t] = Claimed(task[t], owner)]
<1>1. PICK t \in Claimable(w), owner \in Owners :
        /\ FreshOwner(owner)
        /\ LET row == task[t]
               exhausted == row.attempt_count >= MaxAttempts[t] /\ ~row.memory.continuation
               claimed == Claimed(row, owner)
           IN  /\ task' = [task EXCEPT ![t] = IF exhausted THEN Finished(row, "FAILED") ELSE claimed]
               /\ held' = IF exhausted THEN held
                          ELSE [held EXCEPT ![w] = [task_id |-> t, worker_id |-> owner,
                                                    attempt |-> claimed.attempt_count]]
  BY DEF Claim
<1> DEFINE row == task[t]
           new == Claimed(row, owner)
           lease == [task_id |-> t, worker_id |-> owner, attempt |-> new.attempt_count]
<1>2. t \in Tasks /\ row.status = "READY" /\ row \in Rows /\ RowOK(t, row)
  BY DEF Claimable, IInv, TypeOK
<1>3. ~(row.attempt_count >= MaxAttempts[t] /\ ~row.memory.continuation)
  BY <1>2, MaxAttemptsAssumption DEF RowOK, Rows
<1>4. task' = [task EXCEPT ![t] = new] /\ held' = [held EXCEPT ![w] = lease]
  BY <1>1, <1>3
<1>5. /\ new \in Rows /\ new.status = "ACTIVE" /\ new.worker_id = owner
      /\ new.lease_expires_at # NoTime /\ new.next_run_at = NoTime /\ ~new.memory.continuation
      /\ new.attempt_count <= MaxAttempts[t] /\ new.attempt_count \in Nat
  <2>1. /\ row.memory.continuation \in BOOLEAN /\ row.attempt_count \in Nat
        /\ MaxAttempts[t] \in Nat /\ row.attempt_count <= MaxAttempts[t]
    BY <1>2, MaxAttemptsAssumption DEF RowOK, Rows, Memories
  <2>2. /\ new \in Rows /\ new.status = "ACTIVE" /\ new.worker_id = owner
        /\ new.lease_expires_at = LeaseSeconds /\ new.next_run_at = NoTime
        /\ ~new.memory.continuation
        /\ new.attempt_count = IF row.memory.continuation THEN row.attempt_count
                                ELSE row.attempt_count + 1
    BY <1>2, ClaimedFields
  <2> HIDE DEF row, new
  <2>3. QED
    BY <1>3, <2>1, <2>2, LeaseAssumption DEF NoTime
<1>6. RowOK(t, new)
  BY <1>5, NullAssumption DEF RowOK
<1>7. lease \in Leases /\ lease.task_id = t /\ lease.worker_id = owner
      /\ lease.attempt = new.attempt_count /\ lease # Null
  BY <1>2, <1>5, NullAssumption DEF Leases
<1> HIDE DEF new, lease
<1>8. /\ task' \in [Tasks -> Rows] /\ held' \in [Workers -> Leases \cup {Null}]
      /\ task'[t] = new /\ \A u \in Tasks \ {t} : task'[u] = task[u]
      /\ held'[w] = lease /\ \A v \in Workers \ {w} : held'[v] = held[v]
  BY <1>2, <1>4, <1>5, <1>7 DEF IInv, TypeOK
<1>9. /\ \A u \in Tasks : task[u].worker_id # owner
      /\ \A v \in Workers : held[v] # Null => held[v].worker_id # owner
  BY <1>1 DEF FreshOwner
<1>10. TokensUnique'
  <2>1. \A u, v \in Tasks :
          task'[u].worker_id # Null /\ task'[u].worker_id = task'[v].worker_id => u = v
    BY <1>2, <1>5, <1>8, <1>9 DEF IInv, TokensUnique
  <2>2. \A u, v \in Workers :
          held'[u] # Null /\ held'[v] # Null /\ held'[u].worker_id = held'[v].worker_id => u = v
    BY <1>7, <1>8, <1>9 DEF IInv, TokensUnique
  <2>3. ASSUME NEW v \in Workers, NEW u \in Tasks, held'[v] # Null,
               held'[v].worker_id = task'[u].worker_id
        PROVE  held'[v].task_id = u /\ held'[v].attempt = task'[u].attempt_count
    <3>1. CASE v = w
      BY <1>2, <1>5, <1>7, <1>8, <1>9, <2>3, <3>1
    <3>2. CASE v # w
      BY <1>2, <1>5, <1>8, <1>9, <2>3, <3>2 DEF IInv, TokensUnique
    <3>3. QED
      BY <3>1, <3>2
  <2>4. QED
    BY <2>1, <2>2, <2>3 DEF TokensUnique
<1>11. IInv'
  BY <1>6, <1>8, <1>10 DEF IInv, TypeOK
<1>12. QED
  BY <1>1, <1>2, <1>4, <1>11 DEF new

LEMMA ForgetIInv ==
  ASSUME IInv, NEW w \in Workers, Forget(w)
  PROVE  IInv'
<1>1. /\ task' = task /\ held' \in [Workers -> Leases \cup {Null}]
      /\ \A v \in Workers : held'[v] # Null => held'[v] = held[v]
  BY DEF Forget, IInv, TypeOK
<1>2. TypeOK' /\ TokensUnique'
  BY <1>1 DEF IInv, TypeOK, TokensUnique
<1>3. QED
  BY <1>1, <1>2 DEF IInv

LEMMA NextIInv == IInv /\ [Next]_queueVars => IInv'
<1> SUFFICES ASSUME IInv, [Next]_queueVars PROVE IInv'
  OBVIOUS
<1>1. CASE UNCHANGED queueVars
  BY <1>1 DEF queueVars, IInv, TypeOK, TokensUnique
<1>2. CASE Next
  BY <1>2, EnqueueIInv, ResumeIInv, CancelIInv, ClaimIInv, OwnedCallIInv, ForgetIInv,
     MemoryIInv, SpawnIInv, FailIInv, RecoverIInv, TickIInv DEF Next
<1>3. QED
  BY <1>1, <1>2

-----------------------------------------------------------------------------
(* Theorems *)

\* IInv is an invariant of the queue.
THEOREM Invariance == Spec => []IInv
BY InitIInv, NextIInv, PTL DEF Spec

\* Every reachable row and lease has its type.
THEOREM TypeCorrect == Spec => []TypeOK
<1>1. IInv => TypeOK
  BY DEF IInv
<1>2. QED
  BY <1>1, Invariance, PTL

\* A token names one claim for ever: no two rows or workers share one.
THEOREM UniqueTokens == Spec => []TokensUnique
<1>1. IInv => TokensUnique
  BY DEF IInv
<1>2. QED
  BY <1>1, Invariance, PTL

\* Two workers that both pass the fence of a task are the same worker: after
\* recovery and a new claim the old owner is shut out, at any number of
\* workers, tasks and attempts.
THEOREM Fencing == Spec => []FenceExclusive
<1>1. IInv => FenceExclusive
  BY DEF IInv, TokensUnique, FenceExclusive, Fenced
<1>2. QED
  BY <1>1, Invariance, PTL

\* Ownership, leases, due times and questions go with the status of a row.
THEOREM Consistency == Spec => []RowsConsistent
<1>1. IInv => RowsConsistent
  BY DEF IInv, RowOK, RowsConsistent
<1>2. QED
  BY <1>1, Invariance, PTL

\* No task starts more than max_attempts attempts, and none that is READY or
\* waits for a retry has used them up.
THEOREM Budget == Spec => []RetryBudget
<1>1. IInv => RetryBudget
  BY DEF IInv, RowOK, RetryBudget
<1>2. QED
  BY <1>1, Invariance, PTL

-----------------------------------------------------------------------------
(* What one transaction does to one task.  The action properties and the    *)
(* refinement look at a single task at a time: these are the only changes.  *)

Rests(t) == task'[t] = task[t] \/ task'[t] = Older(task[t])

IsCreated(t) ==
  /\ task[t].status = "ABSENT"
  /\ \E status \in {"READY", "WAITING_HUMAN"}, interrupts \in SUBSET Interrupts :
       task'[t] = Created(status, interrupts)

IsClaimed(t) ==
  /\ task[t].status = "READY"
  /\ \E owner \in Owners : FreshOwner(owner) /\ task'[t] = Claimed(task[t], owner)

\* The holder of the row keeps it, or ends its attempt.
IsWritten(t) ==
  /\ \E w \in Workers : Fenced(held[w]) /\ held[w].task_id = t
  /\ task'[t].attempt_count = task[t].attempt_count
  /\ \/ task'[t].status = "ACTIVE" /\ task'[t].worker_id = task[t].worker_id
     \/ /\ task'[t].worker_id = Null
        /\ \/ task'[t].status \in {"READY", "WAITING_HUMAN", "SUCCEEDED", "FAILED", "ABORTED"}
           \/ /\ task'[t].status = "WAITING_RETRY"
              /\ task[t].attempt_count < MaxAttempts[t]
  /\ ReplyKept(t) \/ task'[t].status \in {"ACTIVE", "WAITING_HUMAN", "SUCCEEDED"}

IsRecovered(t) ==
  /\ Expired(task[t]) \/ RetryDue(task[t])
  /\ task'[t] = Recovered(task[t], t)

IsResumed(t) ==
  /\ task[t].status = "WAITING_HUMAN"
  /\ \E reply \in Replies :
       reply.interrupt_id \in task[t].memory.interrupts /\ task'[t] = Resumed(task[t], reply)

IsCanceled(t) ==
  /\ task[t].status \in {"READY", "WAITING_HUMAN"}
  /\ task'[t] = Finished(task[t], "CANCELED")

TaskStep(t) ==
  Rests(t) \/ IsCreated(t) \/ IsClaimed(t) \/ IsWritten(t) \/ IsRecovered(t) \/ IsResumed(t)
  \/ IsCanceled(t)

LEMMA OneRow ==
  ASSUME IInv, NEW t \in Tasks, NEW new, task' = [task EXCEPT ![t] = new]
  PROVE  task'[t] = new /\ \A u \in Tasks \ {t} : Rests(u)
BY DEF IInv, TypeOK, Rests

LEMMA OwnerWrites ==
  ASSUME IInv, NEW w \in Workers,
         \/ Heartbeat(w) \/ Release(w) \/ Abort(w)
         \/ \E memory \in Memories :
              SaveMemory(w, memory) \/ \E waiting \in BOOLEAN : Complete(w, memory, waiting)
         \/ \E retryable \in BOOLEAN : Fail(w, retryable)
  PROVE  \A u \in Tasks : TaskStep(u)
<1> DEFINE t == held[w].task_id
           row == task[t]
<1>1. Fenced(held[w])
  BY DEF Heartbeat, Release, Abort, SaveMemory, Complete, Fail
<1>2. t \in Tasks /\ row \in Rows /\ row.status = "ACTIVE"
  BY <1>1, FencedRow
<1>3. CASE Heartbeat(w) \/ \E memory \in Memories : SaveMemory(w, memory)
  <2> DEFINE Kept(new) == /\ task' = [task EXCEPT ![t] = new]
                          /\ new.status = "ACTIVE" /\ new.worker_id = row.worker_id
                          /\ new.attempt_count = row.attempt_count
  <2>1. \E new : Kept(new)
    <3>1. CASE Heartbeat(w)
      <4> DEFINE new == [row EXCEPT !.lease_expires_at = LeaseSeconds]
      <4>1. task' = [task EXCEPT ![t] = new]
        BY <3>1 DEF Heartbeat
      <4>2. new.status = "ACTIVE" /\ new.worker_id = row.worker_id
            /\ new.attempt_count = row.attempt_count
        BY <1>2 DEF Rows
      <4>3. QED
        BY <4>1, <4>2
    <3>2. ASSUME NEW memory \in Memories, SaveMemory(w, memory)
          PROVE  \E new : Kept(new)
      <4> DEFINE new == [row EXCEPT !.memory = memory]
      <4>1. task' = [task EXCEPT ![t] = new]
        BY <3>2 DEF SaveMemory
      <4>2. new.status = "ACTIVE" /\ new.worker_id = row.worker_id
            /\ new.attempt_count = row.attempt_count
        BY <1>2 DEF Rows
      <4>3. QED
        BY <4>1, <4>2
    <3>3. QED
      BY <1>3, <3>1, <3>2
  <2>2. QED
    <3>1. PICK new : Kept(new)
      BY <2>1
    <3>2. task'[t] = new /\ \A u \in Tasks \ {t} : Rests(u)
      BY <1>2, <3>1, OneRow
    <3>3. IsWritten(t)
      BY <1>1, <3>1, <3>2 DEF IsWritten
    <3>4. QED
      BY <3>2, <3>3 DEF TaskStep
<1>4. CASE \/ Release(w) \/ Abort(w)
           \/ \E memory \in Memories, waiting \in BOOLEAN : Complete(w, memory, waiting)
           \/ \E retryable \in BOOLEAN : Fail(w, retryable)
  <2> DEFINE Ended(old, status) ==
               /\ task' = [task EXCEPT ![t] = Finished(old, status)]
               /\ old.attempt_count = row.attempt_count
               /\ \/ old.memory.resume = row.memory.resume
                  \/ status \in {"WAITING_HUMAN", "SUCCEEDED"}
               /\ \/ status \in {"READY", "WAITING_HUMAN", "SUCCEEDED", "FAILED", "ABORTED"}
                  \/ status = "WAITING_RETRY" /\ row.attempt_count < MaxAttempts[t]
  <2>1. \E old \in Rows, status \in Statuses : Ended(old, status)
    <3>1. CASE Release(w)
      <4> DEFINE old == [row EXCEPT !.memory.continuation = TRUE]
      <4>1. /\ old \in Rows /\ old.attempt_count = row.attempt_count
            /\ old.memory.resume = row.memory.resume
        BY <1>2 DEF Rows, Memories
      <4>2. task' = [task EXCEPT ![t] = Finished(old, "READY")]
        BY <3>1 DEF Release
      <4>3. QED
        BY <4>1, <4>2 DEF Statuses
    <3>2. CASE Abort(w)
      <4>1. task' = [task EXCEPT ![t] = Finished(row, "ABORTED")]
        BY <3>2 DEF Abort
      <4>2. QED
        BY <1>2, <4>1 DEF Statuses, Terminal
    <3>3. ASSUME NEW memory \in Memories, NEW waiting \in BOOLEAN, Complete(w, memory, waiting)
          PROVE  \E old \in Rows, status \in Statuses : Ended(old, status)
      <4> DEFINE old == [row EXCEPT !.memory = memory]
                 status == IF waiting THEN "WAITING_HUMAN" ELSE "SUCCEEDED"
      <4>1. old \in Rows /\ old.attempt_count = row.attempt_count
        BY <1>2 DEF Rows
      <4>2. task' = [task EXCEPT ![t] = Finished(old, status)]
        BY <3>3 DEF Complete
      <4>3. status \in {"WAITING_HUMAN", "SUCCEEDED"}
        OBVIOUS
      <4> HIDE DEF old, status
      <4>4. QED
        BY <4>1, <4>2, <4>3 DEF Statuses, Terminal
    <3>4. ASSUME NEW retryable \in BOOLEAN, Fail(w, retryable)
          PROVE  \E old \in Rows, status \in Statuses : Ended(old, status)
      <4>1. CASE retryable /\ row.attempt_count < MaxAttempts[t]
        <5>1. PICK delay \in RetryDelay(row.attempt_count) :
                task' = [task EXCEPT ![t] =
                           Finished([row EXCEPT !.next_run_at = delay], "WAITING_RETRY")]
          BY <3>4, <4>1 DEF Fail
        <5> DEFINE old == [row EXCEPT !.next_run_at = delay]
        <5>2. delay \in Nat
          BY <1>2, RetryDelayType DEF Rows
        <5>3. /\ old \in Rows /\ old.attempt_count = row.attempt_count
              /\ old.memory.resume = row.memory.resume
          BY <1>2, <5>2 DEF Rows, Countdowns
        <5>4. QED
          BY <4>1, <5>1, <5>3 DEF Statuses
      <4>2. CASE ~(retryable /\ row.attempt_count < MaxAttempts[t])
        <5>1. task' = [task EXCEPT ![t] = Finished(row, "FAILED")]
          BY <3>4, <4>2 DEF Fail
        <5>2. QED
          BY <1>2, <5>1 DEF Statuses, Terminal
      <4>3. QED
        BY <4>1, <4>2
    <3>5. QED
      BY <1>4, <3>1, <3>2, <3>3, <3>4
  <2>2. PICK old \in Rows, status \in Statuses : Ended(old, status)
    BY <2>1
  <2> DEFINE new == Finished(old, status)
  <2>3. /\ new.status = status /\ new.worker_id = Null /\ new.attempt_count = old.attempt_count
        /\ new.memory = old.memory
    BY FinishedFields
  <2> HIDE DEF new
  <2>4. task'[t] = new /\ \A u \in Tasks \ {t} : Rests(u)
    BY <1>2, <2>2, OneRow DEF new
  <2>5. IsWritten(t)
    BY <1>1, <2>2, <2>3, <2>4 DEF IsWritten, ReplyKept
  <2>6. QED
    BY <2>4, <2>5 DEF TaskStep
<1>5. QED
  BY <1>3, <1>4

LEMMA SpawnWrites ==
  ASSUME IInv, NEW w \in Workers, NEW next \in Tasks, NEW interrupts \in SUBSET Interrupts,
         CompleteSpawning(w, next, interrupts)
  PROVE  \A u \in Tasks : TaskStep(u)
<1> DEFINE t == held[w].task_id
           row == task[t]
           saved == [row EXCEPT !.memory = NoMemory]
           done == Finished(saved, "SUCCEEDED")
           status == IF interrupts = {} THEN "READY" ELSE "WAITING_HUMAN"
           new == Created(status, interrupts)
<1>1. Fenced(held[w]) /\ task[next].status = "ABSENT"
      /\ task' = [task EXCEPT ![t] = done, ![next] = new]
  BY DEF CompleteSpawning
<1>2. t \in Tasks /\ row \in Rows /\ row.status = "ACTIVE"
  BY <1>1, FencedRow
<1>3. t # next
  BY <1>1, <1>2
<1>4. saved \in Rows /\ saved.attempt_count = row.attempt_count
  BY <1>2 DEF Rows, NoMemory, Memories
<1> HIDE DEF saved
<1>5. done.status = "SUCCEEDED" /\ done.worker_id = Null /\ done.attempt_count = row.attempt_count
  BY <1>4, FinishedFields DEF Statuses, Terminal
<1> HIDE DEF done
<1>6. /\ task'[t] = done /\ task'[next] = new
      /\ \A u \in Tasks \ {t, next} : task'[u] = task[u]
  BY <1>1, <1>2, <1>3 DEF IInv, TypeOK
<1>7. IsWritten(t)
  BY <1>1, <1>5, <1>6 DEF IsWritten
<1>8. IsCreated(next)
  BY <1>1, <1>6 DEF IsCreated
<1>9. QED
  BY <1>6, <1>7, <1>8 DEF TaskStep, Rests

LEMMA NextTaskStep ==
  ASSUME IInv, Next
  PROVE  \A u \in Tasks : TaskStep(u)
<1>1. ASSUME NEW t \in Tasks,
             Enqueue(t) \/ \E interrupts \in SUBSET Interrupts : EnqueueWaiting(t, interrupts)
      PROVE  \A u \in Tasks : TaskStep(u)
  <2>1. PICK status \in {"READY", "WAITING_HUMAN"}, interrupts \in SUBSET Interrupts :
          task[t].status = "ABSENT" /\ task' = [task EXCEPT ![t] = Created(status, interrupts)]
    <3>1. {} \in SUBSET Interrupts
      OBVIOUS
    <3>2. QED
      BY <1>1, <3>1 DEF Enqueue, EnqueueWaiting
  <2>2. QED
    BY <2>1, OneRow DEF TaskStep, IsCreated
<1>2. ASSUME NEW t \in Tasks, \E reply \in Replies : Resume(t, reply)
      PROVE  \A u \in Tasks : TaskStep(u)
  BY <1>2, OneRow DEF TaskStep, IsResumed, Resume
<1>3. ASSUME NEW t \in Tasks, Cancel(t)
      PROVE  \A u \in Tasks : TaskStep(u)
  BY <1>3, OneRow DEF TaskStep, IsCanceled, Cancel
<1>4. ASSUME NEW w \in Workers, Claim(w)
      PROVE  \A u \in Tasks : TaskStep(u)
  BY <1>4, ClaimIInv, OneRow DEF TaskStep, IsClaimed
<1>5. ASSUME NEW w \in Workers, Forget(w)
      PROVE  \A u \in Tasks : TaskStep(u)
  BY <1>5 DEF Forget, TaskStep, Rests
<1>6. CASE Recover
  BY <1>6 DEF Recover, TaskStep, Rests, IsRecovered
<1>7. CASE Tick
  BY <1>7 DEF Tick, TaskStep, Rests
<1>8. QED
  BY <1>1, <1>2, <1>3, <1>4, <1>5, <1>6, <1>7, OwnerWrites, SpawnWrites DEF Next

-----------------------------------------------------------------------------
(* Facts for the modules built on the queue: who holds a row, which exist    *)

LEMMA RecoveredFields ==
  ASSUME NEW t \in Tasks, NEW row \in Rows
  PROVE  /\ Recovered(row, t).status \in {"READY", "FAILED"}
         /\ Recovered(row, t).worker_id = Null
         /\ Recovered(row, t).attempt_count = row.attempt_count
         /\ Recovered(row, t).memory = row.memory
<1> DEFINE cleared == [row EXCEPT !.next_run_at = NoTime]
           status == IF row.attempt_count >= MaxAttempts[t] THEN "FAILED" ELSE "READY"
<1>1. /\ cleared \in Rows /\ cleared.attempt_count = row.attempt_count
      /\ cleared.memory = row.memory
  BY DEF Rows, Countdowns
<1>2. Recovered(row, t) = Finished(cleared, status) /\ status \in {"READY", "FAILED"}
  BY DEF Recovered
<1>3. status \in Statuses
  BY <1>2 DEF Statuses, Terminal
<1> HIDE DEF cleared, status
<1>4. QED
  BY <1>1, <1>2, <1>3, FinishedFields

LEMMA ResumedFields ==
  ASSUME NEW row \in Rows, NEW reply \in Replies
  PROVE  /\ Resumed(row, reply).status = "READY"
         /\ Resumed(row, reply).worker_id = Null
         /\ Resumed(row, reply).attempt_count = row.attempt_count
         /\ Resumed(row, reply).memory.interrupts = row.memory.interrupts
         /\ Resumed(row, reply).memory.resume = reply
<1> DEFINE old == [row EXCEPT !.memory.resume = reply, !.memory.continuation = TRUE]
<1>1. /\ old \in Rows /\ old.attempt_count = row.attempt_count
      /\ old.memory.interrupts = row.memory.interrupts /\ old.memory.resume = reply
  BY DEF Rows, Memories
<1>2. Resumed(row, reply) = Finished(old, "READY")
  BY DEF Resumed
<1> HIDE DEF old
<1>3. QED
  BY <1>1, <1>2, FinishedFields DEF Statuses

\* A row that exists stays.
LEMMA RowsStay ==
  ASSUME IInv, [Next]_queueVars, NEW t \in Tasks, task[t].status # "ABSENT"
  PROVE  task'[t].status # "ABSENT"
<1>1. CASE UNCHANGED queueVars
  BY <1>1 DEF queueVars
<1>2. CASE Next
  <2>1. TaskStep(t) /\ task[t] \in Rows
    BY <1>2, NextTaskStep DEF IInv, TypeOK
  <2>2. CASE Rests(t)
    BY <2>1, <2>2, OlderFields DEF Rests
  <2>3. CASE IsClaimed(t)
    BY <2>1, <2>3, ClaimedFields DEF IsClaimed
  <2>4. CASE IsWritten(t)
    BY <2>4 DEF IsWritten
  <2>5. CASE IsRecovered(t)
    BY <2>1, <2>5, RecoveredFields DEF IsRecovered
  <2>6. CASE IsResumed(t)
    BY <2>1, <2>6, ResumedFields DEF IsResumed
  <2>7. CASE IsCanceled(t)
    BY <2>1, <2>7, FinishedFields DEF IsCanceled, Statuses, Terminal
  <2>8. QED
    BY <2>1, <2>2, <2>3, <2>4, <2>5, <2>6, <2>7 DEF TaskStep, IsCreated
<1>3. QED
  BY <1>1, <1>2

\* Only enqueueing and handing over create rows.
LEMMA NoNewRow ==
  ASSUME IInv, NEW t \in Tasks, task[t].status = "ABSENT",
         \/ UNCHANGED task \/ Recover \/ Tick
         \/ \E u \in Tasks, reply \in Replies : Resume(u, reply)
         \/ \E w \in Workers :
              \/ Claim(w) \/ Heartbeat(w) \/ Release(w) \/ Abort(w) \/ Forget(w)
              \/ \E memory \in Memories :
                   SaveMemory(w, memory) \/ \E waiting \in BOOLEAN : Complete(w, memory, waiting)
              \/ \E retryable \in BOOLEAN : Fail(w, retryable)
  PROVE  task'[t].status = "ABSENT"
<1>1. CASE UNCHANGED task \/ Recover
  BY <1>1 DEF Recover, Expired, RetryDue
<1>2. CASE Tick
  BY <1>2, OlderFields DEF Tick, IInv, TypeOK
<1>3. CASE \E u \in Tasks, reply \in Replies : Resume(u, reply)
  BY <1>3 DEF Resume, IInv, TypeOK
<1>4. ASSUME NEW w \in Workers, Claim(w)
      PROVE  task'[t].status = "ABSENT"
  BY <1>4, ClaimIInv DEF IInv, TypeOK
<1>5. ASSUME NEW w \in Workers, Forget(w)
      PROVE  task'[t].status = "ABSENT"
  BY <1>5 DEF Forget
<1>6. ASSUME NEW w \in Workers,
             \/ Heartbeat(w) \/ Release(w) \/ Abort(w)
             \/ \E memory \in Memories :
                  SaveMemory(w, memory) \/ \E waiting \in BOOLEAN : Complete(w, memory, waiting)
             \/ \E retryable \in BOOLEAN : Fail(w, retryable)
      PROVE  task'[t].status = "ABSENT"
  <2>1. Fenced(held[w])
    BY <1>6 DEF Heartbeat, Release, Abort, SaveMemory, Complete, Fail
  <2>2. held[w].task_id # t
    BY <2>1 DEF Fenced
  <2>3. \E new : task' = [task EXCEPT ![held[w].task_id] = new]
    BY <1>6 DEF Heartbeat, Release, Abort, SaveMemory, Complete, Fail
  <2>4. QED
    BY <2>2, <2>3 DEF IInv, TypeOK
<1>7. QED
  BY <1>1, <1>2, <1>3, <1>4, <1>5, <1>6

\* The row still carries the token of the worker's lease (which may have run out).
Owns(w) == held[w] # Null /\ task[held[w].task_id].worker_id = held[w].worker_id

LEMMA FencedOwns ==
  ASSUME NEW w \in Workers, Fenced(held[w])
  PROVE  Owns(w)
BY DEF Fenced, Owns

LEMMA SoleOwner ==
  ASSUME IInv, NEW v \in Workers, NEW w \in Workers, Owns(v), Owns(w),
         held[v].task_id = held[w].task_id
  PROVE  v = w
BY DEF IInv, TokensUnique, Owns

\* Ownership is lost and never regained under the same lease.
LEMMA OwnedBefore ==
  ASSUME IInv, [Next]_queueVars, NEW w \in Workers, held'[w] = held[w], Owns(w)'
  PROVE  Owns(w)
<1> DEFINE t == held[w].task_id
<1>1. CASE UNCHANGED queueVars
  BY <1>1 DEF queueVars, Owns
<1>2. CASE Next
  <2>1. held[w] # Null /\ task'[t].worker_id = held[w].worker_id
    BY DEF Owns
  <2>2. t \in Tasks /\ held[w].worker_id # Null /\ task[t] \in Rows
    BY <2>1, NullAssumption DEF IInv, TypeOK, Leases
  <2> HIDE DEF t
  <2>3. TaskStep(t)
    BY <1>2, <2>2, NextTaskStep
  <2>4. CASE Rests(t)
    BY <2>1, <2>2, <2>4, OlderFields DEF Rests, Owns, t
  <2>5. ~IsCreated(t)
    BY <2>1, <2>2 DEF IsCreated, Created, NoRow
  <2>6. ~IsClaimed(t)
    <3>1. \A owner \in Owners : Claimed(task[t], owner).worker_id = owner
      BY <2>2, ClaimedFields
    <3>2. QED
      BY <2>1, <3>1 DEF IsClaimed, FreshOwner
  <2>7. CASE IsWritten(t)
    BY <2>1, <2>2, <2>7 DEF IsWritten, Owns, t
  <2>8. ~IsRecovered(t) /\ ~IsResumed(t)
    BY <2>1, <2>2, RecoveredFields, ResumedFields DEF IsRecovered, IsResumed
  <2>9. ~IsCanceled(t)
    BY <2>1, <2>2, FinishedFields DEF IsCanceled, Statuses, Terminal
  <2>10. QED
    BY <2>3, <2>4, <2>5, <2>6, <2>7, <2>8, <2>9 DEF TaskStep
<1>3. QED
  BY <1>1, <1>2

-----------------------------------------------------------------------------
(* Theorems about steps *)

\* Until its lease runs out, an ACTIVE task whose owner has died is left alone
\* by every other worker, by recovery and by human replies.
THEOREM LiveLeases == Spec => LiveLeasesProtected
<1>1. IInv /\ [Next]_queueVars => [LiveLeaseProtected]_queueVars
  <2> SUFFICES ASSUME IInv, Next PROVE LiveLeaseProtected
    BY DEF queueVars
  <2> SUFFICES ASSUME NEW t \in Tasks, task[t].status = "ACTIVE", task[t].lease_expires_at > 0,
                      \A w \in Workers : held[w] # Null => held[w].worker_id # task[t].worker_id
               PROVE  Rests(t)
    BY DEF LiveLeaseProtected, Rests
  <2>1. TaskStep(t)
    BY NextTaskStep
  <2>2. ~IsWritten(t)
    BY DEF IsWritten, Fenced
  <2>3. ~IsRecovered(t)
    BY DEF IsRecovered, Expired, RetryDue, Elapsed, NoTime
  <2>4. QED
    BY <2>1, <2>2, <2>3 DEF TaskStep, IsCreated, IsClaimed, IsResumed, IsCanceled
<1>2. QED
  BY <1>1, Invariance, PTL DEF Spec, LiveLeasesProtected

\* An accepted reply is replaced by nothing but the answer to a question that is
\* pending or the memory that the owner of the row saves or ends with.
THEOREM RepliesKept == Spec => AcceptedReplyKept
<1> DEFINE Kept == \A t \in Tasks :
             task[t].status # "ABSENT" => ReplyKept(t) \/ Answered(t) \/ Rewritten(t)
<1>1. IInv /\ [Next]_queueVars => [Kept]_queueVars
  <2> SUFFICES ASSUME IInv, Next, NEW t \in Tasks, task[t].status # "ABSENT"
               PROVE  ReplyKept(t) \/ Answered(t) \/ Rewritten(t)
    BY DEF queueVars
  <2>1. task[t] \in Rows /\ TaskStep(t)
    BY NextTaskStep DEF IInv, TypeOK
  <2>2. CASE Rests(t)
    BY <2>1, <2>2, OlderFields DEF Rests, ReplyKept
  <2>3. ~IsCreated(t)
    BY DEF IsCreated
  <2>4. CASE IsClaimed(t)
    <3>1. PICK owner \in Owners : task'[t] = Claimed(task[t], owner)
      BY <2>4 DEF IsClaimed
    <3>2. Claimed(task[t], owner).memory.resume = task[t].memory.resume
      BY <2>1, ClaimedFields
    <3>3. QED
      BY <3>1, <3>2 DEF ReplyKept
  <2>5. CASE IsWritten(t)
    <3>1. CASE task'[t].status = "ACTIVE"
      <4>1. task'[t].worker_id = task[t].worker_id
        BY <2>5, <3>1 DEF IsWritten
      <4>2. QED
        BY <2>5, <3>1, <4>1 DEF IsWritten, Rewritten
    <3>2. QED
      BY <2>5, <3>1 DEF IsWritten, Rewritten
  <2>6. CASE IsRecovered(t)
    BY <2>1, <2>6, RecoveredFields DEF IsRecovered, ReplyKept
  <2>7. CASE IsResumed(t)
    <3>1. PICK reply \in Replies :
            reply.interrupt_id \in task[t].memory.interrupts /\ task'[t] = Resumed(task[t], reply)
      BY <2>7 DEF IsResumed
    <3>2. reply # Null
      BY NullAssumption
    <3>3. QED
      BY <2>1, <2>7, <3>1, <3>2, ResumedFields DEF IsResumed, Answered
  <2>8. CASE IsCanceled(t)
    BY <2>1, <2>8, FinishedFields DEF IsCanceled, Statuses, Terminal, ReplyKept
  <2>9. QED
    BY <2>1, <2>2, <2>3, <2>4, <2>5, <2>6, <2>7, <2>8 DEF TaskStep
<1>2. QED
  BY <1>1, Invariance, PTL DEF Spec, AcceptedReplyKept

\* The queue implements the task lifecycle: whatever leases, crashes, retries
\* and replies do, a task only moves along the stages that TaskLifecycle draws,
\* under one owner, within its attempts.
THEOREM Refinement == Spec => Lifecycle
<1>1. Init => Promise!Init
  BY DEF Init, Promise!Init, NoRow
<1>2. IInv /\ [Next]_queueVars => [Promise!Next]_(Promise!lifecycleVars)
  <2>1. CASE UNCHANGED queueVars
    BY <2>1 DEF queueVars, Promise!lifecycleVars
  <2>2. ASSUME IInv, Next, NEW t \in Tasks
        PROVE  \/ Promise!Publish(t) \/ Promise!Grant(t) \/ Promise!EndAttempt(t)
               \/ Promise!Awake(t) \/ Promise!Cancel(t) \/ Promise!Stay(t)
    <3> DEFINE row == task[t]
    <3>1. row \in Rows /\ RowOK(t, row) /\ TaskStep(t)
      BY <2>2, NextTaskStep DEF IInv, TypeOK
    <3>2. CASE Rests(t)
      BY <3>1, <3>2, OlderFields DEF Rests, Promise!Stay
    <3>3. CASE IsCreated(t)
      <4>1. PICK status \in {"READY", "WAITING_HUMAN"}, interrupts \in SUBSET Interrupts :
              task'[t] = Created(status, interrupts)
        BY <3>3 DEF IsCreated
      <4>2. /\ Created(status, interrupts).status = status
            /\ Created(status, interrupts).worker_id = Null
            /\ Created(status, interrupts).attempt_count = 0
        BY DEF Created, NoRow
      <4>3. QED
        BY <3>3, <4>1, <4>2 DEF IsCreated, Promise!Publish
    <3>4. CASE IsClaimed(t)
      <4>1. PICK owner \in Owners : FreshOwner(owner) /\ task'[t] = Claimed(row, owner)
        BY <3>4 DEF IsClaimed
      <4> DEFINE new == Claimed(row, owner)
      <4>2. /\ task'[t].status = "ACTIVE" /\ task'[t].worker_id = owner
            /\ task'[t].attempt_count \in {row.attempt_count, row.attempt_count + 1}
        <5>1. /\ new.status = "ACTIVE" /\ new.worker_id = owner
              /\ new.attempt_count = IF row.memory.continuation THEN row.attempt_count
                                     ELSE row.attempt_count + 1
          BY <3>1, ClaimedFields
        <5> HIDE DEF row
        <5>2. QED
          BY <4>1, <5>1
      <4>3. task'[t].attempt_count <= MaxAttempts[t]
        BY <2>2, NextIInv DEF IInv, RowOK
      <4>4. QED
        BY <3>4, <4>1, <4>2, <4>3 DEF IsClaimed, FreshOwner, Promise!Grant
    <3>5. CASE IsWritten(t)
      <4>1. row.status = "ACTIVE"
        BY <3>5 DEF IsWritten, Fenced
      <4>2. QED
        BY <3>5, <4>1 DEF IsWritten, Promise!EndAttempt, Promise!Stay, Promise!Final
    <3>6. CASE IsRecovered(t)
      <4> DEFINE cleared == [row EXCEPT !.next_run_at = NoTime]
                 status == IF row.attempt_count >= MaxAttempts[t] THEN "FAILED" ELSE "READY"
      <4>1. cleared \in Rows /\ cleared.attempt_count = row.attempt_count
        BY <3>1 DEF Rows, Countdowns
      <4>2. task'[t] = Finished(cleared, status)
        BY <3>6 DEF IsRecovered, Recovered
      <4>3. status \in {"FAILED", "READY"} /\ (row.status = "WAITING_RETRY" => status = "READY")
        BY <3>1, MaxAttemptsAssumption DEF RowOK, Rows
      <4> HIDE DEF cleared, status
      <4>4. task'[t].status = status /\ task'[t].worker_id = Null
            /\ task'[t].attempt_count = row.attempt_count
        BY <4>1, <4>2, <4>3, FinishedFields DEF Statuses, Terminal
      <4>5. row.status \in {"ACTIVE", "WAITING_RETRY"}
        BY <3>6 DEF IsRecovered, Expired, RetryDue
      <4>6. row.status = "WAITING_RETRY" => row.worker_id = Null
        BY <3>1 DEF RowOK
      <4>7. QED
        BY <4>3, <4>4, <4>5, <4>6 DEF Promise!EndAttempt, Promise!Awake, Promise!Final
    <3>7. CASE IsResumed(t)
      <4>1. task'[t].status = "READY" /\ task'[t].worker_id = Null
            /\ task'[t].attempt_count = row.attempt_count
        BY <3>1, <3>7, ResumedFields DEF IsResumed
      <4>2. QED
        BY <3>1, <3>7, <4>1 DEF IsResumed, RowOK, Promise!Awake
    <3>8. CASE IsCanceled(t)
      <4>1. task'[t].status = "CANCELED" /\ task'[t].worker_id = Null
            /\ task'[t].attempt_count = row.attempt_count
        BY <3>1, <3>8, FinishedFields DEF IsCanceled, Statuses, Terminal
      <4>2. QED
        BY <3>1, <3>8, <4>1 DEF IsCanceled, RowOK, Promise!Cancel
    <3>9. QED
      BY <3>1, <3>2, <3>3, <3>4, <3>5, <3>6, <3>7, <3>8 DEF TaskStep
  <2>3. QED
    BY <2>1, <2>2 DEF Promise!Next
<1>3. QED
  BY <1>1, <1>2, Invariance, PTL DEF Spec, Lifecycle, Promise!Spec

-----------------------------------------------------------------------------
(* The queue as the agents' modules see it: LeasedTasks keeps of a row its     *)
(* status, its owner - here the token - and its attempts.                      *)

Leased == INSTANCE LeasedTasks WITH
  Workers <- Owners,
  task <- [t \in Tasks |-> [status |-> task[t].status, owner |-> task[t].worker_id,
                            spent |-> task[t].attempt_count]]

\* The provers see through one EXCEPT of a record at a time.
LEMMA LeasedEnded ==
  ASSUME NEW status, NEW owner, NEW spent, NEW next
  PROVE  Leased!Ended([status |-> status, owner |-> owner, spent |-> spent], next)
           = [status |-> next, owner |-> Null, spent |-> spent]
<1> DEFINE moved == [[status |-> status, owner |-> owner, spent |-> spent] EXCEPT !.status = next]
<1>1. moved = [status |-> next, owner |-> owner, spent |-> spent]
  OBVIOUS
<1>2. Leased!Ended([status |-> status, owner |-> owner, spent |-> spent], next)
        = [moved EXCEPT !.owner = Null]
  BY DEF Leased!Ended
<1> HIDE DEF moved
<1>3. [[status |-> next, owner |-> owner, spent |-> spent] EXCEPT !.owner = Null]
        = [status |-> next, owner |-> Null, spent |-> spent]
  OBVIOUS
<1> QED BY <1>1, <1>2, <1>3

LEMMA LeasedGranted ==
  ASSUME NEW status, NEW owner, NEW spent \in Nat, NEW w, NEW continues \in BOOLEAN
  PROVE  Leased!Granted([status |-> status, owner |-> owner, spent |-> spent], w, continues)
           = [status |-> "ACTIVE", owner |-> w, spent |-> IF continues THEN spent ELSE spent + 1]
<1> DEFINE row == [status |-> status, owner |-> owner, spent |-> spent]
           moved == [row EXCEPT !.status = "ACTIVE"]
           owned == [moved EXCEPT !.owner = w]
           counted == IF continues THEN spent ELSE spent + 1
<1>1. moved = [status |-> "ACTIVE", owner |-> owner, spent |-> spent]
  OBVIOUS
<1>2. owned = [status |-> "ACTIVE", owner |-> w, spent |-> spent]
  <2>1. [[status |-> "ACTIVE", owner |-> owner, spent |-> spent] EXCEPT !.owner = w]
          = [status |-> "ACTIVE", owner |-> w, spent |-> spent]
    OBVIOUS
  <2> HIDE DEF moved
  <2> QED BY <1>1, <2>1
<1>3. Leased!Granted(row, w, continues) = [owned EXCEPT !.spent = counted]
  BY DEF Leased!Granted
<1>4. [[status |-> "ACTIVE", owner |-> w, spent |-> spent] EXCEPT !.spent = counted]
        = [status |-> "ACTIVE", owner |-> w, spent |-> counted]
  <2> HIDE DEF counted
  <2> QED OBVIOUS
<1> HIDE DEF owned, counted
<1>5. Leased!Granted(row, w, continues) = [status |-> "ACTIVE", owner |-> w, spent |-> counted]
  BY <1>2, <1>3, <1>4
<1> QED BY <1>5 DEF counted

\* Every transaction does to each row what LeasedTasks lets happen to it, so what
\* holds in the agents' modules does not hang on a queue that is kinder to them
\* than QueueService.
THEOREM LeasedRows == Spec => [][\A t \in Tasks : Leased!RowStep(t)]_queueVars
<1> DEFINE view(row) == [status |-> row.status, owner |-> row.worker_id, spent |-> row.attempt_count]
           before == [t \in Tasks |-> view(task[t])]
           after == [t \in Tasks |-> view(task'[t])]
<1>1. ASSUME IInv, Next, NEW t \in Tasks
      PROVE  Leased!RowStep(t)
  <2> DEFINE row == view(task[t])
             new == view(task'[t])
  <2>1. task[t] \in Rows /\ RowOK(t, task[t]) /\ TaskStep(t)
    BY <1>1, NextTaskStep DEF IInv, TypeOK
  <2>2. before[t] = row /\ after[t] = new
    OBVIOUS
  <2>3. CASE Rests(t)
    <3>1. new = row
      BY <2>1, <2>3, OlderFields DEF Rests
    <3> QED BY <3>1 DEF Leased!RowStep
  <2>4. CASE IsCreated(t)
    <3>1. PICK status \in {"READY", "WAITING_HUMAN"}, interrupts \in SUBSET Interrupts :
            task'[t] = Created(status, interrupts)
      BY <2>4 DEF IsCreated
    <3>2. new = Leased!Published(status)
      BY <3>1 DEF Created, NoRow, Leased!Published, Leased!Absent
    <3> QED BY <2>4, <3>2 DEF IsCreated, Leased!RowStep, Leased!PublishRow
  <2>5. CASE IsClaimed(t)
    <3>1. PICK owner \in Owners : task'[t] = Claimed(task[t], owner)
      BY <2>5 DEF IsClaimed
    <3> DEFINE continues == task[t].memory.continuation
    <3>2. continues \in BOOLEAN
      BY <2>1 DEF Rows, Memories
    <3>3. /\ task'[t].status = "ACTIVE" /\ task'[t].worker_id = owner
          /\ task'[t].attempt_count = IF continues THEN task[t].attempt_count
                                      ELSE task[t].attempt_count + 1
      <4>1. /\ Claimed(task[t], owner).status = "ACTIVE" /\ Claimed(task[t], owner).worker_id = owner
            /\ Claimed(task[t], owner).attempt_count =
                 IF continues THEN task[t].attempt_count ELSE task[t].attempt_count + 1
        BY <2>1, ClaimedFields
      <4> HIDE DEF continues
      <4> QED BY <3>1, <4>1
    <3>4. row.status = "READY" /\ (continues \/ row.spent < MaxAttempts[t])
      BY <2>1, <2>5 DEF IsClaimed, RowOK
    <3> HIDE DEF continues
    <3>5. new = Leased!Granted(row, owner, continues)
      <4>1. task[t].attempt_count \in Nat
        BY <2>1 DEF Rows
      <4> QED BY <3>2, <3>3, <4>1, LeasedGranted
    <3> HIDE DEF row, new
    <3> QED BY <2>2, <3>2, <3>4, <3>5 DEF Leased!RowStep, Leased!GrantRow, Leased!Claimable
  <2>6. CASE IsWritten(t)
    <3>1. row.status = "ACTIVE" /\ new.spent = row.spent
      BY <2>6 DEF IsWritten, Fenced
    <3>2. CASE new.status = "ACTIVE" /\ new.owner = row.owner
      <4>1. new = row
        BY <3>1, <3>2
      <4> QED BY <4>1 DEF Leased!RowStep
    <3>3. CASE new.owner = Null
      <4>1. new = Leased!Ended(row, new.status)
        BY <3>1, <3>3, LeasedEnded
      <4>2. row.owner # Null
        BY <2>1, <3>1 DEF RowOK
      <4>3. \/ new.status \in {"READY", "WAITING_HUMAN", "SUCCEEDED", "FAILED", "ABORTED"}
            \/ new.status = "WAITING_RETRY" /\ row.spent < MaxAttempts[t]
        BY <2>6, <3>3, <4>2 DEF IsWritten
      <4> HIDE DEF row, new
      <4>4. new.status = "FAILED" => new = Leased!Retried(row, t, FALSE)
        BY <4>1 DEF Leased!Retried
      <4>5. new.status = "WAITING_RETRY" /\ row.spent < MaxAttempts[t] => new = Leased!Retried(row, t, TRUE)
        BY <4>1 DEF Leased!Retried
      <4> QED BY <2>2, <3>1, <4>1, <4>3, <4>4, <4>5 DEF Leased!RowStep, Leased!EndRow, Leased!Released
    <3> QED BY <2>6, <3>2, <3>3 DEF IsWritten
  <2>7. CASE IsRecovered(t)
    <3> DEFINE cleared == [task[t] EXCEPT !.next_run_at = NoTime]
               status == IF task[t].attempt_count >= MaxAttempts[t] THEN "FAILED" ELSE "READY"
    <3>1. cleared \in Rows /\ cleared.attempt_count = task[t].attempt_count
      BY <2>1 DEF Rows, Countdowns
    <3>2. task'[t] = Finished(cleared, status)
      BY <2>7 DEF IsRecovered, Recovered
    <3>3. status \in {"FAILED", "READY"}
      OBVIOUS
    <3>4. new = Leased!Ended(row, status)
      <4> HIDE DEF cleared, status
      <4>1. task'[t].status = status /\ task'[t].worker_id = Null
            /\ task'[t].attempt_count = task[t].attempt_count
        BY <3>1, <3>2, <3>3, FinishedFields DEF Statuses, Terminal
      <4> QED BY <4>1, LeasedEnded
    <3>5. task[t].attempt_count \in Nat /\ MaxAttempts[t] \in Nat
      BY <2>1, MaxAttemptsAssumption DEF Rows
    <3>6. CASE task[t].status = "ACTIVE"
      <4>1. new = Leased!Lapsed(row, t)
        <5>1. status = IF row.spent < MaxAttempts[t] THEN "READY" ELSE "FAILED"
          BY <3>5
        <5> HIDE DEF status, row, new
        <5> QED BY <3>4, <5>1 DEF Leased!Lapsed
      <4>2. row.status = "ACTIVE"
        BY <3>6
      <4> HIDE DEF row, new
      <4> QED BY <2>2, <4>1, <4>2 DEF Leased!RowStep, Leased!EndRow
    <3>7. CASE task[t].status = "WAITING_RETRY"
      <4>1. status = "READY" /\ row.owner = Null
        BY <2>1, <3>5, <3>7 DEF RowOK
      <4>2. new = [row EXCEPT !.status = "READY"]
        BY <3>4, <4>1, LeasedEnded
      <4> QED BY <3>7, <4>2 DEF Leased!RowStep, Leased!WakeRow
    <3> QED BY <2>7, <3>6, <3>7 DEF IsRecovered, Expired, RetryDue
  <2>8. CASE IsResumed(t)
    <3>1. /\ task'[t].status = "READY" /\ task'[t].worker_id = Null
          /\ task'[t].attempt_count = task[t].attempt_count
      BY <2>1, <2>8, ResumedFields DEF IsResumed
    <3>2. row.status = "WAITING_HUMAN" /\ row.owner = Null
      BY <2>1, <2>8 DEF IsResumed, RowOK
    <3>3. new = [row EXCEPT !.status = "READY"]
      BY <3>1, <3>2
    <3> QED BY <3>2, <3>3 DEF Leased!RowStep, Leased!WakeRow
  <2>9. CASE IsCanceled(t)
    <3>1. /\ task'[t].status = "CANCELED" /\ task'[t].worker_id = Null
          /\ task'[t].attempt_count = task[t].attempt_count
      BY <2>1, <2>9, FinishedFields DEF IsCanceled, Statuses, Terminal
    <3>2. new = Leased!Ended(row, "CANCELED")
      BY <3>1, LeasedEnded
    <3>3. row.status \in {"READY", "WAITING_HUMAN"}
      BY <2>9 DEF IsCanceled
    <3> HIDE DEF row, new
    <3> QED BY <2>2, <3>2, <3>3 DEF Leased!RowStep, Leased!CancelRow
  <2> QED BY <2>1, <2>3, <2>4, <2>5, <2>6, <2>7, <2>8, <2>9 DEF TaskStep
<1>2. IInv /\ [Next]_queueVars => [\A t \in Tasks : Leased!RowStep(t)]_queueVars
  BY <1>1
<1> QED BY <1>2, Invariance, PTL DEF Spec
=============================================================================
