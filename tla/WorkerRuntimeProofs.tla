------------------------- MODULE WorkerRuntimeProofs -------------------------
(***************************************************************************)
(* Proofs about WorkerRuntime for any tasks, workers, graph and faults.    *)
(*                                                                         *)
(* First, every step of a worker is a step of TaskQueue, so the invariant  *)
(* of the queue (TaskQueueProofs) holds.  Then the two databases: what a   *)
(* worker remembers of the row and of the thread is current for as long as *)
(* the row is its own, and nobody writes a thread without its row.         *)
(***************************************************************************)
EXTENDS WorkerRuntime, TaskQueueProofs

-----------------------------------------------------------------------------
(* The inductive invariant *)

Steps == Executing \cup {"idle", "commit", "ending"}

\* A thread asks before its human node, and has an answer only behind it.
Threads ==
  {c \in [created : BOOLEAN, done : 0 .. Nodes, asked : BOOLEAN, answer : Values \cup {Null}] :
     /\ c.asked => c.done + 1 = HumanNode
     /\ c.answer # Null => c.done >= HumanNode}

RuntimeTypeOK ==
  /\ checkpoint \in [Tasks -> Threads]
  /\ writer \in Workers \cup {Null}
  /\ pc \in [Workers -> Steps]
  /\ memory \in [Workers -> Memories]
  /\ snapshot \in [Workers -> Threads]
  /\ faults \in Nat

\* The reservation is held through a commit, by a worker that owns the row.
WriterCommits ==
  \A w \in Workers : /\ writer = w <=> pc[w] = "commit"
                     /\ pc[w] = "commit" => Owns(w)

\* The steps after the memory, and after the checkpoint, was read.
Remembers == {"save", "look", "node", "fence", "commit", "record"}
Invokes == {"node", "fence", "commit"}

\* The local copies of an attempt: current while it owns the row.  It records
\* only a thread that asks or is done, and goes on only with one that is not done.
AttemptOK(w) ==
  /\ held[w] = Null <=> pc[w] = "idle"
  /\ pc[w] \in Remembers /\ Owns(w) => memory[w] = task[TaskOf(w)].memory
  /\ pc[w] \in Invokes \cup {"record"} /\ Owns(w) => snapshot[w] = checkpoint[TaskOf(w)]
  /\ pc[w] \in Invokes => snapshot[w].done # Nodes
  /\ pc[w] = "record" => snapshot[w].asked \/ snapshot[w].done = Nodes

\* The row and the thread of one task, in the two databases.
TaskOK(t) ==
  /\ task[t].status = "SUCCEEDED" => checkpoint[t].done = Nodes /\ ~checkpoint[t].asked
  /\ task[t].status = "WAITING_HUMAN" =>
       checkpoint[t].asked /\ task[t].memory.interrupts = {Question}
  /\ task[t].status = "ABSENT" => checkpoint[t].answer = Null
  /\ checkpoint[t].answer # Null =>
       task[t].memory.resume = [interrupt_id |-> Question, value |-> checkpoint[t].answer]

RuntimeInv ==
  /\ RuntimeTypeOK
  /\ WriterCommits
  /\ \A w \in Workers : AttemptOK(w)
  /\ \A t \in Tasks : TaskOK(t)

-----------------------------------------------------------------------------
(* A worker uses the queue through its interface *)

LEMMA MemoryType ==
  ASSUME NEW m \in Memories, NEW interrupts \in SUBSET Interrupts
  PROVE  [m EXCEPT !.interrupts = interrupts] \in Memories
BY DEF Memories

LEMMA StepConforms ==
  ASSUME RuntimeTypeOK, [RuntimeNext]_runtimeVars
  PROVE  [Next]_queueVars
<1>1. CASE UNCHANGED runtimeVars
  BY <1>1 DEF runtimeVars, queueVars
<1>2. ASSUME NEW t \in Tasks, Submit(t)
      PROVE  [Next]_queueVars
  BY <1>2 DEF Submit, Next
<1>3. ASSUME NEW t \in Tasks, NEW value \in Values, HumanReplies(t, value)
      PROVE  [Next]_queueVars
  <2>1. [interrupt_id |-> Question, value |-> value] \in Replies
    BY GraphAssumption DEF Replies
  <2>2. QED
    BY <1>3, <2>1 DEF HumanReplies, Next
<1>4. CASE PollRecover \/ TimePasses
  BY <1>4 DEF PollRecover, TimePasses, Next
<1>5. ASSUME NEW w \in Workers,
             \/ Load(w) \/ Look(w) \/ RunNode(w) \/ EnterFence(w) \/ CommitCheckpoint(w)
             \/ LoseLease(w) \/ Stop(w)
      PROVE  [Next]_queueVars
  BY <1>5 DEF Load, Look, RunNode, EnterFence, CommitCheckpoint, LoseLease, Stop, queueVars
<1>6. ASSUME NEW w \in Workers, Save(w)
      PROVE  [Next]_queueVars
  <2>1. memory[w] \in Memories /\ SaveMemory(w, memory[w])
    BY <1>6 DEF Save, RuntimeTypeOK
  <2>2. QED
    BY <2>1 DEF Next
<1>7. ASSUME NEW w \in Workers, Record(w)
      PROVE  [Next]_queueVars
  <2> DEFINE asked == snapshot[w].asked
             saved == [memory[w] EXCEPT !.interrupts = IF asked THEN {Question} ELSE {}]
  <2>1. Complete(w, saved, asked)
    BY <1>7 DEF Record
  <2>2. asked \in BOOLEAN
    BY DEF RuntimeTypeOK, Threads
  <2>3. (IF asked THEN {Question} ELSE {}) \in SUBSET Interrupts
    BY GraphAssumption
  <2>4. saved \in Memories
    BY <2>3, MemoryType DEF RuntimeTypeOK
  <2> HIDE DEF asked, saved
  <2>5. QED
    BY <2>1, <2>2, <2>4 DEF Next
<1>8. ASSUME NEW w \in Workers,
             \/ RunOnce(w) \/ Beat(w) \/ ReleaseAtEnd(w) \/ EndAttempt(w) \/ Crash(w)
             \/ \E retryable \in BOOLEAN : Raise(w, retryable)
      PROVE  [Next]_queueVars
  BY <1>8 DEF RunOnce, Beat, ReleaseAtEnd, EndAttempt, Crash, Raise, Next
<1>9. QED
  BY <1>1, <1>2, <1>3, <1>4, <1>5, <1>6, <1>7, <1>8, Zenon DEF RuntimeNext, Attempt

-----------------------------------------------------------------------------
(* Frames: what a step leaves alone *)

\* The row keeps its owner, its status and its memory ...
SameRow(t) ==
  /\ task'[t].status = task[t].status
  /\ task'[t].worker_id = task[t].worker_id
  /\ task'[t].memory = task[t].memory

\* ... or no worker that has a lease owns it afterwards.
NewOwner(t) == task'[t].worker_id = Null \/ FreshOwner(task'[t].worker_id)

LEMMA LeaseTask ==
  ASSUME IInv, NEW w \in Workers, held[w] # Null
  PROVE  TaskOf(w) \in Tasks /\ held[w].worker_id # Null
BY NullAssumption DEF IInv, TypeOK, Leases, TaskOf

\* A worker that owns its row after the step has found it unchanged.
LEMMA OwnedRow ==
  ASSUME IInv, NEW w \in Workers, held[w] # Null, held'[w] = held[w],
         SameRow(TaskOf(w)) \/ NewOwner(TaskOf(w)), Owns(w)'
  PROVE  SameRow(TaskOf(w)) /\ Owns(w)
<1>1. TaskOf(w) \in Tasks /\ held[w].worker_id # Null /\ TaskOf(w)' = TaskOf(w)
  BY LeaseTask DEF TaskOf
<1>2. task'[TaskOf(w)].worker_id = held[w].worker_id
  BY <1>1 DEF Owns, TaskOf
<1>3. ~NewOwner(TaskOf(w))
  BY <1>1, <1>2 DEF NewOwner, FreshOwner
<1>4. QED
  BY <1>1, <1>2, <1>3 DEF Owns, TaskOf, SameRow

\* The attempts that a step does not run.
LEMMA AttemptKept ==
  ASSUME IInv, NEW w \in Workers, AttemptOK(w),
         held'[w] = held[w], pc'[w] = pc[w], memory'[w] = memory[w], snapshot'[w] = snapshot[w],
         \A t \in Tasks : SameRow(t) \/ NewOwner(t),
         \A t \in Tasks : Owns(w) /\ TaskOf(w) = t => checkpoint'[t] = checkpoint[t]
  PROVE  AttemptOK(w)'
<1>1. CASE held[w] = Null
  BY <1>1 DEF AttemptOK, Owns, TaskOf, Remembers, Invokes
<1>2. CASE held[w] # Null
  <2>1. TaskOf(w) \in Tasks /\ TaskOf(w)' = TaskOf(w)
    BY <1>2, LeaseTask DEF TaskOf
  <2>2. Owns(w)' => SameRow(TaskOf(w)) /\ Owns(w) /\ checkpoint'[TaskOf(w)] = checkpoint[TaskOf(w)]
    BY <1>2, <2>1, OwnedRow
  <2>3. QED
    BY <1>2, <2>1, <2>2 DEF AttemptOK, SameRow
<1>3. QED
  BY <1>1, <1>2

LEMMA TaskKept ==
  ASSUME NEW t \in Tasks, TaskOK(t), SameRow(t), checkpoint'[t] = checkpoint[t]
  PROVE  TaskOK(t)'
BY DEF TaskOK, SameRow

\* A row that leaves a status keeps the accepted reply.
LEMMA TaskLeft ==
  ASSUME NEW t \in Tasks, TaskOK(t), checkpoint'[t] = checkpoint[t],
         task'[t].status \notin {"SUCCEEDED", "WAITING_HUMAN", "ABSENT"},
         task'[t].memory.resume = task[t].memory.resume
  PROVE  TaskOK(t)'
BY DEF TaskOK

\* No commit is in flight.
LEMMA WriterFree ==
  ASSUME WriterCommits, writer = Null, writer' = Null,
         \A w \in Workers : pc'[w] = pc[w] \/ pc'[w] # "commit"
  PROVE  WriterCommits'
BY WorkersAssumption DEF WriterCommits

\* The rows keep their owners, and no worker enters or leaves a commit.
LEMMA WriterKept ==
  ASSUME IInv, WriterCommits, writer' = writer, \A t \in Tasks : SameRow(t),
         \A w \in Workers : \/ pc'[w] = pc[w] /\ held'[w] = held[w]
                            \/ pc[w] # "commit" /\ pc'[w] # "commit"
  PROVE  WriterCommits'
<1> SUFFICES ASSUME NEW w \in Workers
             PROVE  /\ writer' = w <=> pc'[w] = "commit"
                    /\ pc'[w] = "commit" => Owns(w)'
  BY DEF WriterCommits
<1>1. CASE pc'[w] = pc[w] /\ held'[w] = held[w]
  <2>1. Owns(w) => Owns(w)'
    BY <1>1, LeaseTask DEF Owns, SameRow, TaskOf
  <2>2. QED
    BY <1>1, <2>1 DEF WriterCommits
<1>2. CASE pc[w] # "commit" /\ pc'[w] # "commit"
  BY <1>2 DEF WriterCommits
<1>3. QED
  BY <1>1, <1>2

-----------------------------------------------------------------------------
(* Types *)

\* The next checkpoint of a thread that is not done.
LEMMA NextThread ==
  ASSUME RuntimeTypeOK, NEW w \in Workers, snapshot[w].done # Nodes
  PROVE  NextCheckpoint(w) \in Threads
<1> DEFINE old == snapshot[w]
           next == old.done + 1
<1>1. /\ old \in [created : BOOLEAN, done : 0 .. Nodes, asked : BOOLEAN, answer : Values \cup {Null}]
      /\ old.asked => next = HumanNode
      /\ old.answer # Null => old.done >= HumanNode
  BY DEF RuntimeTypeOK, Threads
<1>2. next \in 0 .. Nodes /\ next > old.done /\ HumanNode \in Nat
  BY <1>1, GraphAssumption
<1>3. HasAnswer(w) => memory[w].resume.value \in Values
  BY DEF HasAnswer, RuntimeTypeOK, Memories, Replies
<1>4. CASE ~old.created
  <2>1. NextCheckpoint(w) = [old EXCEPT !.created = TRUE]
    BY <1>4 DEF NextCheckpoint
  <2>2. QED
    BY <1>1, <2>1 DEF Threads
<1>5. CASE old.created /\ next # HumanNode
  <2>1. NextCheckpoint(w) = [old EXCEPT !.done = next]
    BY <1>5 DEF NextCheckpoint
  <2>2. ~old.asked /\ (old.answer # Null => next >= HumanNode)
    BY <1>1, <1>2, <1>5
  <2> HIDE DEF old, next
  <2>3. QED
    BY <1>1, <1>2, <2>1, <2>2 DEF Threads
<1>6. CASE old.created /\ next = HumanNode /\ old.asked /\ HasAnswer(w)
  <2> DEFINE value == memory[w].resume.value
  <2>1. NextCheckpoint(w) = [old EXCEPT !.done = next, !.asked = FALSE, !.answer = value]
    BY <1>6 DEF NextCheckpoint
  <2>2. value \in Values /\ next >= HumanNode
    BY <1>2, <1>3, <1>6
  <2> HIDE DEF old, next, value
  <2>3. QED
    BY <1>1, <1>2, <2>1, <2>2 DEF Threads
<1>7. CASE old.created /\ next = HumanNode /\ ~(old.asked /\ HasAnswer(w))
  <2>1. NextCheckpoint(w) = [old EXCEPT !.asked = TRUE]
    BY <1>7 DEF NextCheckpoint
  <2>2. old.done + 1 = HumanNode
    BY <1>7
  <2> HIDE DEF old, next
  <2>3. QED
    BY <1>1, <2>1, <2>2 DEF Threads
<1>8. QED
  BY <1>4, <1>5, <1>6, <1>7

LEMMA NoCheckpointType == NoCheckpoint \in Threads
BY GraphAssumption DEF NoCheckpoint, Threads

LEMMA NoMemoryType == NoMemory \in Memories
BY DEF NoMemory, Memories

LEMMA StepTypes ==
  ASSUME IInv, RuntimeInv, [RuntimeNext]_runtimeVars
  PROVE  RuntimeTypeOK'
<1> USE DEF RuntimeInv, RuntimeTypeOK
<1>1. CASE UNCHANGED runtimeVars
  BY <1>1 DEF runtimeVars
<1>2. CASE \/ PollRecover \/ TimePasses
           \/ \E t \in Tasks : Submit(t) \/ \E value \in Values : HumanReplies(t, value)
  BY <1>2, Zenon DEF PollRecover, TimePasses, Submit, HumanReplies, Writes, Locals
<1>3. ASSUME NEW w \in Workers, NEW step \in Steps, Goto(w, step)
      PROVE  pc' \in [Workers -> Steps]
  BY <1>3 DEF Goto
<1>4. ASSUME NEW w \in Workers,
             \/ Beat(w) \/ ReleaseAtEnd(w)
      PROVE  RuntimeTypeOK'
  BY <1>4, Zenon DEF Beat, ReleaseAtEnd, Writes, Locals
<1>5. ASSUME NEW w \in Workers,
             \/ RunOnce(w) \/ RunNode(w) \/ EnterFence(w) \/ LoseLease(w) \/ Save(w) \/ Record(w)
             \/ Stop(w) \/ \E retryable \in BOOLEAN : Raise(w, retryable)
      PROVE  RuntimeTypeOK'
  <2>1. \E step \in Steps : Goto(w, step)
    BY <1>5 DEF RunOnce, RunNode, EnterFence, LoseLease, Save, Record, Stop, Raise, Steps, Executing
  <2>2. pc' \in [Workers -> Steps]
    BY <1>3, <2>1
  <2>3. writer' \in Workers \cup {Null} /\ UNCHANGED <<checkpoint, Locals>>
    BY <1>5 DEF RunOnce, RunNode, EnterFence, LoseLease, Save, Record, Stop, Raise, Writes, Locals
  <2>4. faults' \in Nat
    BY <1>5 DEF RunOnce, RunNode, EnterFence, LoseLease, Save, Record, Stop, Raise, Writes
  <2>5. QED
    BY <2>2, <2>3, <2>4 DEF Locals
<1>6. ASSUME NEW w \in Workers, Load(w)
      PROVE  RuntimeTypeOK'
  <2>1. pc[w] # "idle" /\ held[w] # Null
    BY <1>6 DEF Load, AttemptOK
  <2>2. task[TaskOf(w)].memory \in Memories
    BY <2>1, LeaseTask DEF IInv, TypeOK, Rows
  <2>3. memory' \in [Workers -> Memories] /\ Goto(w, "save")
    BY <1>6, <2>2 DEF Load
  <2>4. pc' \in [Workers -> Steps]
    BY <1>3, <2>3 DEF Steps, Executing
  <2>5. QED
    BY <1>6, <2>3, <2>4 DEF Load
<1>7. ASSUME NEW w \in Workers, Look(w)
      PROVE  RuntimeTypeOK'
  <2>1. pc[w] # "idle" /\ held[w] # Null
    BY <1>7 DEF Look, AttemptOK
  <2>2. checkpoint[TaskOf(w)] \in Threads
    BY <2>1, LeaseTask
  <2>3. snapshot' \in [Workers -> Threads] /\ \E step \in {"record", "node"} : Goto(w, step)
    BY <1>7, <2>2 DEF Look
  <2>4. pc' \in [Workers -> Steps]
    BY <1>3, <2>3 DEF Steps, Executing
  <2>5. QED
    BY <1>7, <2>3, <2>4 DEF Look
<1>8. ASSUME NEW w \in Workers, CommitCheckpoint(w)
      PROVE  RuntimeTypeOK'
  <2>1. NextCheckpoint(w) \in Threads
    BY <1>8, NextThread DEF CommitCheckpoint, AttemptOK, Invokes
  <2>2. /\ checkpoint' \in [Tasks -> Threads]
        /\ snapshot' \in [Workers -> Threads]
        /\ \E step \in {"record", "node"} : Goto(w, step)
    BY <1>8, <2>1 DEF CommitCheckpoint
  <2>3. pc' \in [Workers -> Steps]
    BY <1>3, <2>2 DEF Steps, Executing
  <2>4. QED
    BY <1>8, <2>2, <2>3 DEF CommitCheckpoint
<1>9. ASSUME NEW w \in Workers, EndAttempt(w) \/ Crash(w)
      PROVE  RuntimeTypeOK'
  <2>1. Goto(w, "idle") /\ UNCHANGED checkpoint /\ writer' \in {writer, Null} /\ faults' \in Nat
    BY <1>9 DEF EndAttempt, Crash
  <2>2. /\ memory' = [memory EXCEPT ![w] = NoMemory]
        /\ snapshot' = [snapshot EXCEPT ![w] = NoCheckpoint]
    BY <1>9 DEF EndAttempt, Crash
  <2>3. memory' \in [Workers -> Memories] /\ snapshot' \in [Workers -> Threads]
    BY <2>2, NoMemoryType, NoCheckpointType
  <2>4. pc' \in [Workers -> Steps]
    BY <1>3, <2>1 DEF Steps
  <2>5. QED
    BY <2>1, <2>3, <2>4
<1>10. QED
  BY <1>1, <1>2, <1>4, <1>5, <1>6, <1>7, <1>8, <1>9, Zenon DEF RuntimeNext, Attempt

-----------------------------------------------------------------------------
(* Rows that a transaction writes *)

LEMMA WrittenRow ==
  ASSUME IInv, NEW t \in Tasks, NEW new, task' = [task EXCEPT ![t] = new]
  PROVE  task'[t] = new /\ \A u \in Tasks \ {t} : SameRow(u)
BY DEF IInv, TypeOK, SameRow

LEMMA UnwrittenRows ==
  ASSUME UNCHANGED task
  PROVE  \A t \in Tasks : SameRow(t)
BY DEF SameRow

\* fail and release give the row up; the reply stays.
LEMMA GivenUpRow ==
  ASSUME IInv, NEW w \in Workers, Release(w) \/ \E retryable \in BOOLEAN : Fail(w, retryable)
  PROVE  /\ TaskOf(w) \in Tasks
         /\ task'[TaskOf(w)].worker_id = Null
         /\ task'[TaskOf(w)].status \in {"READY", "WAITING_RETRY", "FAILED"}
         /\ task'[TaskOf(w)].memory.resume = task[TaskOf(w)].memory.resume
         /\ \A u \in Tasks \ {TaskOf(w)} : SameRow(u)
<1> DEFINE t == TaskOf(w)
           row == task[t]
<1>1. t \in Tasks /\ row \in Rows
  BY FencedRow DEF Release, Fail, TaskOf
<1> DEFINE Given(old, status) ==
             /\ task' = [task EXCEPT ![t] = Finished(old, status)]
             /\ old.memory.resume = row.memory.resume
<1>2. \E old \in Rows, status \in {"READY", "WAITING_RETRY", "FAILED"} : Given(old, status)
  <2>1. CASE Release(w)
    <3> DEFINE old == [row EXCEPT !.memory.continuation = TRUE]
    <3>1. old \in Rows /\ old.memory.resume = row.memory.resume
      BY <1>1 DEF Rows, Memories
    <3>2. task' = [task EXCEPT ![t] = Finished(old, "READY")]
      BY <2>1 DEF Release, TaskOf
    <3>3. QED
      BY <3>1, <3>2
  <2>2. ASSUME NEW retryable \in BOOLEAN, Fail(w, retryable)
        PROVE  \E old \in Rows, status \in {"READY", "WAITING_RETRY", "FAILED"} : Given(old, status)
    <3>1. CASE retryable /\ row.attempt_count < MaxAttempts[t]
      <4>1. PICK delay \in RetryDelay(row.attempt_count) :
              task' = [task EXCEPT ![t] =
                         Finished([row EXCEPT !.next_run_at = delay], "WAITING_RETRY")]
        BY <2>2, <3>1 DEF Fail, TaskOf
      <4>2. delay \in Nat
        BY <1>1, RetryDelayType DEF Rows
      <4> DEFINE old == [row EXCEPT !.next_run_at = delay]
      <4>3. old \in Rows /\ old.memory = row.memory
        BY <1>1, <4>2 DEF Rows, Countdowns
      <4>4. QED
        BY <4>1, <4>3
    <3>2. CASE ~(retryable /\ row.attempt_count < MaxAttempts[t])
      BY <1>1, <2>2, <3>2 DEF Fail, TaskOf
    <3>3. QED
      BY <3>1, <3>2
  <2>3. QED
    BY <2>1, <2>2
<1>3. PICK old \in Rows, status \in {"READY", "WAITING_RETRY", "FAILED"} : Given(old, status)
  BY <1>2
<1>4. status \in Statuses
  BY <1>3 DEF Statuses, Terminal
<1> DEFINE new == Finished(old, status)
<1>5. new.status = status /\ new.worker_id = Null /\ new.memory = old.memory
  BY <1>4, FinishedFields
<1> HIDE DEF new
<1>6. task'[t] = new /\ \A u \in Tasks \ {t} : SameRow(u)
  BY <1>1, <1>3, WrittenRow DEF new
<1> HIDE DEF t
<1>7. QED
  BY <1>1, <1>3, <1>5, <1>6 DEF t

\* Recovery likewise, for every row that it takes.
LEMMA RecoveredRow ==
  ASSUME IInv, Recover, NEW t \in Tasks
  PROVE  \/ SameRow(t)
         \/ /\ task'[t].worker_id = Null
            /\ task'[t].status \in {"READY", "FAILED"}
            /\ task'[t].memory.resume = task[t].memory.resume
<1>1. task[t] \in Rows
  BY DEF IInv, TypeOK
<1>2. CASE Expired(task[t]) \/ RetryDue(task[t])
  <2> DEFINE old == [task[t] EXCEPT !.next_run_at = NoTime]
             status == IF task[t].attempt_count >= MaxAttempts[t] THEN "FAILED" ELSE "READY"
  <2>1. task'[t] = Finished(old, status)
    BY <1>2 DEF Recover, Recovered
  <2>2. old \in Rows /\ old.memory = task[t].memory
    BY <1>1 DEF Rows, Countdowns
  <2>3. status \in {"READY", "FAILED"} /\ status \in Statuses
    BY DEF Statuses, Terminal
  <2> HIDE DEF old, status
  <2>4. QED
    BY <2>1, <2>2, <2>3, FinishedFields
<1>3. CASE ~(Expired(task[t]) \/ RetryDue(task[t]))
  BY <1>3 DEF Recover, SameRow
<1>4. QED
  BY <1>2, <1>3

\* A claim, which never finds a row exhausted (ClaimIInv), hands out a new token.
LEMMA ClaimedRow ==
  ASSUME IInv, NEW w \in Workers, Claim(w)
  PROVE  \E t \in Tasks :
           /\ task'[t].status = "ACTIVE"
           /\ task'[t].memory.resume = task[t].memory.resume
           /\ NewOwner(t)
           /\ \A u \in Tasks \ {t} : SameRow(u)
<1>1. PICK t \in Tasks, owner \in Owners :
        FreshOwner(owner) /\ task' = [task EXCEPT ![t] = Claimed(task[t], owner)]
  BY ClaimIInv
<1>2. task[t] \in Rows
  BY DEF IInv, TypeOK
<1>3. /\ Claimed(task[t], owner).status = "ACTIVE"
      /\ Claimed(task[t], owner).worker_id = owner
      /\ Claimed(task[t], owner).memory.resume = task[t].memory.resume
  BY <1>2, ClaimedFields
<1>4. task'[t] = Claimed(task[t], owner) /\ \A u \in Tasks \ {t} : SameRow(u)
  BY <1>1, WrittenRow
<1>5. QED
  BY <1>1, <1>3, <1>4 DEF NewOwner

LEMMA HeldByClaim ==
  ASSUME NEW w \in Workers, TypeOK, TypeOK', Claim(w)
  PROVE  held[w] = Null /\ \A v \in Workers \ {w} : held'[v] = held[v]
BY DEF Claim, TypeOK

LEMMA BeatenRows ==
  ASSUME IInv, NEW w \in Workers, Heartbeat(w)
  PROVE  \A t \in Tasks : SameRow(t)
<1>1. TaskOf(w) \in Tasks /\ task[TaskOf(w)] \in Rows
  BY FencedRow DEF Heartbeat, TaskOf
<1> DEFINE new == [task[TaskOf(w)] EXCEPT !.lease_expires_at = LeaseSeconds]
<1>2. task' = [task EXCEPT ![TaskOf(w)] = new]
  BY DEF Heartbeat, TaskOf
<1>3. /\ new.status = task[TaskOf(w)].status /\ new.worker_id = task[TaskOf(w)].worker_id
      /\ new.memory = task[TaskOf(w)].memory
  BY <1>1 DEF Rows
<1> HIDE DEF new
<1>4. QED
  BY <1>1, <1>2, <1>3, WrittenRow DEF SameRow

\* The memory of the row changes; its status and owner stay.
LEMMA SavedRow ==
  ASSUME IInv, NEW w \in Workers, NEW m \in Memories, SaveMemory(w, m)
  PROVE  /\ TaskOf(w) \in Tasks /\ Owns(w)
         /\ task'[TaskOf(w)] = [task[TaskOf(w)] EXCEPT !.memory = m]
         /\ \A u \in Tasks \ {TaskOf(w)} : SameRow(u)
<1>1. TaskOf(w) \in Tasks /\ Owns(w)
  BY FencedRow DEF SaveMemory, TaskOf, Owns, Fenced
<1> DEFINE new == [task[TaskOf(w)] EXCEPT !.memory = m]
<1>2. task' = [task EXCEPT ![TaskOf(w)] = new]
  BY DEF SaveMemory, TaskOf
<1> HIDE DEF new
<1>3. task'[TaskOf(w)] = new /\ \A u \in Tasks \ {TaskOf(w)} : SameRow(u)
  BY <1>1, <1>2, WrittenRow
<1>4. QED
  BY <1>1, <1>3 DEF new

LEMMA CompletedRow ==
  ASSUME IInv, NEW w \in Workers, NEW m \in Memories, NEW waiting \in BOOLEAN,
         Complete(w, m, waiting)
  PROVE  /\ TaskOf(w) \in Tasks /\ Owns(w)
         /\ task'[TaskOf(w)].status = IF waiting THEN "WAITING_HUMAN" ELSE "SUCCEEDED"
         /\ task'[TaskOf(w)].worker_id = Null
         /\ task'[TaskOf(w)].memory = m
         /\ \A u \in Tasks \ {TaskOf(w)} : SameRow(u)
<1>1. TaskOf(w) \in Tasks /\ Owns(w) /\ task[TaskOf(w)] \in Rows
  BY FencedRow DEF Complete, TaskOf, Owns, Fenced
<1> DEFINE old == [task[TaskOf(w)] EXCEPT !.memory = m]
           status == IF waiting THEN "WAITING_HUMAN" ELSE "SUCCEEDED"
           new == Finished(old, status)
<1>2. old \in Rows /\ old.memory = m
  BY <1>1 DEF Rows
<1>3. status \in Statuses
  BY DEF Statuses, Terminal
<1>4. task' = [task EXCEPT ![TaskOf(w)] = new]
  BY DEF Complete, TaskOf
<1> HIDE DEF old, status
<1>5. new.status = status /\ new.worker_id = Null /\ new.memory = m
  BY <1>2, <1>3, FinishedFields
<1> HIDE DEF new
<1>6. task'[TaskOf(w)] = new /\ \A u \in Tasks \ {TaskOf(w)} : SameRow(u)
  BY <1>1, <1>4, WrittenRow
<1>7. QED
  BY <1>1, <1>5, <1>6 DEF status

-----------------------------------------------------------------------------
(* The invariant of the runtime *)

LEMMA RuntimeInitInv == RuntimeInit => IInv /\ RuntimeInv
<1> SUFFICES ASSUME RuntimeInit PROVE IInv /\ RuntimeInv
  OBVIOUS
<1>1. IInv
  BY InitIInv DEF RuntimeInit
<1>2. RuntimeTypeOK
  BY NoCheckpointType, NoMemoryType, FaultsAssumption DEF RuntimeInit, RuntimeTypeOK, Steps
<1>3. \A w \in Workers : held[w] = Null /\ pc[w] = "idle"
  BY DEF RuntimeInit, Init
<1>4. WriterCommits
  BY <1>3, WorkersAssumption DEF RuntimeInit, WriterCommits
<1>5. \A w \in Workers : AttemptOK(w)
  BY <1>3 DEF AttemptOK, Remembers, Invokes
<1>6. \A t \in Tasks : TaskOK(t)
  BY DEF TaskOK, RuntimeInit, Init, NoRow, NoCheckpoint
<1>7. QED
  BY <1>1, <1>2, <1>4, <1>5, <1>6 DEF RuntimeInv

\* Steps of the environment: no attempt advances.
LEMMA EnvironmentInv ==
  ASSUME IInv, RuntimeInv, RuntimeTypeOK', UNCHANGED <<held, checkpoint, writer, pc, memory, snapshot>>,
         \/ writer = Null /\ \A t \in Tasks : TaskOK(t)' /\ (SameRow(t) \/ NewOwner(t))
         \/ \A t \in Tasks : SameRow(t)
  PROVE  RuntimeInv'
<1>1. \A t \in Tasks : TaskOK(t)' /\ (SameRow(t) \/ NewOwner(t))
  BY TaskKept DEF RuntimeInv
<1>2. \A w \in Workers : AttemptOK(w)'
  BY <1>1, AttemptKept DEF RuntimeInv
<1>3. WriterCommits'
  <2>1. CASE writer = Null
    BY <2>1, WriterFree DEF RuntimeInv
  <2>2. CASE \A t \in Tasks : SameRow(t)
    BY <2>2, WriterKept DEF RuntimeInv
  <2>3. QED
    BY <2>1, <2>2
<1>4. QED
  BY <1>1, <1>2, <1>3 DEF RuntimeInv

LEMMA SubmitInv ==
  ASSUME IInv, RuntimeInv, RuntimeTypeOK', NEW t \in Tasks, Submit(t)
  PROVE  RuntimeInv'
<1>1. task[t].status = "ABSENT" /\ task' = [task EXCEPT ![t] = Created("READY", {})]
  BY DEF Submit, Enqueue
<1>2. Created("READY", {}).status = "READY" /\ Created("READY", {}).worker_id = Null
  BY DEF Created, NoRow
<1>3. task'[t] = Created("READY", {}) /\ \A u \in Tasks \ {t} : SameRow(u)
  BY <1>1, WrittenRow
<1>4. UNCHANGED <<held, checkpoint, writer, pc, memory, snapshot>> /\ writer = Null
  BY DEF Submit, Enqueue, Writes, Locals
<1>5. TaskOK(t)' /\ NewOwner(t)
  BY <1>1, <1>2, <1>3, <1>4 DEF RuntimeInv, TaskOK, NewOwner
<1>6. \A u \in Tasks : TaskOK(u)' /\ (SameRow(u) \/ NewOwner(u))
  BY <1>3, <1>4, <1>5, TaskKept DEF RuntimeInv
<1>7. QED
  BY <1>4, <1>6, EnvironmentInv

\* A thread that asks has no answer yet, so a reply contradicts none.
LEMMA HumanRepliesInv ==
  ASSUME IInv, RuntimeInv, RuntimeTypeOK', NEW t \in Tasks, NEW value \in Values,
         HumanReplies(t, value)
  PROVE  RuntimeInv'
<1> DEFINE reply == [interrupt_id |-> Question, value |-> value]
           old == [task[t] EXCEPT !.memory.resume = reply, !.memory.continuation = TRUE]
<1>1. task[t].status = "WAITING_HUMAN" /\ task' = [task EXCEPT ![t] = Finished(old, "READY")]
  BY DEF HumanReplies, Resume, Resumed
<1>2. reply \in Replies /\ task[t] \in Rows
  BY GraphAssumption DEF Replies, IInv, TypeOK
<1> HIDE DEF reply
<1>3. old \in Rows
  BY <1>2 DEF Rows, Memories
<1> HIDE DEF old
<1>4. Finished(old, "READY").status = "READY" /\ Finished(old, "READY").worker_id = Null
  BY <1>3, FinishedFields DEF Statuses
<1>5. task'[t].status = "READY" /\ task'[t].worker_id = Null /\ \A u \in Tasks \ {t} : SameRow(u)
  BY <1>1, <1>4, WrittenRow
<1>6. UNCHANGED <<held, checkpoint, writer, pc, memory, snapshot>> /\ writer = Null
  BY DEF HumanReplies, Resume, Writes, Locals
<1>7. checkpoint[t].asked /\ checkpoint[t] \in Threads
  BY <1>1 DEF RuntimeInv, TaskOK, RuntimeTypeOK
<1>8. checkpoint[t].answer = Null
  BY <1>7, GraphAssumption DEF Threads
<1>9. TaskOK(t)' /\ NewOwner(t)
  BY <1>5, <1>6, <1>8 DEF TaskOK, NewOwner
<1>10. \A u \in Tasks : TaskOK(u)' /\ (SameRow(u) \/ NewOwner(u))
  BY <1>5, <1>6, <1>9, TaskKept DEF RuntimeInv
<1>11. QED
  BY <1>6, <1>10, EnvironmentInv

LEMMA PollRecoverInv ==
  ASSUME IInv, RuntimeInv, RuntimeTypeOK', PollRecover
  PROVE  RuntimeInv'
<1>1. UNCHANGED <<held, checkpoint, writer, pc, memory, snapshot>> /\ writer = Null
  BY DEF PollRecover, Recover, Writes, Locals
<1>2. ASSUME NEW t \in Tasks
      PROVE  TaskOK(t)' /\ (SameRow(t) \/ NewOwner(t))
  <2>1. CASE SameRow(t)
    BY <1>1, <2>1, TaskKept DEF RuntimeInv
  <2>2. CASE /\ task'[t].worker_id = Null
             /\ task'[t].status \in {"READY", "FAILED"}
             /\ task'[t].memory.resume = task[t].memory.resume
    BY <1>1, <2>2, TaskLeft DEF RuntimeInv, NewOwner
  <2>3. QED
    BY <2>1, <2>2, RecoveredRow DEF PollRecover
<1>3. QED
  BY <1>1, <1>2, EnvironmentInv

LEMMA TimePassesInv ==
  ASSUME IInv, RuntimeInv, RuntimeTypeOK', TimePasses
  PROVE  RuntimeInv'
<1>1. \A t \in Tasks : SameRow(t)
  BY OlderFields DEF TimePasses, Tick, SameRow, IInv, TypeOK
<1>2. QED
  BY <1>1, EnvironmentInv DEF TimePasses, Tick, Locals

\* Steps of an attempt: the other ones keep what they have.
LEMMA WorkerInv ==
  ASSUME IInv, RuntimeInv, RuntimeTypeOK', NEW w \in Workers,
         \A v \in Workers \ {w} : /\ held'[v] = held[v] /\ pc'[v] = pc[v]
                                  /\ memory'[v] = memory[v] /\ snapshot'[v] = snapshot[v],
         \A t \in Tasks : TaskOK(t)' /\ (SameRow(t) \/ NewOwner(t)),
         \A t \in Tasks : checkpoint'[t] = checkpoint[t] \/ (Owns(w) /\ TaskOf(w) = t),
         AttemptOK(w)', WriterCommits'
  PROVE  RuntimeInv'
<1>1. ASSUME NEW v \in Workers \ {w}
      PROVE  AttemptOK(v)'
  <2>1. \A t \in Tasks : Owns(v) /\ TaskOf(v) = t => checkpoint'[t] = checkpoint[t]
    BY SoleOwner DEF TaskOf
  <2>2. QED
    BY <2>1, AttemptKept DEF RuntimeInv
<1>2. QED
  BY <1>1 DEF RuntimeInv

\* Steps that touch neither database.
LEMMA QuietInv ==
  ASSUME IInv, RuntimeInv, RuntimeTypeOK', NEW w \in Workers, UNCHANGED <<task, checkpoint>>,
         \A v \in Workers \ {w} : /\ held'[v] = held[v] /\ pc'[v] = pc[v]
                                  /\ memory'[v] = memory[v] /\ snapshot'[v] = snapshot[v],
         AttemptOK(w)', WriterCommits'
  PROVE  RuntimeInv'
<1>1. \A t \in Tasks : TaskOK(t)' /\ (SameRow(t) \/ NewOwner(t))
  BY TaskKept, UnwrittenRows DEF RuntimeInv
<1>2. QED
  BY <1>1, WorkerInv

LEMMA GotoStep ==
  ASSUME RuntimeInv, NEW w \in Workers, NEW step, Goto(w, step)
  PROVE  pc'[w] = step /\ \A v \in Workers \ {w} : pc'[v] = pc[v]
BY DEF RuntimeInv, RuntimeTypeOK, Goto

LEMMA LoadInv ==
  ASSUME IInv, RuntimeInv, RuntimeTypeOK', NEW w \in Workers, Load(w)
  PROVE  RuntimeInv'
<1>1. pc[w] = "load" /\ UNCHANGED <<task, held, checkpoint, writer, snapshot>>
  BY DEF Load, queueVars
<1>2. pc'[w] = "save" /\ \A v \in Workers \ {w} : pc'[v] = pc[v]
  BY GotoStep DEF Load
<1>3. memory'[w] = task[TaskOf(w)].memory /\ \A v \in Workers \ {w} : memory'[v] = memory[v]
  BY DEF Load, RuntimeInv, RuntimeTypeOK
<1>4. AttemptOK(w)'
  BY <1>1, <1>2, <1>3 DEF RuntimeInv, AttemptOK, Invokes, TaskOf
<1>5. WriterCommits'
  BY <1>1, <1>2, WriterKept, UnwrittenRows DEF RuntimeInv
<1>6. QED
  BY <1>1, <1>2, <1>3, <1>4, <1>5, QuietInv

LEMMA LookInv ==
  ASSUME IInv, RuntimeInv, RuntimeTypeOK', NEW w \in Workers, Look(w)
  PROVE  RuntimeInv'
<1> DEFINE found == checkpoint[TaskOf(w)]
<1>1. pc[w] = "look" /\ UNCHANGED <<task, held, checkpoint, writer, memory>>
  BY DEF Look, queueVars
<1>2. PICK step \in {"record", "node"} :
        Goto(w, step) /\ (step = "record" <=> NothingToRun(w, found))
  BY DEF Look
<1>3. pc'[w] = step /\ \A v \in Workers \ {w} : pc'[v] = pc[v]
  BY <1>2, GotoStep
<1>4. snapshot'[w] = found /\ \A v \in Workers \ {w} : snapshot'[v] = snapshot[v]
  BY DEF Look, RuntimeInv, RuntimeTypeOK
<1>5. AttemptOK(w)'
  <2>1. held'[w] = Null <=> pc'[w] = "idle"
    BY <1>1, <1>2, <1>3 DEF RuntimeInv, AttemptOK
  <2>2. Owns(w)' => memory'[w] = task'[TaskOf(w)].memory /\ snapshot'[w] = checkpoint'[TaskOf(w)]
    BY <1>1, <1>4 DEF RuntimeInv, AttemptOK, Remembers, Owns, TaskOf
  <2>3. step = "node" => snapshot'[w].done # Nodes
    BY <1>2, <1>4 DEF NothingToRun
  <2>4. step = "record" => snapshot'[w].asked \/ snapshot'[w].done = Nodes
    BY <1>2, <1>4 DEF NothingToRun
  <2>5. TaskOf(w)' = TaskOf(w)
    BY <1>1 DEF TaskOf
  <2>6. QED
    BY <1>2, <1>3, <2>1, <2>2, <2>3, <2>4, <2>5 DEF AttemptOK, Invokes
<1>6. WriterCommits'
  BY <1>1, <1>2, <1>3, WriterKept, UnwrittenRows DEF RuntimeInv
<1>7. QED
  BY <1>1, <1>3, <1>4, <1>5, <1>6, QuietInv

LEMMA RunNodeInv ==
  ASSUME IInv, RuntimeInv, RuntimeTypeOK', NEW w \in Workers, RunNode(w)
  PROVE  RuntimeInv'
<1>1. pc[w] = "node" /\ UNCHANGED <<task, held, checkpoint, writer, memory, snapshot>>
  BY DEF RunNode, queueVars, Locals
<1>2. pc'[w] = "fence" /\ \A v \in Workers \ {w} : pc'[v] = pc[v]
  BY GotoStep DEF RunNode
<1>3. AttemptOK(w)'
  BY <1>1, <1>2 DEF RuntimeInv, AttemptOK, Invokes, Remembers, TaskOf, Owns
<1>4. WriterCommits'
  BY <1>1, <1>2, WriterKept, UnwrittenRows DEF RuntimeInv
<1>5. QED
  BY <1>1, <1>2, <1>3, <1>4, QuietInv

\* The reservation is free, the lease is valid: the worker alone owns the row
\* until it leaves the fence.
LEMMA EnterFenceInv ==
  ASSUME IInv, RuntimeInv, RuntimeTypeOK', NEW w \in Workers, EnterFence(w)
  PROVE  RuntimeInv'
<1>1. /\ pc[w] = "fence" /\ writer = Null /\ writer' = w
      /\ UNCHANGED <<task, held, checkpoint, memory, snapshot>>
  BY DEF EnterFence, queueVars, Locals
<1>2. pc'[w] = "commit" /\ \A v \in Workers \ {w} : pc'[v] = pc[v]
  BY GotoStep DEF EnterFence
<1>3. Owns(w)'
  BY <1>1 DEF EnterFence, Fenced, Owns, TaskOf
<1>4. AttemptOK(w)'
  BY <1>1, <1>2 DEF RuntimeInv, AttemptOK, Invokes, Remembers, TaskOf, Owns
<1>5. WriterCommits'
  BY <1>1, <1>2, <1>3, WorkersAssumption DEF RuntimeInv, WriterCommits
<1>6. QED
  BY <1>1, <1>2, <1>4, <1>5, QuietInv

LEMMA EndingInv ==
  ASSUME IInv, RuntimeInv, RuntimeTypeOK', NEW w \in Workers, LoseLease(w) \/ Stop(w)
  PROVE  RuntimeInv'
<1>1. pc[w] \in Executing /\ UNCHANGED <<task, held, checkpoint, writer, memory, snapshot>>
  BY DEF LoseLease, Stop, queueVars, Locals
<1>2. pc'[w] = "ending" /\ \A v \in Workers \ {w} : pc'[v] = pc[v]
  BY GotoStep DEF LoseLease, Stop
<1>3. AttemptOK(w)'
  BY <1>1, <1>2 DEF RuntimeInv, AttemptOK, Invokes, Remembers, Executing
<1>4. WriterCommits'
  BY <1>1, <1>2, WriterKept, UnwrittenRows DEF RuntimeInv, Executing
<1>5. QED
  BY <1>1, <1>2, <1>3, <1>4, QuietInv

\* The attempt is gone; a crash also drops the reservation.
LEMMA GoneInv ==
  ASSUME IInv, RuntimeInv, RuntimeTypeOK', NEW w \in Workers, EndAttempt(w) \/ Crash(w)
  PROVE  RuntimeInv'
<1>1. /\ UNCHANGED <<task, checkpoint>>
      /\ memory' = [memory EXCEPT ![w] = NoMemory]
      /\ snapshot' = [snapshot EXCEPT ![w] = NoCheckpoint]
      /\ held' = [held EXCEPT ![w] = Null]
  BY DEF EndAttempt, Crash, Forget
<1>2. pc'[w] = "idle" /\ \A v \in Workers \ {w} : pc'[v] = pc[v]
  BY GotoStep DEF EndAttempt, Crash
<1>3. /\ held'[w] = Null
      /\ \A v \in Workers \ {w} : /\ held'[v] = held[v] /\ memory'[v] = memory[v]
                                  /\ snapshot'[v] = snapshot[v]
  BY <1>1 DEF IInv, TypeOK, RuntimeInv, RuntimeTypeOK
<1>4. AttemptOK(w)'
  BY <1>2, <1>3 DEF AttemptOK, Invokes, Remembers
<1>5. WriterCommits'
  <2>1. CASE EndAttempt(w)
    BY <1>2, <2>1, WriterFree DEF EndAttempt, RuntimeInv
  <2>2. CASE Crash(w)
    <3>1. writer' = IF writer = w THEN Null ELSE writer
      BY <2>2 DEF Crash
    <3>2. ASSUME NEW v \in Workers \ {w}
          PROVE  (writer' = v <=> pc'[v] = "commit") /\ (pc'[v] = "commit" => Owns(v)')
      BY <1>1, <1>2, <1>3, <3>1, WorkersAssumption DEF RuntimeInv, WriterCommits, Owns, TaskOf
    <3>3. writer' # w
      BY <3>1, WorkersAssumption
    <3>4. QED
      BY <1>2, <3>2, <3>3 DEF WriterCommits
  <2>3. QED
    BY <2>1, <2>2
<1>6. QED
  BY <1>1, <1>2, <1>3, <1>4, <1>5, QuietInv

\* Queue writes by an attempt: no commit is in flight, and only the worker's own
\* place in its attempt changes.
LEMMA WriteInv ==
  ASSUME IInv, RuntimeInv, RuntimeTypeOK', NEW w \in Workers, NEW step \in Steps \ {"commit"},
         Writes, UNCHANGED Locals, Goto(w, step),
         \A v \in Workers \ {w} : held'[v] = held[v],
         \A t \in Tasks : TaskOK(t)' /\ (SameRow(t) \/ NewOwner(t)),
         AttemptOK(w)'
  PROVE  RuntimeInv'
<1>1. UNCHANGED <<checkpoint, writer, memory, snapshot>> /\ writer = Null
  BY DEF Writes, Locals
<1>2. pc'[w] = step /\ \A v \in Workers \ {w} : pc'[v] = pc[v]
  BY GotoStep
<1>3. WriterCommits'
  BY <1>1, <1>2, WriterFree DEF RuntimeInv
<1>4. QED
  BY <1>1, <1>2, <1>3, WorkerInv

LEMMA RunOnceInv ==
  ASSUME IInv, IInv', RuntimeInv, RuntimeTypeOK', NEW w \in Workers, RunOnce(w)
  PROVE  RuntimeInv'
<1>1. Claim(w) /\ Writes /\ UNCHANGED Locals
  BY DEF RunOnce
<1>2. PICK t \in Tasks :
        /\ task'[t].status = "ACTIVE"
        /\ task'[t].memory.resume = task[t].memory.resume
        /\ NewOwner(t)
        /\ \A u \in Tasks \ {t} : SameRow(u)
  BY <1>1, ClaimedRow
<1>3. \A v \in Workers \ {w} : held'[v] = held[v]
  BY <1>1, HeldByClaim DEF IInv
<1>4. checkpoint' = checkpoint
  BY <1>1 DEF Writes
<1>5. \A u \in Tasks : TaskOK(u)' /\ (SameRow(u) \/ NewOwner(u))
  BY <1>2, <1>4, TaskKept, TaskLeft DEF RuntimeInv
<1>6. PICK step \in {"idle", "load"} : Goto(w, step) /\ (step = "idle" <=> held'[w] = Null)
  BY DEF RunOnce
<1>7. pc'[w] = step
  BY <1>6, GotoStep
<1>8. AttemptOK(w)'
  BY <1>6, <1>7 DEF AttemptOK, Invokes, Remembers
<1>9. QED
  BY <1>1, <1>3, <1>5, <1>6, <1>8, WriteInv DEF Steps, Executing

LEMMA BeatInv ==
  ASSUME IInv, RuntimeInv, RuntimeTypeOK', NEW w \in Workers, Beat(w)
  PROVE  RuntimeInv'
<1>1. \A t \in Tasks : SameRow(t)
  BY BeatenRows DEF Beat
<1>2. QED
  BY <1>1, EnvironmentInv DEF Beat, Heartbeat, Writes, Locals

\* What an attempt writes back is what it read: the row has not changed.
LEMMA SaveInv ==
  ASSUME IInv, RuntimeInv, RuntimeTypeOK', NEW w \in Workers, Save(w)
  PROVE  RuntimeInv'
<1>1. pc[w] = "save" /\ SaveMemory(w, memory[w]) /\ Writes /\ UNCHANGED Locals /\ held' = held
  BY DEF Save, SaveMemory
<1>2. memory[w] \in Memories
  BY DEF RuntimeInv, RuntimeTypeOK
<1>3. /\ TaskOf(w) \in Tasks /\ Owns(w)
      /\ task'[TaskOf(w)] = [task[TaskOf(w)] EXCEPT !.memory = memory[w]]
      /\ \A u \in Tasks \ {TaskOf(w)} : SameRow(u)
  BY <1>1, <1>2, SavedRow
<1>4. memory[w] = task[TaskOf(w)].memory /\ task[TaskOf(w)] \in Rows
  BY <1>1, <1>3 DEF RuntimeInv, AttemptOK, Remembers, IInv, TypeOK
<1>5. SameRow(TaskOf(w))
  BY <1>3, <1>4 DEF SameRow, Rows
<1>6. \A u \in Tasks : SameRow(u) /\ TaskOK(u)'
  BY <1>1, <1>3, <1>5, TaskKept DEF RuntimeInv, Writes
<1>7. pc'[w] = "look"
  BY GotoStep DEF Save
<1>8. AttemptOK(w)'
  BY <1>1, <1>3, <1>4, <1>5, <1>7
     DEF RuntimeInv, AttemptOK, Remembers, Invokes, SameRow, Locals, TaskOf
<1>9. QED
  BY <1>1, <1>6, <1>8, WriteInv DEF Save, Steps, Executing

\* The row follows the thread as the attempt saw it, which is the thread.
LEMMA RecordInv ==
  ASSUME IInv, RuntimeInv, RuntimeTypeOK', NEW w \in Workers, Record(w)
  PROVE  RuntimeInv'
<1> DEFINE asked == snapshot[w].asked
           saved == [memory[w] EXCEPT !.interrupts = IF asked THEN {Question} ELSE {}]
<1>0. PICK t \in Tasks : t = TaskOf(w)
  BY FencedRow DEF Record, Complete, TaskOf
<1>1. /\ pc[w] = "record" /\ Complete(w, saved, asked) /\ held' = held
      /\ Writes /\ UNCHANGED Locals /\ Goto(w, "ending")
  BY DEF Record, Complete
<1>2. asked \in BOOLEAN /\ (IF asked THEN {Question} ELSE {}) \in SUBSET Interrupts
  BY GraphAssumption DEF RuntimeInv, RuntimeTypeOK, Threads
<1>3. memory[w] \in Memories
  BY DEF RuntimeInv, RuntimeTypeOK
<1>4. saved \in Memories
  BY <1>2, <1>3, MemoryType
<1>5. saved.resume = memory[w].resume /\ (asked => saved.interrupts = {Question})
  BY <1>3 DEF Memories
<1> HIDE DEF saved
<1>6. /\ Owns(w)
      /\ task'[t].status = IF asked THEN "WAITING_HUMAN" ELSE "SUCCEEDED"
      /\ task'[t].worker_id = Null
      /\ task'[t].memory = saved
      /\ \A u \in Tasks \ {t} : SameRow(u)
  BY <1>0, <1>1, <1>2, <1>4, CompletedRow
<1>7. /\ memory[w] = task[t].memory
      /\ snapshot[w] = checkpoint[t] /\ checkpoint' = checkpoint
      /\ snapshot[w].asked \/ snapshot[w].done = Nodes
  BY <1>0, <1>1, <1>6 DEF RuntimeInv, AttemptOK, Remembers, Invokes, Writes
<1>8. TaskOK(t)' /\ NewOwner(t)
  BY <1>2, <1>5, <1>6, <1>7 DEF RuntimeInv, TaskOK, NewOwner
<1>9. \A u \in Tasks : TaskOK(u)' /\ (SameRow(u) \/ NewOwner(u))
  BY <1>6, <1>7, <1>8, TaskKept DEF RuntimeInv
<1>10. pc'[w] = "ending"
  BY <1>1, GotoStep
<1>11. AttemptOK(w)'
  BY <1>1, <1>10 DEF RuntimeInv, AttemptOK, Remembers, Invokes
<1>12. QED
  BY <1>1, <1>9, <1>11, WriteInv DEF Steps

\* A failed or released row is nobody's: its attempt is ending.
LEMMA GiveUpInv ==
  ASSUME IInv, RuntimeInv, RuntimeTypeOK', NEW w \in Workers,
         ReleaseAtEnd(w) \/ \E retryable \in BOOLEAN : Raise(w, retryable)
  PROVE  RuntimeInv'
<1> DEFINE t == TaskOf(w)
<1>1. /\ Release(w) \/ \E retryable \in BOOLEAN : Fail(w, retryable)
      /\ Writes /\ UNCHANGED Locals /\ held' = held /\ pc[w] # "idle"
  BY DEF ReleaseAtEnd, Raise, Release, Fail, Executing
<1>2. Goto(w, "ending")
  BY DEF ReleaseAtEnd, Raise, Goto, RuntimeInv, RuntimeTypeOK
<1>3. /\ t \in Tasks
      /\ task'[t].worker_id = Null
      /\ task'[t].status \in {"READY", "WAITING_RETRY", "FAILED"}
      /\ task'[t].memory.resume = task[t].memory.resume
      /\ \A u \in Tasks \ {t} : SameRow(u)
  BY <1>1, GivenUpRow
<1>4. \A u \in Tasks : TaskOK(u)' /\ (SameRow(u) \/ NewOwner(u))
  BY <1>1, <1>3, TaskKept, TaskLeft DEF RuntimeInv, Writes, NewOwner
<1>5. pc'[w] = "ending"
  BY <1>2, GotoStep
<1>6. AttemptOK(w)'
  BY <1>1, <1>5 DEF RuntimeInv, AttemptOK, Remembers, Invokes
<1>7. QED
  BY <1>1, <1>2, <1>4, <1>6, WriteInv DEF Steps

\* The commit: the thread was read under the same ownership, and the answer it
\* takes is the reply in the row.
LEMMA CommitInv ==
  ASSUME IInv, RuntimeInv, RuntimeTypeOK', NEW w \in Workers, CommitCheckpoint(w)
  PROVE  RuntimeInv'
<1> DEFINE saved == NextCheckpoint(w)
<1>0. PICK t \in Tasks : t = TaskOf(w)
  BY LeaseTask DEF CommitCheckpoint, RuntimeInv, AttemptOK
<1>1. /\ pc[w] = "commit" /\ writer' = Null /\ UNCHANGED <<task, held, memory>>
      /\ checkpoint' = [checkpoint EXCEPT ![t] = saved]
      /\ snapshot' = [snapshot EXCEPT ![w] = saved]
  BY <1>0 DEF CommitCheckpoint, queueVars
<1>2. /\ Owns(w) /\ writer = w
      /\ snapshot[w] = checkpoint[t] /\ memory[w] = task[t].memory
      /\ snapshot[w].done # Nodes
  BY <1>0, <1>1 DEF RuntimeInv, WriterCommits, AttemptOK, Remembers, Invokes
<1>3. task[t].status = "ACTIVE"
  BY <1>0, <1>2, LeaseTask DEF Owns, TaskOf, IInv, RowOK
<1>4. /\ checkpoint'[t] = saved /\ \A u \in Tasks \ {t} : checkpoint'[u] = checkpoint[u]
      /\ snapshot'[w] = saved /\ \A v \in Workers \ {w} : snapshot'[v] = snapshot[v]
  BY <1>1, <1>3 DEF RuntimeInv, RuntimeTypeOK
<1>5. PICK step \in {"record", "node"} :
        Goto(w, step) /\ (step = "record" <=> saved.asked \/ saved.done = Nodes)
  BY DEF CommitCheckpoint
<1>6. pc'[w] = step /\ \A v \in Workers \ {w} : pc'[v] = pc[v]
  BY <1>5, GotoStep
<1>7. saved.answer # Null =>
        \/ saved.answer = checkpoint[t].answer
        \/ task[t].memory.resume = [interrupt_id |-> Question, value |-> saved.answer]
  <2>1. snapshot[w] \in Threads
    BY DEF RuntimeInv, RuntimeTypeOK
  <2>2. \/ saved.answer = snapshot[w].answer
        \/ HasAnswer(w) /\ saved.answer = memory[w].resume.value
    BY <2>1 DEF NextCheckpoint, Threads
  <2>3. HasAnswer(w) =>
          memory[w].resume = [interrupt_id |-> Question, value |-> memory[w].resume.value]
    BY DEF HasAnswer, RuntimeInv, RuntimeTypeOK, Memories, Replies
  <2> HIDE DEF saved
  <2>4. QED
    BY <1>2, <2>2, <2>3
<1> HIDE DEF saved
<1>8. TaskOK(t)'
  BY <1>1, <1>3, <1>4, <1>7 DEF RuntimeInv, TaskOK
<1>9. \A u \in Tasks : TaskOK(u)' /\ SameRow(u)
  BY <1>1, <1>4, <1>8, TaskKept, UnwrittenRows DEF RuntimeInv
<1>10. AttemptOK(w)'
  <2>1. TaskOf(w)' = t /\ held'[w] = held[w]
    BY <1>0, <1>1 DEF TaskOf
  <2>2. QED
    BY <1>1, <1>2, <1>4, <1>5, <1>6, <2>1 DEF RuntimeInv, AttemptOK, Invokes, Remembers
<1>11. WriterCommits'
  <2>1. \A v \in Workers : pc'[v] # "commit"
    BY <1>2, <1>5, <1>6 DEF RuntimeInv, WriterCommits
  <2>2. QED
    BY <1>1, <2>1, WorkersAssumption DEF WriterCommits
<1>12. QED
  BY <1>0, <1>1, <1>2, <1>4, <1>6, <1>9, <1>10, <1>11, WorkerInv

LEMMA RuntimeStepInv ==
  ASSUME IInv, RuntimeInv, [RuntimeNext]_runtimeVars
  PROVE  IInv' /\ RuntimeInv'
<1>1. IInv' /\ RuntimeTypeOK'
  BY StepConforms, NextIInv, StepTypes DEF RuntimeInv
<1>2. CASE UNCHANGED runtimeVars
  BY <1>1, <1>2, EnvironmentInv, UnwrittenRows DEF runtimeVars
<1>3. CASE RuntimeNext
  BY <1>1, <1>3, SubmitInv, HumanRepliesInv, PollRecoverInv, TimePassesInv, LoadInv, LookInv,
     RunNodeInv, EnterFenceInv, EndingInv, GoneInv, RunOnceInv, BeatInv, SaveInv, RecordInv,
     GiveUpInv, CommitInv, Zenon DEF RuntimeNext, Attempt
<1>4. QED
  BY <1>1, <1>2, <1>3

-----------------------------------------------------------------------------
(* Theorems *)

\* The invariant of the queue and that of the two databases hold at any number
\* of tasks, workers, nodes, crashes and lost leases.
THEOREM RuntimeInvariance == RuntimeSpec => [](IInv /\ RuntimeInv)
BY RuntimeInitInv, RuntimeStepInv, PTL DEF RuntimeSpec

\* A commit builds on the latest checkpoint of its thread.
THEOREM ProgressKept == RuntimeSpec => []NoLostProgress
<1>1. RuntimeInv => NoLostProgress
  BY DEF RuntimeInv, WriterCommits, AttemptOK, Invokes, NoLostProgress
<1>2. QED
  BY <1>1, RuntimeInvariance, PTL

\* The row is never ahead of the thread in the other database.
THEOREM RowsFollow == RuntimeSpec => []RowFollowsThread
<1>1. RuntimeInv => RowFollowsThread
  BY DEF RuntimeInv, TaskOK, RowFollowsThread
<1>2. QED
  BY <1>1, RuntimeInvariance, PTL

\* A graph goes on with the reply that the queue accepted, and no other.
THEOREM AnswersAccepted == RuntimeSpec => []AnswerWasAccepted
<1>1. RuntimeInv => AnswerWasAccepted
  BY DEF RuntimeInv, TaskOK, AnswerWasAccepted
<1>2. QED
  BY <1>1, RuntimeInvariance, PTL

\* Only the owner of the row advances the thread, by its own commit.
THEOREM OwnersCommit == RuntimeSpec => CheckpointByOwner
<1> DEFINE ByOwner == \A t \in Tasks : checkpoint'[t] # checkpoint[t] =>
             \E w \in Workers : /\ writer = w
                                /\ TaskOf(w) = t
                                /\ task[t].status = "ACTIVE"
                                /\ task[t].worker_id = held[w].worker_id
<1>1. IInv /\ RuntimeInv /\ [RuntimeNext]_runtimeVars => [ByOwner]_runtimeVars
  <2> SUFFICES ASSUME IInv, RuntimeInv, RuntimeNext, checkpoint' # checkpoint PROVE ByOwner
    BY DEF runtimeVars
  <2>1. PICK w \in Workers : CommitCheckpoint(w)
    BY Zenon DEF RuntimeNext, Attempt, Submit, HumanReplies, PollRecover, TimePasses, RunOnce, Load,
       Save, Look, RunNode, EnterFence, Record, LoseLease, ReleaseAtEnd, EndAttempt, Beat, Stop,
       Crash, Raise, Writes
  <2>2. pc[w] = "commit" /\ checkpoint' = [checkpoint EXCEPT ![TaskOf(w)] = NextCheckpoint(w)]
    BY <2>1 DEF CommitCheckpoint
  <2>3. writer = w /\ Owns(w)
    BY <2>2 DEF RuntimeInv, WriterCommits
  <2>4. task[TaskOf(w)].status = "ACTIVE"
    BY <2>3, LeaseTask DEF Owns, TaskOf, IInv, RowOK
  <2>5. \A t \in Tasks : checkpoint'[t] # checkpoint[t] => t = TaskOf(w)
    BY <2>2 DEF RuntimeInv, RuntimeTypeOK
  <2>6. QED
    BY <2>3, <2>4, <2>5 DEF Owns, TaskOf
<1>2. QED
  BY <1>1, RuntimeInvariance, PTL DEF RuntimeSpec, CheckpointByOwner
=============================================================================
