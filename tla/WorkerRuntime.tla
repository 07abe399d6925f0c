---------------------------- MODULE WorkerRuntime ----------------------------
(***************************************************************************)
(* Worker processes that run checkpointed graphs for queue tasks:          *)
(* orchestration/worker.py and checkpoints.py on top of TaskQueue.         *)
(*                                                                         *)
(* Two databases are involved.  The queue rows are in the main one; the    *)
(* graph's checkpoints are in another, written only while the worker holds *)
(* the main database's writer reservation with its lease validated         *)
(* (FencedSqliteSaver._fenced).  Nothing makes the two commits atomic: a   *)
(* process may die after a checkpoint and before the row says so.          *)
(*                                                                         *)
(* A graph is a line of nodes, one of which may ask a human.  The saver's  *)
(* library is external: a checkpoint is how many nodes are done, whether   *)
(* the next one has asked its question, and the answer it was given.       *)
(* Running a node and saving its result is one superstep.                  *)
(***************************************************************************)
EXTENDS TaskQueue

CONSTANTS
  Nodes,       \* number of nodes of the graph
  HumanNode,   \* the node that calls interrupt(), 0 if none does
  Question,    \* the id of its interrupt
  MaxFaults    \* bound: crashes and shutdowns in one behaviour

ASSUME GraphAssumption == Nodes \in Nat \ {0} /\ HumanNode \in 0 .. Nodes /\ Question \in Interrupts
ASSUME FaultsAssumption == MaxFaults \in Nat
ASSUME WorkersAssumption == Null \notin Workers

\* A thread: the nodes it has done, whether it asks, and the answer it was given.
NoCheckpoint == [created |-> FALSE, done |-> 0, asked |-> FALSE, answer |-> Null]

VARIABLES
  checkpoint,  \* per task, the latest checkpoint of its thread
  writer,      \* the worker inside a checkpoint commit, holding the main writer reservation
  pc,          \* where the worker's attempt is
  memory,      \* _execute's copy of the task memory
  snapshot,    \* _execute's copy of the checkpoint
  faults

runtimeVars == <<task, held, checkpoint, writer, pc, memory, snapshot, faults>>

\* idle: between attempts.  load, save, look, node, fence, record: _execute up
\* to the next database access.  commit: inside _fenced.  ending: the finally
\* clause of _attempt.
Executing == {"load", "save", "look", "node", "fence", "record"}

TaskOf(w) == held[w].task_id
Goto(w, step) == pc' = [pc EXCEPT ![w] = step]

\* The reply in the memory that _execute read answers the question asked.
HasAnswer(w) == memory[w].resume # Null /\ memory[w].resume.interrupt_id = Question

\* The checkpoint that the next superstep saves: the graph's input, then one
\* node after the other.  The human node first interrupts; it runs again from
\* its start when a reply is there.
NextCheckpoint(w) ==
  LET old == snapshot[w]
      next == old.done + 1
  IN  IF ~old.created THEN [old EXCEPT !.created = TRUE]
      ELSE IF next # HumanNode THEN [old EXCEPT !.done = next]
      ELSE IF old.asked /\ HasAnswer(w)
           THEN [old EXCEPT !.done = next, !.asked = FALSE, !.answer = memory[w].resume.value]
           ELSE [old EXCEPT !.asked = TRUE]

-----------------------------------------------------------------------------
RuntimeInit ==
  /\ Init
  /\ checkpoint = [t \in Tasks |-> NoCheckpoint]
  /\ writer = Null
  /\ pc = [w \in Workers |-> "idle"]
  /\ memory = [w \in Workers |-> NoMemory]
  /\ snapshot = [w \in Workers |-> NoCheckpoint]
  /\ faults = 0

\* A queue write waits for the writer reservation.
Writes == writer = Null /\ UNCHANGED <<checkpoint, writer, faults>>
Locals == <<memory, snapshot>>

\* The environment: an operator enqueues, a human answers, time passes.
Submit(t) == Enqueue(t) /\ Writes /\ UNCHANGED <<pc, Locals>>

HumanReplies(t, value) ==
  /\ Resume(t, [interrupt_id |-> Question, value |-> value])
  /\ Writes /\ UNCHANGED <<pc, Locals>>

TimePasses == Tick /\ UNCHANGED <<checkpoint, writer, pc, Locals, faults>>

\* Mutant: recovery does not wait for the writer reservation.
RecoverDuringCommit ==
  /\ \E w \in Workers : pc[w] = "idle"
  /\ Recover
  /\ UNCHANGED <<checkpoint, writer, faults, pc, Locals>>

\* run: recover, then run_once.
PollRecover ==
  /\ \E w \in Workers : pc[w] = "idle"
  /\ Recover
  /\ Writes /\ UNCHANGED <<pc, Locals>>

RunOnce(w) ==
  /\ pc[w] = "idle"
  /\ Claim(w)
  /\ Goto(w, IF held'[w] = Null THEN "idle" ELSE "load")
  /\ Writes /\ UNCHANGED Locals

\* _execute: read the memory, outside any fence ...
Load(w) ==
  /\ pc[w] = "load"
  /\ memory' = [memory EXCEPT ![w] = task[TaskOf(w)].memory]
  /\ Goto(w, "save")
  /\ UNCHANGED <<queueVars, checkpoint, writer, snapshot, faults>>

\* Mutant: the memory is written back without the reply.
SaveWithoutReply(w) ==
  /\ pc[w] = "save"
  /\ SaveMemory(w, [memory[w] EXCEPT !.resume = Null])
  /\ Goto(w, "look")
  /\ Writes /\ UNCHANGED Locals

\* ... and write it back with the workflow version.
Save(w) ==
  /\ pc[w] = "save"
  /\ SaveMemory(w, memory[w])
  /\ Goto(w, "look")
  /\ Writes /\ UNCHANGED Locals

NothingToRun(w, found) == found.done = Nodes \/ (found.asked /\ ~HasAnswer(w))

\* aget_state: a thread whose question has no reply, or that is at its end, is
\* only recorded; any other one is invoked.
Look(w) ==
  /\ pc[w] = "look"
  /\ LET found == checkpoint[TaskOf(w)]
     IN  /\ snapshot' = [snapshot EXCEPT ![w] = found]
         /\ Goto(w, IF NothingToRun(w, found) THEN "record" ELSE "node")
  /\ UNCHANGED <<queueVars, checkpoint, writer, memory, faults>>

\* ainvoke: a node computes, without effects.
RunNode(w) ==
  /\ pc[w] = "node"
  /\ Goto(w, "fence")
  /\ UNCHANGED <<queueVars, checkpoint, writer, Locals, faults>>

\* Mutant: the lease is not validated.
EnterUnfenced(w) ==
  /\ pc[w] = "fence"
  /\ writer = Null
  /\ writer' = w
  /\ Goto(w, "commit")
  /\ UNCHANGED <<queueVars, checkpoint, Locals, faults>>

\* _fenced: take the writer reservation and validate the lease ...
EnterFence(w) ==
  /\ pc[w] = "fence"
  /\ writer = Null
  /\ Fenced(held[w])
  /\ writer' = w
  /\ Goto(w, "commit")
  /\ UNCHANGED <<queueVars, checkpoint, Locals, faults>>

\* ... commit the checkpoint in the other database, and leave the fence.
CommitCheckpoint(w) ==
  /\ pc[w] = "commit"
  /\ LET saved == NextCheckpoint(w)
     IN  /\ checkpoint' = [checkpoint EXCEPT ![TaskOf(w)] = saved]
         /\ snapshot' = [snapshot EXCEPT ![w] = saved]
         /\ Goto(w, IF saved.asked \/ saved.done = Nodes THEN "record" ELSE "node")
  /\ writer' = Null
  /\ UNCHANGED <<queueVars, memory, faults>>

\* Mutant: a thread that has asked is recorded as finished.
RecordFinished(w) ==
  /\ pc[w] = "record"
  /\ Complete(w, memory[w], FALSE)
  /\ Goto(w, "ending")
  /\ Writes /\ UNCHANGED Locals

\* _record: the row follows the checkpoint.
Record(w) ==
  /\ pc[w] = "record"
  /\ LET asked == snapshot[w].asked
     IN  Complete(w, [memory[w] EXCEPT !.interrupts = IF asked THEN {Question} ELSE {}], asked)
  /\ Goto(w, "ending")
  /\ Writes /\ UNCHANGED Locals

\* Anything in _execute or the heartbeat beside it raises - a read of the memory,
\* the version check, a node, a locked database, the saver: _attempt cancels the
\* execution (a commit in flight is drained first) and fails the task.
Raise(w, retryable) ==
  /\ pc[w] \in Executing
  /\ Fail(w, retryable)
  /\ Goto(w, "ending")
  /\ Writes /\ UNCHANGED Locals

\* The heartbeat task renews the lease beside the execution.
Beat(w) ==
  /\ pc[w] \in Executing
  /\ task[TaskOf(w)].lease_expires_at < LeaseSeconds
  /\ Heartbeat(w)
  /\ Writes /\ UNCHANGED <<pc, Locals>>

\* A fenced call of the execution or of the heartbeat raises LeaseLostError:
\* the attempt is over and publishes nothing.
LoseLease(w) ==
  /\ pc[w] \in Executing
  /\ writer = Null
  /\ ~Fenced(held[w])
  /\ Goto(w, "ending")
  /\ UNCHANGED <<queueVars, checkpoint, writer, Locals, faults>>

\* Shutdown cancels the attempt; a commit in flight is drained first.
Stop(w) ==
  /\ pc[w] \in Executing
  /\ faults < MaxFaults
  /\ faults' = faults + 1
  /\ Goto(w, "ending")
  /\ UNCHANGED <<queueVars, checkpoint, writer, Locals>>

\* The finally clause: release what is still owned ...
ReleaseAtEnd(w) ==
  /\ pc[w] = "ending"
  /\ Release(w)
  /\ Writes /\ UNCHANGED <<pc, Locals>>

\* ... and the attempt, with its lease and its local state, is gone.
EndAttempt(w) ==
  /\ pc[w] = "ending"
  /\ writer = Null
  /\ ~Fenced(held[w])
  /\ Forget(w)
  /\ Goto(w, "idle")
  /\ memory' = [memory EXCEPT ![w] = NoMemory]
  /\ snapshot' = [snapshot EXCEPT ![w] = NoCheckpoint]
  /\ UNCHANGED <<checkpoint, writer, faults>>

\* The process dies; SQLite drops its reservation and an uncommitted write.  It
\* is started again, with recover, as an idle worker.
Crash(w) ==
  /\ faults < MaxFaults
  /\ Forget(w)
  /\ Goto(w, "idle")
  /\ writer' = IF writer = w THEN Null ELSE writer
  /\ memory' = [memory EXCEPT ![w] = NoMemory]
  /\ snapshot' = [snapshot EXCEPT ![w] = NoCheckpoint]
  /\ faults' = faults + 1
  /\ UNCHANGED checkpoint

Attempt(w) ==
  \/ Load(w) \/ Save(w) \/ Look(w) \/ RunNode(w) \/ EnterFence(w) \/ CommitCheckpoint(w)
  \/ Record(w) \/ LoseLease(w) \/ ReleaseAtEnd(w) \/ EndAttempt(w)

RuntimeNext ==
  \/ \E t \in Tasks : Submit(t) \/ \E value \in Values : HumanReplies(t, value)
  \/ \E w \in Workers :
       \/ RunOnce(w) \/ Attempt(w) \/ Beat(w) \/ Stop(w) \/ Crash(w)
       \/ \E retryable \in BOOLEAN : Raise(w, retryable)
  \/ PollRecover
  \/ TimePasses

RuntimeSpec == RuntimeInit /\ [][RuntimeNext]_runtimeVars

\* The event loop runs an attempt on, the worker loop polls, clocks advance and
\* the human answers in the end.  Nothing forces a heartbeat.
RuntimeFairness ==
  /\ \A w \in Workers : WF_runtimeVars(Attempt(w)) /\ WF_runtimeVars(RunOnce(w))
  /\ WF_runtimeVars(PollRecover)
  /\ WF_runtimeVars(TimePasses)
  /\ \A t \in Tasks : WF_runtimeVars(\E value \in Values : HumanReplies(t, value))

FairRuntimeSpec == RuntimeSpec /\ RuntimeFairness
-----------------------------------------------------------------------------
(* Properties                                                               *)

\* A checkpoint is committed only by the worker that owns the task's row at that
\* moment, and nothing but its own commit advances the thread: the reservation
\* spans the commit in the other database, also when the lease runs out inside.
CheckpointByOwner ==
  [][\A t \in Tasks : checkpoint'[t] # checkpoint[t] =>
       \E w \in Workers : /\ writer = w
                          /\ TaskOf(w) = t
                          /\ task[t].status = "ACTIVE"
                          /\ task[t].worker_id = held[w].worker_id]_runtimeVars

\* A commit builds on the thread's latest checkpoint: no attempt overwrites the
\* progress of another, whatever it read before it lost and regained its turn.
NoLostProgress ==
  \A w \in Workers : pc[w] = "commit" => snapshot[w] = checkpoint[TaskOf(w)]

\* The row never runs ahead of the thread: a SUCCEEDED task has finished its
\* graph, and a task that waits for a human has asked the question that its
\* memory shows (two databases, no common transaction).
RowFollowsThread ==
  \A t \in Tasks :
    /\ task[t].status = "SUCCEEDED" => checkpoint[t].done = Nodes /\ ~checkpoint[t].asked
    /\ task[t].status = "WAITING_HUMAN" =>
         checkpoint[t].asked /\ task[t].memory.interrupts = {Question}

\* The answer a graph goes on with is the reply that resume accepted.
AnswerWasAccepted ==
  \A t \in Tasks : checkpoint[t].answer # Null =>
    task[t].memory.resume = [interrupt_id |-> Question, value |-> checkpoint[t].answer]

\* Every task settles: crashes, shutdowns, lost leases and retries end in a
\* final status, provided the human answers.
TasksSettle ==
  \A t \in Tasks : task[t].status # "ABSENT" ~> task[t].status \in Terminal
=============================================================================
