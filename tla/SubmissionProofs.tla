-------------------------- MODULE SubmissionProofs --------------------------
(***************************************************************************)
(* Proofs about Submission for any number of rounds, workers, attempts,    *)
(* faults and edits.                                                       *)
(*                                                                         *)
(* First, every step of the protocol is a step of TaskQueue, so that the   *)
(* invariant of the queue (TaskQueueProofs) holds here too although the    *)
(* first task is there from the start.  Then, an approval buys one click.  *)
(* Then the ledger: rounds begin one after the other, each when all before *)
(* it have failed, and SUBMITTED is what the portal confirmed.  Last, what *)
(* this says of a second click, and that decisions wake their tasks.       *)
(***************************************************************************)
EXTENDS Submission, TaskQueueProofs

-----------------------------------------------------------------------------
(* The protocol uses the queue through its interface *)

LEMMA RoundsTasks ==
  ASSUME NEW r \in Rounds
  PROVE  ReviewTask[r] \in Tasks /\ SubmitTask[r] \in Tasks
BY RoundsAssumption

\* A lease is for a task of one round.
LEMMA RoundOfLease ==
  ASSUME NEW w \in Workers, held[w] \in Leases
  PROVE  RoundOf(w) \in Rounds /\ TaskOf(w) \in {ReviewTask[RoundOf(w)], SubmitTask[RoundOf(w)]}
<1>1. \E r \in Rounds : TaskOf(w) \in {ReviewTask[r], SubmitTask[r]}
  BY RoundsAssumption DEF TaskOf, Leases
<1>2. QED
  BY <1>1 DEF RoundOf, RoundOfTask

LEMMA FencedRound ==
  ASSUME TypeOK, NEW w \in Workers, Fenced(held[w])
  PROVE  RoundOf(w) \in Rounds /\ TaskOf(w) \in {ReviewTask[RoundOf(w)], SubmitTask[RoundOf(w)]}
BY RoundOfLease DEF TypeOK, Fenced

\* Time that passes for approvals alone leaves every row as it is.
LEMMA OlderAtRest ==
  ASSUME NEW row \in Rows, ~(row.lease_expires_at > 0), ~(row.next_run_at > 0)
  PROVE  Older(row) = row
BY DEF Older, Rows

LEMMA RepliesHere ==
  ASSUME NEW interrupt \in Interrupts
  PROVE  [interrupt_id |-> interrupt, value |-> "reply"] \in Replies
BY InterruptsAssumption DEF Replies

LEMMA TimeConforms ==
  ASSUME TypeOK, TimePasses
  PROVE  [Next]_queueVars
<1>1. CASE \E t \in Tasks : task[t].lease_expires_at > 0 \/ task[t].next_run_at > 0
  BY <1>1 DEF TimePasses, Next, Tick
<1>2. CASE \A t \in Tasks : ~(task[t].lease_expires_at > 0) /\ ~(task[t].next_run_at > 0)
  <2>1. \A t \in Tasks : task'[t] = task[t]
    BY <1>2, OlderAtRest DEF TimePasses, TypeOK
  <2>2. task' = task /\ held' = held
    BY <2>1 DEF TimePasses, TypeOK
  <2>3. QED
    BY <2>2 DEF queueVars
<1>3. QED
  BY <1>1, <1>2

LEMMA HumanConforms ==
  ASSUME TypeOK, NEW r \in Rounds,
         OperatorResumes(r) \/ \E decision \in {"APPROVED", "REJECTED"} : HumanDecides(r, decision)
  PROVE  [Next]_queueVars
<1>1. SubmitTask[r] \in Tasks
  BY RoundsTasks
<1>2. CASE OperatorResumes(r)
  <2>1. PICK interrupt \in task[SubmitTask[r]].memory.interrupts :
          Resume(SubmitTask[r], [interrupt_id |-> interrupt, value |-> "reply"])
    BY <1>2 DEF OperatorResumes
  <2>2. interrupt \in Interrupts
    BY <1>1, <2>1 DEF TypeOK, Rows, Memories
  <2>3. QED
    BY <1>1, <2>1, <2>2, RepliesHere DEF Next
<1>3. CASE \E decision \in {"APPROVED", "REJECTED"} : HumanDecides(r, decision)
  <2>1. ResumeDecided(SubmitTask[r])
    BY <1>3 DEF HumanDecides
  <2>2. CASE UNCHANGED queueVars
    BY <2>2
  <2>3. CASE Resume(SubmitTask[r], [interrupt_id |-> "approval", value |-> "reply"])
    BY <1>1, <2>3, RepliesHere, InterruptsAssumption DEF Next
  <2>4. QED
    BY <2>1, <2>2, <2>3 DEF ResumeDecided
<1>4. QED
  BY <1>2, <1>3

LEMMA AttemptConforms ==
  ASSUME TypeOK, NEW w \in Workers, Attempt(w)
  PROVE  [Next]_queueVars
<1>1. CASE Prepare(w)
  <2>1. CASE UNCHANGED queueVars
    BY <2>1
  <2>2. CASE CompleteSpawning(w, SubmitTask[RoundOf(w)], {"approval"})
    <3>1. SubmitTask[RoundOf(w)] \in Tasks /\ {"approval"} \in SUBSET Interrupts
      BY <1>1, FencedRound, RoundsTasks, InterruptsAssumption DEF Prepare
    <3>2. QED
      BY <2>2, <3>1 DEF Next
  <2>3. QED
    BY <1>1, <2>1, <2>2 DEF Prepare
<1>2. CASE Restart(w)
  <2>1. CASE UNCHANGED queueVars
    BY <2>1
  <2>2. CASE RoundOf(w) + 1 \in Rounds /\ Enqueue(ReviewTask[RoundOf(w) + 1])
    BY <2>2, RoundsTasks DEF Next
  <2>3. QED
    BY <1>2, <2>1, <2>2 DEF Restart
<1>3. CASE Finish(w)
  <2>1. \A interrupts \in SUBSET Interrupts : [NoMemory EXCEPT !.interrupts = interrupts] \in Memories
    BY DEF NoMemory, Memories
  <2>2. PICK waiting \in BOOLEAN :
          Complete(w, [NoMemory EXCEPT !.interrupts = IF waiting THEN {"submission"} ELSE {}], waiting)
    BY <1>3 DEF Finish
  <2>3. (IF waiting THEN {"submission"} ELSE {}) \in SUBSET Interrupts
    BY InterruptsAssumption
  <2>4. QED
    BY <2>1, <2>2, <2>3 DEF Next
<1>4. CASE FailForGood(w)
  BY <1>4 DEF FailForGood, Next
<1>5. CASE EndAttempt(w)
  BY <1>5 DEF EndAttempt, Next
<1>6. CASE \/ Announce(w) \/ Validate(w) \/ Compare(w) \/ Revoke(w) \/ Plan(w) \/ Start(w) \/ Click(w)
           \/ NoClick(w) \/ Reconcile(w) \/ ReconcileRaises(w) \/ Record(w) \/ LoseLease(w)
  BY <1>6 DEF Announce, Validate, Compare, Revoke, Plan, Start, Click, NoClick, Reconcile,
              ReconcileRaises, Record, LoseLease, queueVars
<1>7. QED
  BY <1>1, <1>2, <1>3, <1>4, <1>5, <1>6 DEF Attempt

LEMMA LoopConforms ==
  ASSUME NEW w \in Workers,
         \/ Startup(w) \/ RunOnce(w) \/ Beat(w) \/ Stop(w) \/ Crash(w) \/ LockTimeout(w)
  PROVE  [Next]_queueVars
<1>1. CASE Startup(w)
  BY <1>1 DEF Startup, RecoverActions
<1>2. CASE RunOnce(w)
  BY <1>2 DEF RunOnce, Next
<1>3. CASE Beat(w)
  BY <1>3 DEF Beat, Next
<1>4. CASE Stop(w)
  BY <1>4 DEF Stop, Next
<1>5. CASE Crash(w)
  BY <1>5 DEF Crash, Next
<1>6. CASE LockTimeout(w)
  BY <1>6 DEF LockTimeout, Next
<1>7. QED
  BY <1>1, <1>2, <1>3, <1>4, <1>5, <1>6

LEMMA StepConforms ==
  ASSUME TypeOK, [SubmissionNext]_submissionVars
  PROVE  [Next]_queueVars
<1>1. CASE UNCHANGED submissionVars
  BY <1>1 DEF submissionVars, queueVars
<1>2. CASE EditInputs
  BY <1>2 DEF EditInputs
<1>3. CASE TimePasses
  BY <1>3, TimeConforms
<1>4. CASE PollRecover \/ CoordinatorRecovers
  BY <1>4 DEF PollRecover, CoordinatorRecovers, RecoverActions, Next
<1>5. CASE \E r \in Rounds : \/ OperatorResumes(r)
                             \/ \E decision \in {"APPROVED", "REJECTED"} : HumanDecides(r, decision)
  BY <1>5, HumanConforms
<1>6. CASE \E w \in Workers : Attempt(w)
  BY <1>6, AttemptConforms
<1>7. CASE \E w \in Workers : \/ Startup(w) \/ RunOnce(w) \/ Beat(w) \/ Stop(w) \/ Crash(w)
                              \/ LockTimeout(w)
  BY <1>7, LoopConforms
<1>8. QED
  BY <1>1, <1>2, <1>3, <1>4, <1>5, <1>6, <1>7 DEF SubmissionNext

LEMMA SubmissionInitIInv == SubmissionInit => IInv
<1> SUFFICES ASSUME SubmissionInit PROVE IInv
  OBVIOUS
<1>1. NoRow \in Rows /\ NoRow.worker_id = Null
  BY DEF NoRow, Rows, Statuses, Countdowns, NoTime, Memories, NoMemory
<1>2. \A t \in Tasks : RowOK(t, NoRow)
  BY MaxAttemptsAssumption DEF NoRow, RowOK, NoMemory, NoTime
<1>3. /\ Created("READY", {}) \in Rows
      /\ Created("READY", {}).worker_id = Null
  BY DEF Created, NoRow, Rows, Statuses, Countdowns, NoTime, Memories, NoMemory
<1>4. \A t \in Tasks : RowOK(t, Created("READY", {}))
  BY MaxAttemptsAssumption DEF Created, NoRow, RowOK, NoMemory, NoTime
<1>5. \A t \in Tasks : task[t] \in Rows /\ RowOK(t, task[t]) /\ task[t].worker_id = Null
  BY <1>1, <1>2, <1>3, <1>4 DEF SubmissionInit
<1>6. TypeOK
  BY <1>5 DEF SubmissionInit, TypeOK
<1>7. TokensUnique
  BY <1>5 DEF SubmissionInit, TokensUnique
<1>8. QED
  BY <1>5, <1>6, <1>7 DEF IInv

\* The invariant of the queue holds under the review and submission protocol:
\* its types, tokens, row consistency and retry budget.
THEOREM QueueInvariant == SubmissionSpec => []IInv
<1>1. IInv /\ [SubmissionNext]_submissionVars => IInv'
  BY StepConforms, NextIInv DEF IInv
<1>2. QED
  BY <1>1, SubmissionInitIInv, PTL DEF SubmissionSpec

-----------------------------------------------------------------------------
(* An approval buys one click *)

BegunActions == ActiveActions \cup {"FAILED"}

\* The steps of a submission attempt that still acts.
SubmissionSteps ==
  {"validate", "compare", "revoke", "plan", "start", "submit", "reconcile", "record", "restart",
   "finish", "blocked"}

\* An attempt that acts has a lease, a submission attempt for the submission task
\* of its round.
AttemptsHold ==
  /\ \A w \in Workers : pc[w] \in SubmissionSteps \cup {"announce"} => held[w] # Null
  /\ \A w \in Workers : pc[w] \in SubmissionSteps => TaskOf(w) = SubmitTask[RoundOf(w)]

\* The ledger row of a round is written by attempts of its submission task, so a
\* round with a row is not prepared again.
PlannedExists == \A r \in Rounds : action[r] # "NONE" => task[SubmitTask[r]].status # "ABSENT"

BegunSpent == \A r \in Rounds : action[r] \in BegunActions => approval[r].status = "CONSUMED"

ClicksBegun ==
  \A r \in Rounds : clicks[r] <= 1 /\ (clicks[r] > 0 => action[r] \in BegunActions)

\* The worker that is about to click is the one that started the action, and has
\* not clicked; whoever records has an action that was started.
ClickersStarted ==
  /\ \A w \in Workers : pc[w] \in {"submit", "reconcile", "record"} => action[RoundOf(w)] \in BegunActions
  /\ \A w \in Workers : pc[w] = "submit" => clicks[RoundOf(w)] = 0
  /\ \A v, w \in Workers : pc[v] = "submit" /\ pc[w] = "submit" /\ RoundOf(v) = RoundOf(w) => v = w

\* The inductive invariant of the clicks, beside types and the queue.
ClickInv == AttemptsHold /\ PlannedExists /\ BegunSpent /\ ClicksBegun /\ ClickersStarted

-----------------------------------------------------------------------------
(* Types of the protocol's own variables *)

LEMMA SubmissionInitTypes == SubmissionInit => SubmissionTypeOK
<1> SUFFICES ASSUME SubmissionInit PROVE SubmissionTypeOK
  OBVIOUS
<1>1. TypeOK
  BY SubmissionInitIInv DEF IInv
<1>2. 1 \in Rounds /\ ReviewTask[1] \in Tasks
  BY RoundsAssumption DEF Rounds
<1>3. app \in Apps
  BY <1>2 DEF SubmissionInit, Apps, AppStatuses
<1>4. approval \in [Rounds -> Approvals]
  BY DEF SubmissionInit, Approvals, ApprovalStatuses, Countdowns, NoTime
<1>5. pc \in [Workers -> Steps]
  BY DEF SubmissionInit, Begun, Steps
<1>6. action \in [Rounds -> ActionStatuses] /\ clicks \in [Rounds -> Nat]
  BY DEF SubmissionInit, ActionStatuses
<1>7. outcome \in [Workers -> Outcomes]
  BY DEF SubmissionInit, Outcomes
<1>8. inputs \in Contents /\ announced = {} /\ accepted = {} /\ followed = FALSE
  BY DEF SubmissionInit
<1>9. faults \in 0 .. MaxFaults /\ edits \in 0 .. MaxEdits
  BY BoundsAssumption DEF SubmissionInit
<1>10. QED
  BY <1>1, <1>3, <1>4, <1>5, <1>6, <1>7, <1>8, <1>9 DEF SubmissionTypeOK

\* What an action may do to the variables that are typed here.
LEMMA KeepsTypes ==
  ASSUME SubmissionTypeOK, TypeOK',
         app' \in Apps, approval' \in [Rounds -> Approvals], announced' \subseteq Rounds,
         action' \in [Rounds -> ActionStatuses], inputs' \in Contents,
         clicks' \in [Rounds -> Nat], accepted' \subseteq Rounds, followed' \in BOOLEAN,
         pc' \in [Workers -> Steps], outcome' \in [Workers -> Outcomes],
         faults' \in 0 .. MaxFaults, edits' \in 0 .. MaxEdits
  PROVE  SubmissionTypeOK'
BY DEF SubmissionTypeOK

LEMMA ApprovalSet ==
  ASSUME SubmissionTypeOK, NEW r \in Rounds, NEW status \in ApprovalStatuses
  PROVE  [approval EXCEPT ![r].status = status] \in [Rounds -> Approvals]
BY DEF SubmissionTypeOK, Approvals

LEMMA AppSet ==
  ASSUME SubmissionTypeOK, NEW status \in AppStatuses
  PROVE  [app EXCEPT !.status = status] \in Apps
BY DEF SubmissionTypeOK, Apps

LEMMA RecoverActionsTypes ==
  ASSUME SubmissionTypeOK, RecoverActions
  PROVE  app' \in Apps /\ action' \in [Rounds -> ActionStatuses]
<1>1. action' \in [Rounds -> ActionStatuses]
  BY DEF SubmissionTypeOK, RecoverActions, GivenUp, ActionStatuses
<1>2. app' \in Apps
  BY DEF SubmissionTypeOK, RecoverActions, SetApp, Apps, AppStatuses
<1>3. QED
  BY <1>1, <1>2

LEMMA EnvironmentTypes ==
  ASSUME SubmissionTypeOK, TypeOK',
         \/ EditInputs \/ TimePasses \/ PollRecover \/ CoordinatorRecovers
         \/ \E r \in Rounds : \/ OperatorResumes(r)
                              \/ \E decision \in {"APPROVED", "REJECTED"} : HumanDecides(r, decision)
  PROVE  SubmissionTypeOK'
<1>1. CASE EditInputs
  BY <1>1, BoundsAssumption DEF EditInputs, SubmissionTypeOK
<1>2. CASE TimePasses
  <2>1. ASSUME NEW r \in Rounds
        PROVE  [approval[r] EXCEPT !.valid = IF Lapsing(r) THEN @ - 1 ELSE @] \in Approvals
    <3>1. approval[r] \in Approvals
      BY DEF SubmissionTypeOK
    <3>2. (IF Lapsing(r) THEN approval[r].valid - 1 ELSE approval[r].valid) \in Countdowns
      BY <3>1 DEF Lapsing, Approvals, Countdowns, NoTime
    <3>3. QED
      BY <3>1, <3>2 DEF Approvals
  <2>2. approval' \in [Rounds -> Approvals]
    BY <1>2, <2>1 DEF TimePasses
  <2>3. QED
    BY <1>2, <2>2 DEF TimePasses, SubmissionTypeOK
<1>3. CASE PollRecover
  BY <1>3 DEF PollRecover, domainVars, SubmissionTypeOK
<1>4. CASE CoordinatorRecovers
  <2>1. CASE RecoverActions
    BY <1>4, <2>1, RecoverActionsTypes DEF CoordinatorRecovers, RecoverActions, SubmissionTypeOK
  <2>2. CASE UNCHANGED <<domainVars, outcome, faults>>
    BY <1>4, <2>2 DEF CoordinatorRecovers, domainVars, SubmissionTypeOK
  <2>3. QED
    BY <1>4, <2>1, <2>2 DEF CoordinatorRecovers
<1>5. ASSUME NEW r \in Rounds, OperatorResumes(r)
      PROVE  SubmissionTypeOK'
  BY <1>5 DEF OperatorResumes, domainVars, SubmissionTypeOK
<1>6. ASSUME NEW r \in Rounds, NEW decision \in {"APPROVED", "REJECTED"}, HumanDecides(r, decision)
      PROVE  SubmissionTypeOK'
  <2>1. approval' \in [Rounds -> Approvals]
    BY <1>6, ApprovalSet DEF HumanDecides, SetApproval, ApprovalStatuses
  <2>2. QED
    BY <1>6, <2>1 DEF HumanDecides, SubmissionTypeOK
<1>7. QED
  BY <1>1, <1>2, <1>3, <1>4, <1>5, <1>6

LEMMA LoopTypes ==
  ASSUME SubmissionTypeOK, TypeOK', NEW w \in Workers,
         \/ Startup(w) \/ RunOnce(w) \/ Beat(w) \/ Stop(w) \/ Crash(w) \/ LockTimeout(w)
         \/ EndAttempt(w) \/ LoseLease(w) \/ FailForGood(w)
  PROVE  SubmissionTypeOK'
<1>1. Begun(w) \in Steps /\ {"idle", "ended", "stopped", "prepare", "validate"} \subseteq Steps
  BY DEF Begun, Steps, Fences
<1>2. CASE Startup(w)
  BY <1>1, <1>2, RecoverActionsTypes DEF Startup, RecoverActions, Goto, SubmissionTypeOK
<1>3. CASE RunOnce(w)
  BY <1>1, <1>3 DEF RunOnce, Goto, domainVars, SubmissionTypeOK
<1>4. CASE Beat(w)
  BY <1>4 DEF Beat, domainVars, SubmissionTypeOK
<1>5. CASE Stop(w) \/ LockTimeout(w)
  <2>1. pc' \in [Workers -> Steps] /\ UNCHANGED <<domainVars, outcome>>
    BY <1>1, <1>5 DEF Stop, LockTimeout, Goto, SubmissionTypeOK
  <2>2. faults < MaxFaults /\ faults' = faults + 1
    BY <1>5 DEF Stop, LockTimeout
  <2>3. faults' \in 0 .. MaxFaults
    BY <2>2, BoundsAssumption DEF SubmissionTypeOK
  <2>4. QED
    BY <2>1, <2>3 DEF domainVars, SubmissionTypeOK
<1>6. CASE Crash(w)
  BY <1>1, <1>6, BoundsAssumption DEF Crash, Goto, Outcomes, domainVars, SubmissionTypeOK
<1>7. CASE EndAttempt(w)
  BY <1>1, <1>7 DEF EndAttempt, Goto, Outcomes, domainVars, SubmissionTypeOK
<1>8. CASE LoseLease(w) \/ FailForGood(w)
  BY <1>1, <1>8 DEF LoseLease, FailForGood, Goto, domainVars, SubmissionTypeOK
<1>9. QED
  BY <1>2, <1>3, <1>4, <1>5, <1>6, <1>7, <1>8

LEMMA ReviewTypes ==
  ASSUME SubmissionTypeOK, AttemptsHold, TypeOK', NEW w \in Workers, Prepare(w) \/ Announce(w)
  PROVE  SubmissionTypeOK'
<1>1. {"announce", "failing", "ended"} \subseteq Steps
  BY DEF Steps
<1>2. CASE Prepare(w)
  <2>1. RoundOf(w) \in Rounds /\ SubmitTask[RoundOf(w)] \in Tasks
    BY <1>2, FencedRound, RoundsTasks DEF Prepare, SubmissionTypeOK
  <2>2. [status |-> "PENDING", valid |-> ApprovalSeconds, content |-> inputs] \in Approvals
    BY ApprovalAssumption DEF SubmissionTypeOK, Approvals, ApprovalStatuses, Countdowns
  <2>3. app' \in Apps /\ approval' \in [Rounds -> Approvals]
    BY <1>2, <2>1, <2>2 DEF Prepare, SubmissionTypeOK, Apps
  <2>4. QED
    BY <1>1, <1>2, <2>3 DEF Prepare, Goto, SubmissionTypeOK
<1>3. CASE Announce(w)
  <2>1. RoundOf(w) \in Rounds
    BY <1>3, RoundOfLease DEF Announce, AttemptsHold, SubmissionTypeOK, TypeOK
  <2>2. QED
    BY <1>1, <1>3, <2>1 DEF Announce, Goto, SubmissionTypeOK
<1>4. QED
  BY <1>2, <1>3

LEMMA SubmitTypes ==
  ASSUME SubmissionTypeOK, AttemptsHold, TypeOK', NEW w \in Workers,
         \/ Validate(w) \/ Compare(w) \/ Revoke(w) \/ Plan(w) \/ Start(w) \/ Click(w) \/ NoClick(w)
         \/ Reconcile(w) \/ ReconcileRaises(w) \/ Record(w) \/ Restart(w) \/ Finish(w)
  PROVE  SubmissionTypeOK'
<1>1. SubmissionSteps \cup {"failing", "ended"} \subseteq Steps
  BY DEF SubmissionSteps, Steps, Fences
<1>2. Fenced(held[w]) => RoundOf(w) \in Rounds
  BY FencedRound DEF SubmissionTypeOK
<1>3. CASE Validate(w)
  <2>1. approval' \in [Rounds -> Approvals]
    <3>1. RoundOf(w) \in Rounds
      BY <1>2, <1>3 DEF Validate
    <3>2. [approval EXCEPT ![RoundOf(w)].status = "EXPIRED"] \in [Rounds -> Approvals]
      BY <3>1, ApprovalSet DEF ApprovalStatuses
    <3>3. approval' = [approval EXCEPT ![RoundOf(w)].status = "EXPIRED"] \/ approval' = approval
      BY <1>3 DEF Validate, SetApproval
    <3>4. QED
      BY <3>2, <3>3 DEF SubmissionTypeOK
  <2>2. pc' \in [Workers -> Steps]
    BY <1>1, <1>3 DEF Validate, Goto, SubmissionSteps, SubmissionTypeOK
  <2>3. QED
    BY <1>3, <2>1, <2>2 DEF Validate, SubmissionTypeOK
<1>4. CASE Compare(w) \/ Finish(w) \/ ReconcileRaises(w)
  BY <1>1, <1>4
     DEF Compare, Finish, ReconcileRaises, Goto, SubmissionSteps, domainVars, SubmissionTypeOK
<1>5. CASE Revoke(w)
  <2>1. approval[RoundOf(w)] \in Approvals /\ app \in Apps
    BY <1>2, <1>5 DEF Revoke, SubmissionTypeOK
  <2>2. Revoked(approval[RoundOf(w)].status) \in ApprovalStatuses /\ BackToReview(app.status) \in AppStatuses
    BY <2>1 DEF Revoked, BackToReview, Approvals, Apps, ApprovalStatuses, AppStatuses
  <2>3. approval' \in [Rounds -> Approvals] /\ app' \in Apps
    BY <1>2, <1>5, <2>2, ApprovalSet, AppSet DEF Revoke, SetApproval, SetApp
  <2>4. QED
    BY <1>1, <1>5, <2>3 DEF Revoke, Goto, SubmissionSteps, SubmissionTypeOK
<1>6. CASE Plan(w)
  <2>1. action' \in [Rounds -> ActionStatuses] /\ outcome' \in [Workers -> Outcomes]
    BY <1>6 DEF Plan, SetAction, ActionStatuses, Outcomes, SubmissionTypeOK
  <2>2. pc' \in [Workers -> Steps]
    BY <1>1, <1>6 DEF Plan, Goto, StepFor, SubmissionSteps, SubmissionTypeOK
  <2>3. QED
    BY <1>6, <2>1, <2>2 DEF Plan, SubmissionTypeOK
<1>7. CASE Start(w)
  <2>1. approval' \in [Rounds -> Approvals]
    <3>1. RoundOf(w) \in Rounds
      BY <1>2, <1>7 DEF Start
    <3>2. \A status \in {"CONSUMED", "REVOKED"} :
            [approval EXCEPT ![RoundOf(w)].status = status] \in [Rounds -> Approvals]
      BY <3>1, ApprovalSet DEF ApprovalStatuses
    <3>3. \/ approval' = [approval EXCEPT ![RoundOf(w)].status = "CONSUMED"]
          \/ approval' = [approval EXCEPT ![RoundOf(w)].status = "REVOKED"]
          \/ approval' = approval
      BY <1>7 DEF Start, SetApproval
    <3>4. QED
      BY <3>2, <3>3 DEF SubmissionTypeOK
  <2>2. action' \in [Rounds -> ActionStatuses] /\ app' \in Apps
    BY <1>7, AppSet DEF Start, SetAction, SetApp, ActionStatuses, AppStatuses, SubmissionTypeOK
  <2>3. pc' \in [Workers -> Steps]
    BY <1>1, <1>7 DEF Start, Goto, SubmissionSteps, SubmissionTypeOK
  <2>4. QED
    BY <1>7, <2>1, <2>2, <2>3 DEF Start, SubmissionTypeOK
<1>8. CASE NoClick(w)
  BY <1>1, <1>8 DEF NoClick, Goto, SubmissionSteps, Outcomes, domainVars, SubmissionTypeOK
<1>9. CASE Reconcile(w)
  <2>1. outcome' \in [Workers -> Outcomes]
    BY <1>9 DEF Reconcile, ReconcileResults, Outcomes, SubmissionTypeOK
  <2>2. QED
    BY <1>1, <1>9, <2>1 DEF Reconcile, Goto, SubmissionSteps, domainVars, SubmissionTypeOK
<1>10. CASE Record(w)
  <2>1. Recorded(outcome[w]) \in [action : ActionStatuses, app : AppStatuses, then : Steps]
    BY <1>1 DEF Recorded, Outcomes, ActionStatuses, AppStatuses, SubmissionSteps, SubmissionTypeOK
  <2>2. action' \in [Rounds -> ActionStatuses] /\ app' \in Apps /\ pc' \in [Workers -> Steps]
    BY <1>10, <2>1 DEF Record, SetAction, Goto, Apps, SubmissionTypeOK
  <2>3. QED
    BY <1>10, <2>2 DEF Record, SubmissionTypeOK
<1>11. CASE Restart(w)
  <2>1. app' \in Apps
    BY <1>11, RoundsTasks DEF Restart, Apps, SubmissionTypeOK
  <2>2. pc' \in [Workers -> Steps]
    BY <1>1, <1>11 DEF Restart, Goto, SubmissionSteps, SubmissionTypeOK
  <2>3. QED
    BY <1>11, <2>1, <2>2 DEF Restart, SubmissionTypeOK
<1>12. CASE Click(w)
  <2>1. RoundOf(w) \in Rounds
    BY <1>12, RoundOfLease DEF Click, AttemptsHold, SubmissionSteps, SubmissionTypeOK, TypeOK
  <2>2. outcome' \in [Workers -> Outcomes] /\ accepted' \subseteq Rounds
    BY <1>12, <2>1 DEF Click, Outcomes, SubmissionTypeOK
  <2>3. clicks' \in [Rounds -> Nat]
    <3>1. clicks' = [clicks EXCEPT ![RoundOf(w)] = clicks[RoundOf(w)] + 1]
      BY <1>12 DEF Click
    <3>2. clicks[RoundOf(w)] + 1 \in Nat
      BY <2>1 DEF SubmissionTypeOK
    <3>3. QED
      BY <3>1, <3>2 DEF SubmissionTypeOK
  <2>4. pc' \in [Workers -> Steps]
    BY <1>1, <1>12 DEF Click, Goto, SubmissionSteps, SubmissionTypeOK
  <2>5. UNCHANGED <<app, approval, announced, action, inputs, followed, edits, faults>>
    BY <1>12 DEF Click
  <2>6. QED
    BY <2>2, <2>3, <2>4, <2>5 DEF SubmissionTypeOK
<1>13. QED
  BY <1>3, <1>4, <1>5, <1>6, <1>7, <1>8, <1>9, <1>10, <1>11, <1>12

-----------------------------------------------------------------------------
(* Steps that neither plan, start nor click keep the invariant of the clicks *)

Acting == SubmissionSteps \cup {"announce"}

\* An attempt stays where it is, stops acting, begins, or goes on with the same
\* lease, to "record" only from where its action was begun.
MovesOn(w) ==
  \/ pc'[w] \notin Acting
  \/ held'[w] = held[w] /\ pc'[w] = pc[w]
  \/ held'[w] = held[w] /\ held[w] # Null /\ pc'[w] = "announce"
  \/ held'[w] # Null /\ TaskOf(w)' = SubmitTask[RoundOf(w)'] /\ pc'[w] = "validate"
  \/ held'[w] = held[w] /\ pc[w] \in SubmissionSteps
     /\ pc'[w] \in SubmissionSteps \ {"submit", "reconcile", "record"}
  \/ held'[w] = held[w] /\ pc[w] \in {"submit", "reconcile"} /\ pc'[w] = "record"

ActionsKept ==
  \A r \in Rounds : action'[r] = action[r] \/ {action[r], action'[r]} \subseteq BegunActions

SpentKept ==
  \A r \in Rounds : action[r] \in BegunActions => approval'[r].status = approval[r].status

Quiet == clicks' = clicks /\ ActionsKept /\ SpentKept /\ \A w \in Workers : MovesOn(w)

LEMMA RoundStays ==
  ASSUME NEW w \in Workers, held'[w] = held[w]
  PROVE  TaskOf(w)' = TaskOf(w) /\ RoundOf(w)' = RoundOf(w)
BY DEF TaskOf, RoundOf

LEMMA QuietClickInv ==
  ASSUME IInv, SubmissionTypeOK, ClickInv, [Next]_queueVars, Quiet
  PROVE  ClickInv'
<1>1. AttemptsHold'
  <2>1. ASSUME NEW w \in Workers, pc'[w] \in Acting
        PROVE  held'[w] # Null
    BY <2>1 DEF ClickInv, AttemptsHold, Quiet, MovesOn, Acting, SubmissionSteps
  <2>2. ASSUME NEW w \in Workers, pc'[w] \in SubmissionSteps
        PROVE  TaskOf(w)' = SubmitTask[RoundOf(w)']
    <3>1. CASE TaskOf(w)' = SubmitTask[RoundOf(w)']
      BY <3>1
    <3>2. CASE held'[w] = held[w] /\ pc[w] \in SubmissionSteps
      BY <3>2, RoundStays DEF ClickInv, AttemptsHold
    <3>3. QED
      BY <2>2, <3>1, <3>2 DEF Quiet, MovesOn, Acting, SubmissionSteps
  <2>3. QED
    BY <2>1, <2>2 DEF AttemptsHold, Acting
<1>2. PlannedExists'
  <2> SUFFICES ASSUME NEW r \in Rounds, action'[r] # "NONE"
               PROVE  task'[SubmitTask[r]].status # "ABSENT"
    BY DEF PlannedExists
  <2>1. action[r] # "NONE"
    BY DEF Quiet, ActionsKept, BegunActions, ActiveActions
  <2>2. QED
    BY <2>1, RoundsTasks, RowsStay DEF ClickInv, PlannedExists
<1>3. BegunSpent' /\ ClicksBegun'
  BY DEF ClickInv, BegunSpent, ClicksBegun, Quiet, ActionsKept, SpentKept
<1>4. ASSUME NEW w \in Workers, pc'[w] \in {"submit", "reconcile", "record"}
      PROVE  /\ RoundOf(w)' = RoundOf(w) /\ RoundOf(w) \in Rounds
             /\ pc[w] \in {"submit", "reconcile", "record"}
             /\ pc'[w] = "submit" => pc[w] = "submit"
  <2>1. held'[w] = held[w] /\ pc[w] \in {"submit", "reconcile", "record"}
        /\ (pc'[w] = "submit" => pc[w] = "submit")
    BY <1>4 DEF Quiet, MovesOn, Acting, SubmissionSteps
  <2>2. held[w] \in Leases
    BY <2>1 DEF ClickInv, AttemptsHold, SubmissionSteps, SubmissionTypeOK, TypeOK
  <2>3. QED
    BY <2>1, <2>2, RoundStays, RoundOfLease
<1>5. ClickersStarted'
  BY <1>4 DEF ClickInv, ClickersStarted, Quiet, ActionsKept
<1>6. QED
  BY <1>1, <1>2, <1>3, <1>5 DEF ClickInv

LEMMA EnvironmentQuiet ==
  ASSUME SubmissionTypeOK, ClickInv,
         \/ EditInputs \/ TimePasses \/ PollRecover \/ CoordinatorRecovers
         \/ \E r \in Rounds : \/ OperatorResumes(r)
                              \/ \E decision \in {"APPROVED", "REJECTED"} : HumanDecides(r, decision)
  PROVE  Quiet
<1>1. pc' = pc /\ held' = held /\ clicks' = clicks
  BY DEF EditInputs, TimePasses, PollRecover, CoordinatorRecovers, OperatorResumes, HumanDecides,
         RecoverActions, Recover, Resume, ResumeDecided, queueVars, domainVars
<1>2. ActionsKept
  <2>1. CASE UNCHANGED action
    BY <2>1 DEF ActionsKept
  <2>2. CASE RecoverActions
    BY <2>2 DEF RecoverActions, GivenUp, ActionsKept, BegunActions, ActiveActions
  <2>3. QED
    BY <2>1, <2>2 DEF EditInputs, TimePasses, PollRecover, CoordinatorRecovers, OperatorResumes,
                      HumanDecides, domainVars
<1>3. SpentKept
  <2>1. CASE UNCHANGED approval
    BY <2>1 DEF SpentKept
  <2>2. CASE TimePasses
    BY <2>2 DEF TimePasses, SpentKept, SubmissionTypeOK, Approvals
  <2>3. ASSUME NEW r \in Rounds, NEW decision \in {"APPROVED", "REJECTED"}, HumanDecides(r, decision)
        PROVE  SpentKept
    <3>1. action[r] \notin BegunActions
      BY <2>3 DEF HumanDecides, ClickInv, BegunSpent
    <3>2. QED
      BY <2>3, <3>1 DEF HumanDecides, SetApproval, SpentKept, SubmissionTypeOK
  <2>4. QED
    BY <2>1, <2>2, <2>3 DEF EditInputs, PollRecover, CoordinatorRecovers, RecoverActions,
                            OperatorResumes, domainVars
<1>4. QED
  BY <1>1, <1>2, <1>3 DEF Quiet, MovesOn

\* One worker moves; the others keep their lease and their place.
LEMMA OneMoves ==
  ASSUME SubmissionTypeOK, NEW w \in Workers, NEW step, Goto(w, step) \/ UNCHANGED pc,
         \A v \in Workers \ {w} : held'[v] = held[v], MovesOn(w)
  PROVE  \A v \in Workers : MovesOn(v)
<1>1. ASSUME NEW v \in Workers \ {w}
      PROVE  MovesOn(v)
  BY <1>1 DEF Goto, MovesOn, SubmissionTypeOK
<1>2. QED
  BY <1>1

LEMMA LoopQuiet ==
  ASSUME SubmissionTypeOK, TypeOK', ClickInv, NEW w \in Workers,
         \/ Startup(w) \/ RunOnce(w) \/ Beat(w) \/ Stop(w) \/ Crash(w) \/ LockTimeout(w)
         \/ EndAttempt(w) \/ LoseLease(w) \/ FailForGood(w)
  PROVE  Quiet
<1>1. clicks' = clicks /\ approval' = approval
  BY DEF Startup, RunOnce, Beat, Stop, Crash, LockTimeout, EndAttempt, LoseLease, FailForGood,
         RecoverActions, domainVars
<1>2. ActionsKept
  <2>1. CASE UNCHANGED action
    BY <2>1 DEF ActionsKept
  <2>2. CASE Startup(w)
    BY <2>2 DEF Startup, RecoverActions, GivenUp, ActionsKept, BegunActions, ActiveActions
  <2>3. QED
    BY <2>1, <2>2 DEF RunOnce, Beat, Stop, Crash, LockTimeout, EndAttempt, LoseLease, FailForGood,
                      domainVars
<1>3. \A v \in Workers \ {w} : held'[v] = held[v]
  BY DEF Startup, RunOnce, Beat, Stop, Crash, LockTimeout, EndAttempt, LoseLease, FailForGood,
         RecoverActions, Claim, Heartbeat, Release, Forget, Fail, queueVars, SubmissionTypeOK,
         TypeOK
<1>4. CASE Beat(w)
  BY <1>1, <1>2, <1>3, <1>4 DEF Beat, Heartbeat, Quiet, SpentKept, MovesOn
<1>5. CASE RunOnce(w)
  <2>1. PICK step \in {"prepare", "validate"} :
          Goto(w, step) /\ (step = "validate" => TaskOf(w)' \notin {ReviewTask[r] : r \in Rounds})
    BY <1>5 DEF RunOnce, TaskOf
  <2>2. held'[w] # Null /\ held'[w] \in Leases /\ pc'[w] = step
    BY <1>5, <2>1 DEF RunOnce, Goto, TypeOK, SubmissionTypeOK
  <2>3. ASSUME step = "validate"
        PROVE  MovesOn(w)
    <3>1. PICK r \in Rounds : TaskOf(w)' \in {ReviewTask[r], SubmitTask[r]}
      BY <2>2, RoundsAssumption DEF TaskOf, Leases
    <3>2. RoundOf(w)' \in Rounds /\ TaskOf(w)' \in {ReviewTask[RoundOf(w)'], SubmitTask[RoundOf(w)']}
      BY <3>1 DEF RoundOf, RoundOfTask
    <3>3. TaskOf(w)' = SubmitTask[RoundOf(w)']
      BY <2>1, <2>3, <3>2
    <3>4. QED
      BY <2>2, <2>3, <3>3 DEF MovesOn
  <2>4. step = "prepare" => MovesOn(w)
    BY <2>2 DEF MovesOn, Acting, SubmissionSteps
  <2>5. QED
    BY <1>1, <1>2, <1>3, <2>1, <2>3, <2>4, OneMoves DEF Quiet, SpentKept
<1>6. CASE \/ Startup(w) \/ Stop(w) \/ Crash(w) \/ LockTimeout(w) \/ EndAttempt(w) \/ LoseLease(w)
           \/ FailForGood(w)
  <2>1. PICK step \in {"starting", "idle", "ended", "stopped"} : Goto(w, step)
    BY <1>6 DEF Startup, Stop, Crash, LockTimeout, EndAttempt, LoseLease, FailForGood, Begun
  <2>2. MovesOn(w)
    BY <2>1 DEF Goto, MovesOn, Acting, SubmissionSteps, SubmissionTypeOK
  <2>3. QED
    BY <1>1, <1>2, <1>3, <2>1, <2>2, OneMoves DEF Quiet, SpentKept
<1>7. QED
  BY <1>4, <1>5, <1>6

LEMMA AttemptQuiet ==
  ASSUME IInv, SubmissionTypeOK, ClickInv, NEW w \in Workers,
         \/ Prepare(w) \/ Announce(w) \/ Validate(w) \/ Compare(w) \/ Revoke(w) \/ NoClick(w)
         \/ Reconcile(w) \/ ReconcileRaises(w) \/ Record(w) \/ Restart(w) \/ Finish(w)
  PROVE  Quiet
<1>1. clicks' = clicks /\ held' = held
  BY DEF Prepare, Announce, Validate, Compare, Revoke, NoClick, Reconcile, ReconcileRaises, Record,
         Restart, Finish, CompleteSpawning, Enqueue, Complete, queueVars, domainVars
<1>2. ActionsKept
  <2>1. CASE UNCHANGED action
    BY <2>1 DEF ActionsKept
  <2>2. CASE Record(w)
    <3>1. action[RoundOf(w)] \in BegunActions
      BY <2>2 DEF Record, ClickInv, ClickersStarted
    <3>2. Recorded(outcome[w]).action \in BegunActions
      BY DEF Recorded, Outcomes, BegunActions, ActiveActions, SubmissionTypeOK
    <3>3. QED
      BY <2>2, <3>1, <3>2 DEF Record, SetAction, ActionsKept, SubmissionTypeOK
  <2>3. QED
    BY <2>1, <2>2 DEF Prepare, Announce, Validate, Compare, Revoke, NoClick, Reconcile,
                      ReconcileRaises, Restart, Finish, domainVars
<1>3. SpentKept
  <2>1. CASE UNCHANGED approval
    BY <2>1 DEF SpentKept
  <2>2. CASE Prepare(w) /\ ~UNCHANGED approval
    <3>1. RoundOf(w) \in Rounds /\ task[SubmitTask[RoundOf(w)]].status = "ABSENT"
      BY <2>2, FencedRound DEF Prepare, CompleteSpawning, SubmissionTypeOK
    <3>2. action[RoundOf(w)] = "NONE"
      BY <3>1 DEF ClickInv, PlannedExists
    <3>3. QED
      BY <2>2, <3>2 DEF Prepare, SpentKept, BegunActions, ActiveActions, SubmissionTypeOK
  <2>3. CASE Validate(w)
    BY <2>3 DEF Validate, SetApproval, SpentKept, ClickInv, BegunSpent, SubmissionTypeOK
  <2>4. CASE Revoke(w)
    BY <2>4
       DEF Revoke, SetApproval, Revoked, SpentKept, ClickInv, BegunSpent, SubmissionTypeOK,
           Approvals
  <2>5. QED
    BY <2>1, <2>2, <2>3, <2>4 DEF Announce, Compare, NoClick, Reconcile, ReconcileRaises, Record,
                                  Restart, Finish, domainVars
<1>4. PICK step : Goto(w, step)
  BY DEF Prepare, Announce, Validate, Compare, Revoke, NoClick, Reconcile, ReconcileRaises, Record,
         Restart, Finish
<1>5. pc'[w] = step
  BY <1>4 DEF Goto, SubmissionTypeOK
<1>6. MovesOn(w)
  <2>1. CASE Prepare(w)
    BY <1>1, <2>1 DEF Prepare, Goto, Fenced, MovesOn, Acting, SubmissionSteps, SubmissionTypeOK
  <2>2. CASE Announce(w) \/ Finish(w) \/ ReconcileRaises(w)
    BY <2>2 DEF Announce, Finish, ReconcileRaises, Goto, MovesOn, Acting, SubmissionSteps,
                SubmissionTypeOK
  <2>3. CASE NoClick(w) \/ Reconcile(w)
    BY <1>1, <2>3 DEF NoClick, Reconcile, Goto, MovesOn, SubmissionTypeOK
  <2>4. CASE Validate(w) \/ Compare(w) \/ Revoke(w)
    BY <1>1, <2>4 DEF Validate, Compare, Revoke, Goto, MovesOn, SubmissionSteps, SubmissionTypeOK
  <2>5. CASE Record(w)
    BY <1>1, <2>5 DEF Record, Recorded, Goto, MovesOn, Outcomes, SubmissionSteps, SubmissionTypeOK
  <2>6. CASE Restart(w)
    BY <1>1, <2>6 DEF Restart, Goto, MovesOn, Acting, SubmissionSteps, SubmissionTypeOK
  <2>7. QED
    BY <2>1, <2>2, <2>3, <2>4, <2>5, <2>6
<1>7. QED
  BY <1>1, <1>2, <1>3, <1>4, <1>6, OneMoves DEF Quiet

-----------------------------------------------------------------------------
(* The steps that plan, start and click *)

\* The rounds of two leases agree only on one round's tasks; each of the three
\* steps changes the row or the clicks of its own round alone.
LEMMA ActingRound ==
  ASSUME SubmissionTypeOK, ClickInv, NEW w \in Workers, pc[w] \in SubmissionSteps
  PROVE  RoundOf(w) \in Rounds /\ held[w] \in Leases /\ TaskOf(w) = SubmitTask[RoundOf(w)]
BY RoundOfLease DEF ClickInv, AttemptsHold, SubmissionTypeOK, TypeOK

LEMMA PlanKeeps ==
  ASSUME IInv, SubmissionTypeOK, ClickInv, NEW w \in Workers, Plan(w)
  PROVE  ClickInv'
<1> DEFINE r == RoundOf(w)
<1>1. r \in Rounds /\ TaskOf(w) = SubmitTask[r] /\ held[w] # Null
  BY ActingRound DEF Plan, SubmissionSteps, Fenced
<1>2. task[SubmitTask[r]].status # "ABSENT"
  BY <1>1 DEF Plan, Fenced, TaskOf
<1>3. /\ UNCHANGED <<queueVars, approval, clicks>>
      /\ \A s \in Rounds \ {r} : action'[s] = action[s]
      /\ action'[r] = action[r] \/ (action[r] = "NONE" /\ action'[r] = "PLANNED")
  BY DEF Plan, SetAction, SubmissionTypeOK
<1>4. /\ \A v \in Workers \ {w} : pc'[v] = pc[v]
      /\ pc'[w] \in SubmissionSteps \ {"submit", "record"}
      /\ pc'[w] = "reconcile" => action[r] \in BegunActions
  BY DEF Plan, Goto, StepFor, SubmissionSteps, BegunActions, ActiveActions, SubmissionTypeOK
<1>5. \A v \in Workers : RoundOf(v)' = RoundOf(v) /\ TaskOf(v)' = TaskOf(v) /\ held'[v] = held[v]
  BY <1>3, RoundStays DEF queueVars
<1>6. \A s \in Rounds : action[s] \in BegunActions => action'[s] = action[s]
  BY <1>3 DEF BegunActions, ActiveActions
<1>7. AttemptsHold'
  BY <1>1, <1>4, <1>5 DEF ClickInv, AttemptsHold, SubmissionSteps
<1>8. PlannedExists'
  BY <1>2, <1>3 DEF ClickInv, PlannedExists, queueVars
<1>9. BegunSpent' /\ ClicksBegun'
  BY <1>3, <1>6 DEF ClickInv, BegunSpent, ClicksBegun, BegunActions, ActiveActions
<1>10. ClickersStarted'
  <2>1. ASSUME NEW v \in Workers, pc'[v] \in {"submit", "reconcile", "record"}
        PROVE  /\ RoundOf(v)' \in Rounds /\ action'[RoundOf(v)'] \in BegunActions
               /\ pc'[v] = "submit" => pc[v] = "submit"
    <3>1. CASE v = w
      BY <1>1, <1>4, <1>5, <1>6, <2>1, <3>1 DEF SubmissionSteps
    <3>2. CASE v # w
      BY <1>4, <1>5, <1>6, <2>1, <3>2, ActingRound DEF ClickInv, ClickersStarted, SubmissionSteps
    <3>3. QED
      BY <3>1, <3>2
  <2>2. QED
    BY <1>3, <1>5, <2>1 DEF ClickInv, ClickersStarted
<1>11. QED
  BY <1>7, <1>8, <1>9, <1>10 DEF ClickInv

LEMMA StartKeeps ==
  ASSUME IInv, SubmissionTypeOK, ClickInv, NEW w \in Workers, Start(w)
  PROVE  ClickInv'
<1> DEFINE r == RoundOf(w)
<1>1. r \in Rounds /\ TaskOf(w) = SubmitTask[r] /\ held[w] # Null
  BY ActingRound DEF Start, SubmissionSteps, Fenced
<1>2. CASE StartAllowed(r) /\ approval[r].content = inputs
  <2>1. /\ UNCHANGED <<queueVars, clicks>>
        /\ \A s \in Rounds \ {r} : action'[s] = action[s] /\ approval'[s] = approval[s]
        /\ action[r] = "PLANNED" /\ action'[r] = "EXECUTING" /\ approval'[r].status = "CONSUMED"
        /\ \A v \in Workers \ {w} : pc'[v] = pc[v]
        /\ pc'[w] = "submit"
    BY <1>1, <1>2
       DEF Start, StartAllowed, SetAction, SetApproval, Goto, SubmissionTypeOK, Approvals
  <2>2. clicks[r] = 0 /\ action[r] \notin BegunActions
    BY <1>1, <2>1 DEF ClickInv, ClicksBegun, BegunActions, ActiveActions, SubmissionTypeOK
  <2>3. \A v \in Workers : RoundOf(v)' = RoundOf(v) /\ TaskOf(v)' = TaskOf(v) /\ held'[v] = held[v]
    BY <2>1, RoundStays DEF queueVars
  <2>4. AttemptsHold'
    BY <1>1, <2>1, <2>3 DEF ClickInv, AttemptsHold, SubmissionSteps
  <2>5. PlannedExists'
    BY <1>1, <2>1 DEF ClickInv, PlannedExists, queueVars
  <2>6. BegunSpent' /\ ClicksBegun'
    BY <1>1, <2>1, <2>2 DEF ClickInv, BegunSpent, ClicksBegun, BegunActions, ActiveActions
  \* Nobody else was at this round's click or at its result.
  <2>7. \A v \in Workers \ {w} : pc[v] \in {"submit", "reconcile", "record"} => RoundOf(v) # r
    BY <2>2 DEF ClickInv, ClickersStarted
  <2>8. ASSUME NEW v \in Workers, pc'[v] \in {"submit", "reconcile", "record"}
        PROVE  action'[RoundOf(v)'] \in BegunActions
    <3>1. CASE v = w
      BY <2>1, <2>3, <3>1 DEF BegunActions, ActiveActions
    <3>2. CASE v # w
      BY <2>1, <2>3, <2>7, <2>8, <3>2, ActingRound DEF ClickInv, ClickersStarted, SubmissionSteps
    <3>3. QED
      BY <3>1, <3>2
  <2>9. ClickersStarted'
    BY <2>1, <2>2, <2>3, <2>7, <2>8 DEF ClickInv, ClickersStarted
  <2>10. QED
    BY <2>4, <2>5, <2>6, <2>9 DEF ClickInv
<1>3. CASE ~(StartAllowed(r) /\ approval[r].content = inputs)
  <2>1. /\ UNCHANGED <<queueVars, action, clicks>> /\ Goto(w, "blocked")
        /\ StartAllowed(r) \/ UNCHANGED approval
    BY <1>3 DEF Start
  <2>2. SpentKept
    <3>1. CASE StartAllowed(r)
      <4>1. action[r] \notin BegunActions
        BY <3>1 DEF StartAllowed, BegunActions, ActiveActions
      <4>2. QED
        BY <3>1, <4>1 DEF Start, SetApproval, SpentKept, SubmissionTypeOK
    <3>2. QED
      BY <2>1, <3>1 DEF SpentKept
  <2>3. MovesOn(w)
    BY <2>1 DEF Start, Goto, MovesOn, SubmissionSteps, SubmissionTypeOK, queueVars
  <2>4. Quiet
    BY <2>1, <2>2, <2>3, OneMoves DEF Quiet, ActionsKept, queueVars
  <2>5. QED
    BY <2>1, <2>4, QuietClickInv
<1>4. QED
  BY <1>2, <1>3

LEMMA ClickKeeps ==
  ASSUME IInv, SubmissionTypeOK, ClickInv, NEW w \in Workers, Click(w)
  PROVE  ClickInv'
<1> DEFINE r == RoundOf(w)
<1>1. r \in Rounds /\ action[r] \in BegunActions /\ clicks[r] = 0
  BY ActingRound DEF Click, ClickInv, ClickersStarted, SubmissionSteps
<1>2. /\ UNCHANGED <<queueVars, approval, action>>
      /\ clicks'[r] = 1 /\ \A s \in Rounds \ {r} : clicks'[s] = clicks[s]
      /\ \A v \in Workers \ {w} : pc'[v] = pc[v]
      /\ pc[w] = "submit" /\ pc'[w] = "record"
  BY <1>1 DEF Click, Goto, SubmissionTypeOK
<1>3. \A v \in Workers : RoundOf(v)' = RoundOf(v) /\ TaskOf(v)' = TaskOf(v) /\ held'[v] = held[v]
  BY <1>2, RoundStays DEF queueVars
<1>4. AttemptsHold'
  BY <1>2, <1>3 DEF ClickInv, AttemptsHold, SubmissionSteps
<1>5. PlannedExists' /\ BegunSpent' /\ ClicksBegun'
  BY <1>1, <1>2 DEF ClickInv, PlannedExists, BegunSpent, ClicksBegun, queueVars
<1>6. \A v \in Workers : pc'[v] \in {"submit", "reconcile", "record"}
                           => action'[RoundOf(v)'] \in BegunActions
  BY <1>1, <1>2, <1>3 DEF ClickInv, ClickersStarted
\* Another worker that is about to click is at another round.
<1>7. \A v \in Workers \ {w} : pc[v] = "submit" => RoundOf(v) \in Rounds \ {r}
  BY <1>2, ActingRound DEF ClickInv, ClickersStarted, SubmissionSteps
<1>8. ClickersStarted'
  BY <1>2, <1>3, <1>6, <1>7 DEF ClickInv, ClickersStarted
<1>9. QED
  BY <1>4, <1>5, <1>8 DEF ClickInv

-----------------------------------------------------------------------------
(* Theorems about the protocol *)

ProtocolInv == IInv /\ SubmissionTypeOK /\ ClickInv

LEMMA InitProtocolInv == SubmissionInit => ProtocolInv
<1> SUFFICES ASSUME SubmissionInit PROVE ProtocolInv
  OBVIOUS
<1>1. \A w \in Workers : pc[w] \in {"starting", "idle"}
  BY DEF SubmissionInit, Begun
<1>2. \A r \in Rounds : action[r] = "NONE" /\ clicks[r] = 0
  BY DEF SubmissionInit
<1>3. ClickInv
  BY <1>1, <1>2 DEF ClickInv, AttemptsHold, PlannedExists, BegunSpent, ClicksBegun, ClickersStarted,
                    SubmissionSteps, BegunActions, ActiveActions
<1>4. QED
  BY <1>3, SubmissionInitIInv, SubmissionInitTypes DEF ProtocolInv

LEMMA StepProtocolInv == ProtocolInv /\ [SubmissionNext]_submissionVars => ProtocolInv'
<1> SUFFICES ASSUME ProtocolInv, [SubmissionNext]_submissionVars PROVE ProtocolInv'
  OBVIOUS
<1>1. IInv /\ SubmissionTypeOK /\ ClickInv
  BY DEF ProtocolInv
<1>2. [Next]_queueVars
  BY <1>1, StepConforms DEF IInv
<1>3. IInv' /\ TypeOK'
  BY <1>1, <1>2, NextIInv DEF IInv
<1>4. SubmissionTypeOK'
  <2>1. CASE UNCHANGED submissionVars
    BY <1>1, <1>3, <2>1 DEF submissionVars, domainVars, SubmissionTypeOK
  <2>2. QED
    BY <1>1, <1>3, <2>1, EnvironmentTypes, LoopTypes, ReviewTypes, SubmitTypes
       DEF ClickInv, SubmissionNext, Attempt
<1>5. ClickInv'
  <2>1. CASE UNCHANGED submissionVars
    <3>1. Quiet
      BY <2>1 DEF submissionVars, domainVars, Quiet, ActionsKept, SpentKept, MovesOn
    <3>2. QED
      BY <1>1, <1>2, <3>1, QuietClickInv
  <2>2. CASE \E w \in Workers : Plan(w) \/ Start(w) \/ Click(w)
    BY <1>1, <2>2, PlanKeeps, StartKeeps, ClickKeeps
  <2>3. Quiet \/ UNCHANGED submissionVars \/ \E w \in Workers : Plan(w) \/ Start(w) \/ Click(w)
    BY <1>1, <1>3, EnvironmentQuiet, LoopQuiet, AttemptQuiet DEF SubmissionNext, Attempt
  <2>4. QED
    BY <1>1, <1>2, <2>1, <2>2, <2>3, QuietClickInv
<1>6. QED
  BY <1>3, <1>4, <1>5 DEF ProtocolInv

\* The inductive invariant behind the clicks holds in every state.
THEOREM ProtocolInvariance == SubmissionSpec => []ProtocolInv
BY InitProtocolInv, StepProtocolInv, PTL DEF SubmissionSpec

\* Reviews, approvals, ledger rows, clicks and attempts keep their types.
THEOREM SubmissionTypeCorrect == SubmissionSpec => []SubmissionTypeOK
<1>1. ProtocolInv => SubmissionTypeOK
  BY DEF ProtocolInv
<1>2. QED
  BY <1>1, ProtocolInvariance, PTL

\* An approval buys one click: a review is clicked at most once, and only with
\* its approval consumed, for any number of workers, attempts, crashes and
\* recoveries.
THEOREM ClickOnce == SubmissionSpec => []OneClickPerApproval
<1>1. ProtocolInv => OneClickPerApproval
  BY DEF ProtocolInv, ClickInv, ClicksBegun, BegunSpent, BegunActions, OneClickPerApproval
<1>2. QED
  BY <1>1, ProtocolInvariance, PTL

-----------------------------------------------------------------------------
(* One review after the other: the ledger, the portal and what is recorded   *)

Unresolved == {"EXECUTING", "UNKNOWN_RESULT"}
Resolving == {"submit", "reconcile", "record"}

\* While it owns its task, a worker that resolves an action has one to resolve.
OwnersUnresolved ==
  \A w \in Workers : Owns(w) /\ pc[w] \in Resolving => action[RoundOf(w)] \in Unresolved

RestartsFailed == \A w \in Workers : pc[w] = "restart" => action[RoundOf(w)] = "FAILED"

Exists(t) == task[t].status # "ABSENT"

ReviewsFirst == \A r \in Rounds : Exists(SubmitTask[r]) => Exists(ReviewTask[r])

\* A round begins when all earlier ones have failed, which is final.
RoundsFailed ==
  \A r, s \in Rounds : r < s /\ Exists(ReviewTask[s]) => action[r] = "FAILED"

ConfirmedAccepted ==
  \A w \in Workers : pc[w] = "record" /\ outcome[w] = "CONFIRMED" => accepted # {}

\* A review that was requested has its submission task, and a worker that
\* compares or revokes has found a decision.
DecidedKnown ==
  /\ \A r \in Rounds : approval[r].status # "NONE" => Exists(SubmitTask[r])
  /\ \A w \in Workers : pc[w] \in {"compare", "revoke"}
                          => approval[RoundOf(w)].status \notin {"NONE", "PENDING"}

LedgerInv ==
  /\ OwnersUnresolved /\ RestartsFailed /\ ReviewsFirst /\ RoundsFailed
  /\ ConfirmedAccepted /\ SubmittedIsReal /\ DecidedKnown

LEMMA LedgerOneActive ==
  ASSUME ClickInv, ReviewsFirst, RoundsFailed
  PROVE  OneActiveAction
<1> SUFFICES ASSUME NEW r \in Rounds, NEW s \in Rounds, {action[r], action[s]} \subseteq ActiveActions
             PROVE  r = s
  BY DEF OneActiveAction
<1>1. Exists(ReviewTask[r]) /\ Exists(ReviewTask[s])
  BY DEF ClickInv, PlannedExists, ReviewsFirst, Exists, ActiveActions
<1>2. ~(r < s) /\ ~(s < r)
  BY <1>1 DEF RoundsFailed, ActiveActions
<1>3. QED
  BY <1>2 DEF Rounds

\* Where a worker that resolves, or goes on after a failure, comes from.
LEMMA Comes ==
  ASSUME SubmissionTypeOK, TypeOK', [SubmissionNext]_submissionVars, NEW w \in Workers,
         pc'[w] \in Resolving \cup {"restart", "compare", "revoke"}
  PROVE  \/ pc'[w] = pc[w] /\ held'[w] = held[w] /\ outcome'[w] = outcome[w]
         \/ Validate(w) \/ Compare(w) \/ Plan(w) \/ Start(w) \/ Click(w) \/ NoClick(w)
         \/ Reconcile(w) \/ Record(w)
<1> DEFINE Same(v) == pc'[v] = pc[v] /\ held'[v] = held[v] /\ outcome'[v] = outcome[v]
<1>1. CASE \/ UNCHANGED submissionVars
           \/ EditInputs \/ TimePasses \/ PollRecover \/ CoordinatorRecovers
           \/ \E r \in Rounds : \/ OperatorResumes(r)
                                \/ \E decision \in {"APPROVED", "REJECTED"} : HumanDecides(r, decision)
  <2>1. pc' = pc /\ held' = held /\ outcome' = outcome
    BY <1>1 DEF submissionVars, EditInputs, TimePasses, PollRecover, CoordinatorRecovers,
       OperatorResumes, HumanDecides, RecoverActions, Recover, Resume, ResumeDecided, queueVars
  <2>2. QED
    BY <2>1
<1>2. ASSUME NEW v \in Workers,
             \/ Startup(v) \/ RunOnce(v) \/ Beat(v) \/ Stop(v) \/ Crash(v) \/ LockTimeout(v)
             \/ EndAttempt(v) \/ LoseLease(v) \/ FailForGood(v)
      PROVE  Same(w)
  <2>1. CASE Beat(v)
    BY <2>1 DEF Beat, Heartbeat
  <2>2. CASE ~Beat(v)
    <3>1. \/ Startup(v) \/ RunOnce(v) \/ Stop(v) \/ Crash(v) \/ LockTimeout(v) \/ EndAttempt(v)
          \/ LoseLease(v) \/ FailForGood(v)
      BY <1>2, <2>2
    <3>2. PICK step \in {"starting", "idle", "ended", "stopped", "prepare", "validate"} : Goto(v, step)
      BY <3>1
         DEF Startup, RunOnce, Stop, Crash, LockTimeout, EndAttempt, LoseLease, FailForGood, Begun
    <3>3. v # w
      BY <3>2 DEF Goto, SubmissionTypeOK, Resolving
    <3>4. held'[w] = held[w]
      BY <3>1, <3>3 DEF Startup, RunOnce, Stop, Crash, LockTimeout, EndAttempt, LoseLease,
         FailForGood, RecoverActions, Claim, Release, Forget, Fail, queueVars, SubmissionTypeOK,
         TypeOK
    <3>5. outcome'[w] = outcome[w]
      BY <3>1, <3>3 DEF Startup, RunOnce, Stop, Crash, LockTimeout, EndAttempt, LoseLease,
         FailForGood, RecoverActions, SubmissionTypeOK
    <3>6. QED
      BY <3>2, <3>3, <3>4, <3>5 DEF Goto, SubmissionTypeOK
  <2>3. QED
    BY <2>1, <2>2
<1>3. ASSUME NEW v \in Workers,
             \/ Prepare(v) \/ Announce(v) \/ Validate(v) \/ Compare(v) \/ Revoke(v) \/ Plan(v)
             \/ Start(v) \/ Click(v) \/ NoClick(v) \/ Reconcile(v) \/ ReconcileRaises(v) \/ Record(v)
             \/ Restart(v) \/ Finish(v)
      PROVE  \/ Same(w)
             \/ Validate(w) \/ Compare(w) \/ Plan(w) \/ Start(w) \/ Click(w) \/ NoClick(w)
             \/ Reconcile(w) \/ Record(w)
  <2>1. CASE v = w
    <3>1. CASE Prepare(v) \/ Announce(v) \/ Revoke(v) \/ ReconcileRaises(v) \/ Restart(v) \/ Finish(v)
      <4>1. \E step \in {"announce", "failing", "ended", "blocked", "finish"} : Goto(v, step)
        BY <3>1 DEF Prepare, Announce, Revoke, ReconcileRaises, Restart, Finish
      <4>2. FALSE
        BY <2>1, <4>1 DEF Goto, SubmissionTypeOK, Resolving
      <4>3. QED
        BY <4>2
    <3>2. QED
      BY <1>3, <2>1, <3>1
  <2>2. CASE v # w
    <3>1. /\ held' = held /\ \E step : Goto(v, step)
          /\ outcome' = outcome \/ \E result : outcome' = [outcome EXCEPT ![v] = result]
      BY <1>3
         DEF Prepare, Announce, Validate, Compare, Revoke, Plan, Start, Click, NoClick, Reconcile,
         ReconcileRaises, Record, Restart, Finish, CompleteSpawning, Enqueue, Complete, queueVars
    <3>2. QED
      BY <2>2, <3>1 DEF Goto, SubmissionTypeOK
  <2>3. QED
    BY <2>1, <2>2
<1>4. QED
  BY <1>1, <1>2, <1>3 DEF SubmissionNext, Attempt

\* The ledger rows that a step changes.
LEMMA ActionMoves ==
  ASSUME SubmissionTypeOK, ClickInv, [SubmissionNext]_submissionVars, NEW r \in Rounds
  PROVE  \/ action'[r] = action[r]
         \/ action[r] = "NONE" /\ action'[r] = "PLANNED"
         \/ /\ action[r] = "PLANNED" /\ action'[r] = "EXECUTING"
            /\ \E w \in Workers : Start(w) /\ RoundOf(w) = r
         \/ action[r] = "EXECUTING" /\ action'[r] = "UNKNOWN_RESULT"
         \/ \E w \in Workers : Record(w) /\ RoundOf(w) = r
<1>1. CASE UNCHANGED action
  BY <1>1
<1>2. CASE RecoverActions
  BY <1>2 DEF RecoverActions, GivenUp
<1>3. ASSUME NEW w \in Workers, Plan(w)
      PROVE  action'[r] = action[r] \/ (action[r] = "NONE" /\ action'[r] = "PLANNED")
  BY <1>3 DEF Plan, SetAction, SubmissionTypeOK
<1>4. ASSUME NEW w \in Workers, Start(w), action'[r] # action[r]
      PROVE  action[r] = "PLANNED" /\ action'[r] = "EXECUTING" /\ RoundOf(w) = r
  BY <1>4 DEF Start, StartAllowed, SetAction, SubmissionTypeOK
<1>5. ASSUME NEW w \in Workers, Record(w), action'[r] # action[r]
      PROVE  RoundOf(w) = r
  BY <1>5 DEF Record, SetAction, SubmissionTypeOK
<1>6. CASE \/ UNCHANGED submissionVars
           \/ EditInputs \/ TimePasses \/ PollRecover \/ CoordinatorRecovers
           \/ \E q \in Rounds : \/ OperatorResumes(q)
                                \/ \E decision \in {"APPROVED", "REJECTED"} : HumanDecides(q, decision)
  BY <1>1, <1>2, <1>6 DEF submissionVars, EditInputs, TimePasses, PollRecover, CoordinatorRecovers,
     OperatorResumes, HumanDecides, domainVars
<1>7. ASSUME NEW w \in Workers,
             \/ Startup(w) \/ RunOnce(w) \/ Beat(w) \/ Stop(w) \/ Crash(w) \/ LockTimeout(w)
             \/ EndAttempt(w) \/ LoseLease(w) \/ FailForGood(w)
             \/ Prepare(w) \/ Announce(w) \/ Validate(w) \/ Compare(w) \/ Revoke(w) \/ Click(w)
             \/ NoClick(w) \/ Reconcile(w) \/ ReconcileRaises(w) \/ Restart(w) \/ Finish(w)
      PROVE  UNCHANGED action \/ RecoverActions
  BY <1>7, Zenon DEF Startup, RunOnce, Beat, Stop, Crash, LockTimeout, EndAttempt, LoseLease,
     FailForGood, Prepare, Announce, Validate, Compare, Revoke, Click, NoClick, Reconcile,
     ReconcileRaises, Restart, Finish, domainVars
<1>8. QED
  BY <1>1, <1>2, <1>3, <1>4, <1>5, <1>6, <1>7, Zenon DEF SubmissionNext, Attempt

\* Only the owner of its task resolves an action, and only an unresolved one.
LEMMA RecordsUnresolved ==
  ASSUME ProtocolInv, LedgerInv, NEW w \in Workers, Record(w)
  PROVE  RoundOf(w) \in Rounds /\ Owns(w) /\ action[RoundOf(w)] \in Unresolved
<1>1. pc[w] = "record" /\ Owns(w)
  BY FencedOwns DEF Record
<1>2. RoundOf(w) \in Rounds
  BY <1>1, ActingRound DEF ProtocolInv, SubmissionSteps
<1>3. QED
  BY <1>1, <1>2 DEF LedgerInv, OwnersUnresolved, Resolving

\* FAILED and SUCCEEDED are final.
LEMMA ResolvedFinal ==
  ASSUME ProtocolInv, LedgerInv, [SubmissionNext]_submissionVars, NEW r \in Rounds,
         action[r] \in {"FAILED", "SUCCEEDED"}
  PROVE  action'[r] = action[r]
<1>1. \A w \in Workers : Record(w) => RoundOf(w) # r
  BY RecordsUnresolved DEF Unresolved
<1>2. QED
  BY <1>1, ActionMoves DEF ProtocolInv

LEMMA QueueSteps ==
  ASSUME ProtocolInv, [SubmissionNext]_submissionVars
  PROVE  IInv' /\ TypeOK' /\ SubmissionTypeOK' /\ [Next]_queueVars
BY StepProtocolInv, StepConforms DEF ProtocolInv, IInv

LEMMA OwnersUnresolvedKept ==
  ASSUME ProtocolInv, LedgerInv, [SubmissionNext]_submissionVars
  PROVE  OwnersUnresolved'
<1> SUFFICES ASSUME NEW w \in Workers, Owns(w)', pc'[w] \in Resolving
             PROVE  action'[RoundOf(w)'] \in Unresolved
  BY DEF OwnersUnresolved
<1>0. TypeOK' /\ SubmissionTypeOK /\ [Next]_queueVars /\ IInv /\ ClickInv
  BY QueueSteps DEF ProtocolInv
<1>1. CASE Plan(w)
  <2>1. RoundOf(w)' = RoundOf(w) /\ RoundOf(w) \in Rounds
    BY <1>0, <1>1, RoundStays, FencedRound DEF Plan, queueVars, IInv
  <2>2. pc'[w] = "reconcile"
    BY <1>0, <1>1 DEF Plan, Goto, StepFor, Resolving, SubmissionTypeOK
  <2>3. action[RoundOf(w)] \in Unresolved /\ action'[RoundOf(w)] = action[RoundOf(w)]
    BY <1>0, <1>1, <2>1, <2>2 DEF Plan, Goto, StepFor, Unresolved, SetAction, SubmissionTypeOK
  <2>4. QED
    BY <2>1, <2>3
<1>2. CASE Start(w)
  <2>1. RoundOf(w)' = RoundOf(w) /\ RoundOf(w) \in Rounds
    BY <1>0, <1>2, RoundStays, FencedRound DEF Start, queueVars, IInv
  <2>2. action'[RoundOf(w)] = "EXECUTING"
    BY <1>0, <1>2, <2>1 DEF Start, Goto, SetAction, Resolving, SubmissionTypeOK
  <2>3. QED
    BY <2>1, <2>2 DEF Unresolved
<1>3. CASE pc[w] \in Resolving /\ held'[w] = held[w] /\ ~Record(w)
  <2>1. Owns(w) /\ RoundOf(w)' = RoundOf(w)
    BY <1>0, <1>3, OwnedBefore, RoundStays
  <2>2. RoundOf(w) \in Rounds /\ TaskOf(w) = SubmitTask[RoundOf(w)]
        /\ action[RoundOf(w)] \in Unresolved
    BY <1>0, <1>3, <2>1, ActingRound DEF LedgerInv, OwnersUnresolved, Resolving, SubmissionSteps
  \* Another worker that records this round's result would own the same task.
  <2>3. ASSUME NEW v \in Workers, Record(v), RoundOf(v) = RoundOf(w)
        PROVE  FALSE
    <3>1. Owns(v) /\ TaskOf(v) = SubmitTask[RoundOf(v)]
      BY <1>0, <2>3, FencedOwns, ActingRound DEF Record, SubmissionSteps
    <3>2. v = w
      BY <1>0, <2>1, <2>2, <2>3, <3>1, SoleOwner DEF TaskOf
    <3>3. QED
      BY <1>3, <2>3, <3>2
  <2>4. action'[RoundOf(w)] \in Unresolved
    BY <1>0, <2>2, <2>3, ActionMoves DEF Unresolved
  <2>5. QED
    BY <2>1, <2>4
<1>4. ~Record(w) /\ ~Validate(w) /\ ~Compare(w)
  BY <1>0 DEF Record, Recorded, Validate, Compare, Goto, Resolving, Outcomes, SubmissionTypeOK
<1>5. CASE Click(w) \/ NoClick(w) \/ Reconcile(w)
  BY <1>3, <1>4, <1>5 DEF Click, NoClick, Reconcile, Resolving, queueVars
<1>6. QED
  BY <1>0, <1>1, <1>2, <1>3, <1>4, <1>5, Comes

LEMMA RestartsFailedKept ==
  ASSUME ProtocolInv, LedgerInv, [SubmissionNext]_submissionVars
  PROVE  RestartsFailed'
<1> SUFFICES ASSUME NEW w \in Workers, pc'[w] = "restart"
             PROVE  action'[RoundOf(w)'] = "FAILED"
  BY DEF RestartsFailed
<1>0. TypeOK' /\ SubmissionTypeOK /\ ClickInv
  BY QueueSteps DEF ProtocolInv
<1>1. CASE Record(w)
  <2>1. RoundOf(w)' = RoundOf(w) /\ RoundOf(w) \in Rounds
    BY <1>1, RoundStays, RecordsUnresolved DEF Record, queueVars
  <2>2. Recorded(outcome[w]).then = "restart"
    BY <1>0, <1>1 DEF Record, Goto, SubmissionTypeOK
  <2>3. Recorded(outcome[w]).action = "FAILED"
    BY <1>0, <2>2 DEF Recorded, Outcomes, SubmissionTypeOK
  <2>4. QED
    BY <1>0, <1>1, <2>1, <2>3 DEF Record, SetAction, SubmissionTypeOK
<1>2. CASE pc[w] = "restart" /\ held'[w] = held[w]
  <2>1. RoundOf(w) \in Rounds /\ RoundOf(w)' = RoundOf(w) /\ action[RoundOf(w)] = "FAILED"
    BY <1>0, <1>2, ActingRound, RoundStays DEF SubmissionSteps, LedgerInv, RestartsFailed
  <2>2. QED
    BY <2>1, ResolvedFinal
<1>3. ~Validate(w) /\ ~Compare(w) /\ ~Plan(w) /\ ~Start(w) /\ ~Click(w) /\ ~NoClick(w) /\ ~Reconcile(w)
  BY <1>0
     DEF Validate, Compare, Plan, StepFor, Start, Click, NoClick, Reconcile, Goto, SubmissionTypeOK
<1>4. QED
  BY <1>0, <1>1, <1>2, <1>3, Comes

\* The two actions that create rows, and which.
LEMMA NewRowOf ==
  ASSUME ProtocolInv, [SubmissionNext]_submissionVars, NEW t \in Tasks, ~Exists(t), Exists(t)'
  PROVE  \E w \in Workers :
           /\ RoundOf(w) \in Rounds /\ Exists(TaskOf(w))
           /\ \/ /\ Prepare(w) /\ t = SubmitTask[RoundOf(w)]
                 /\ TaskOf(w) = ReviewTask[RoundOf(w)]
                 /\ approval'[RoundOf(w)].status = "PENDING"
              \/ /\ Restart(w) /\ RoundOf(w) + 1 \in Rounds /\ t = ReviewTask[RoundOf(w) + 1]
                 /\ TaskOf(w) = SubmitTask[RoundOf(w)]
<1>0. IInv /\ TypeOK /\ SubmissionTypeOK /\ ClickInv /\ task[t].status = "ABSENT" /\ task'[t].status # "ABSENT"
  BY DEF ProtocolInv, IInv, Exists
<1>1. ~UNCHANGED task /\ ~Recover /\ ~Tick
  BY <1>0, NoNewRow
<1>2. \A u \in Tasks, reply \in Replies : ~Resume(u, reply)
  BY <1>0, NoNewRow
<1>3. ASSUME NEW w \in Workers
      PROVE  /\ ~Claim(w) /\ ~Heartbeat(w) /\ ~Release(w) /\ ~Forget(w)
             /\ \A memory \in Memories, waiting \in BOOLEAN : ~Complete(w, memory, waiting)
             /\ \A retryable \in BOOLEAN : ~Fail(w, retryable)
  BY <1>0, NoNewRow
<1>4. ~TimePasses
  BY <1>0, OlderFields DEF TimePasses, TypeOK
<1>5. \A r \in Rounds : ~OperatorResumes(r) /\ \A decision \in {"APPROVED", "REJECTED"} : ~HumanDecides(r, decision)
  <2> SUFFICES ASSUME NEW r \in Rounds
               PROVE  /\ ~OperatorResumes(r)
                      /\ \A decision \in {"APPROVED", "REJECTED"} : ~HumanDecides(r, decision)
    OBVIOUS
  <2>1. \A interrupt \in Interrupts :
          ~Resume(SubmitTask[r], [interrupt_id |-> interrupt, value |-> "reply"])
    BY <1>2, RoundsTasks, RepliesHere
  <2>2. task[SubmitTask[r]].memory.interrupts \subseteq Interrupts
    BY <1>0, RoundsTasks DEF TypeOK, Rows, Memories
  <2>3. QED
    BY <1>1, <2>1, <2>2, InterruptsAssumption
       DEF OperatorResumes, HumanDecides, ResumeDecided, queueVars
<1>6. \A w \in Workers : ~Finish(w)
  <2> SUFFICES ASSUME NEW w \in Workers, Finish(w) PROVE FALSE
    OBVIOUS
  <2>1. PICK waiting \in BOOLEAN :
          Complete(w, [NoMemory EXCEPT !.interrupts = IF waiting THEN {"submission"} ELSE {}], waiting)
    BY DEF Finish
  <2>2. [NoMemory EXCEPT !.interrupts = IF waiting THEN {"submission"} ELSE {}] \in Memories
    BY InterruptsAssumption DEF NoMemory, Memories
  <2>3. QED
    BY <1>3, <2>1, <2>2
<1>7. ASSUME NEW w \in Workers,
             \/ Startup(w) \/ RunOnce(w) \/ Beat(w) \/ Stop(w) \/ Crash(w) \/ LockTimeout(w)
             \/ EndAttempt(w) \/ LoseLease(w) \/ FailForGood(w)
      PROVE  FALSE
  BY <1>1, <1>3, <1>7 DEF Startup, RunOnce, Beat, Stop, Crash, LockTimeout, EndAttempt, LoseLease,
     FailForGood, RecoverActions, queueVars
<1>8. ASSUME NEW w \in Workers,
             \/ Announce(w) \/ Validate(w) \/ Compare(w) \/ Revoke(w) \/ Plan(w) \/ Start(w)
             \/ Click(w) \/ NoClick(w) \/ Reconcile(w) \/ ReconcileRaises(w) \/ Record(w)
      PROVE  FALSE
  BY <1>1, <1>8 DEF Announce, Validate, Compare, Revoke, Plan, Start, Click, NoClick, Reconcile,
     ReconcileRaises, Record, queueVars
<1>9. ~UNCHANGED submissionVars /\ ~EditInputs /\ ~PollRecover /\ ~CoordinatorRecovers
  BY <1>1
     DEF submissionVars, EditInputs, PollRecover, CoordinatorRecovers, RecoverActions, queueVars
<1>10. PICK w \in Workers : Prepare(w) \/ Restart(w)
  BY <1>4, <1>5, <1>6, <1>7, <1>8, <1>9, Zenon DEF SubmissionNext, Attempt
<1>11. /\ RoundOf(w) \in Rounds /\ TaskOf(w) \in {ReviewTask[RoundOf(w)], SubmitTask[RoundOf(w)]}
       /\ TaskOf(w) \in Tasks /\ task[TaskOf(w)].status = "ACTIVE"
  BY <1>0, <1>10, FencedRound, FencedRow DEF Prepare, Restart, TaskOf
<1>12. CASE Prepare(w)
  <2>1. CompleteSpawning(w, SubmitTask[RoundOf(w)], {"approval"})
    BY <1>1, <1>12 DEF Prepare, queueVars
  <2>2. task[SubmitTask[RoundOf(w)]].status = "ABSENT"
    BY <2>1 DEF CompleteSpawning
  <2>3. t = SubmitTask[RoundOf(w)]
    BY <1>0, <1>11, <2>1 DEF CompleteSpawning, TaskOf, TypeOK
  <2>4. approval'[RoundOf(w)].status = "PENDING"
    <3>1. approval' = [approval EXCEPT ![RoundOf(w)] =
                         [status |-> "PENDING", valid |-> ApprovalSeconds, content |-> inputs]]
      BY <1>1, <1>12 DEF Prepare, queueVars
    <3>2. QED
      BY <1>0, <1>11, <3>1 DEF SubmissionTypeOK
  <2>5. QED
    BY <1>11, <1>12, <2>2, <2>3, <2>4 DEF Exists
<1>13. CASE Restart(w)
  <2>1. RoundOf(w) + 1 \in Rounds /\ Enqueue(ReviewTask[RoundOf(w) + 1])
    BY <1>1, <1>13 DEF Restart, queueVars
  <2>2. t = ReviewTask[RoundOf(w) + 1]
    BY <1>0, <2>1 DEF Enqueue, TypeOK
  <2>3. TaskOf(w) = SubmitTask[RoundOf(w)]
    BY <1>0, <1>13, ActingRound DEF Restart, SubmissionSteps
  <2>4. QED
    BY <1>11, <1>13, <2>1, <2>2, <2>3 DEF Exists
<1>14. QED
  BY <1>10, <1>12, <1>13

LEMMA ReviewsFirstKept ==
  ASSUME ProtocolInv, LedgerInv, [SubmissionNext]_submissionVars
  PROVE  ReviewsFirst'
<1> SUFFICES ASSUME NEW r \in Rounds, Exists(SubmitTask[r])'
             PROVE  Exists(ReviewTask[r])'
  BY DEF ReviewsFirst
<1>0. IInv /\ [Next]_queueVars /\ ReviewTask[r] \in Tasks /\ SubmitTask[r] \in Tasks
  BY QueueSteps, RoundsTasks DEF ProtocolInv
<1>1. Exists(ReviewTask[r])
  <2>1. CASE Exists(SubmitTask[r])
    BY <2>1 DEF LedgerInv, ReviewsFirst
  <2>2. CASE ~Exists(SubmitTask[r])
    <3>1. \/ \E w \in Workers : RoundOf(w) \in Rounds /\ Exists(TaskOf(w))
                                /\ SubmitTask[r] = SubmitTask[RoundOf(w)]
                                /\ TaskOf(w) = ReviewTask[RoundOf(w)]
          \/ \E s \in Rounds : SubmitTask[r] = ReviewTask[s]
      BY <1>0, <2>2, NewRowOf
    <3>2. QED
      BY <3>1, RoundsAssumption
  <2>3. QED
    BY <2>1, <2>2
<1>2. QED
  BY <1>0, <1>1, RowsStay DEF Exists

LEMMA RoundsFailedKept ==
  ASSUME ProtocolInv, LedgerInv, [SubmissionNext]_submissionVars
  PROVE  RoundsFailed'
<1> SUFFICES ASSUME NEW r \in Rounds, NEW s \in Rounds, r < s, Exists(ReviewTask[s])'
             PROVE  action'[r] = "FAILED"
  BY DEF RoundsFailed
<1>0. ReviewTask[s] \in Tasks
  BY RoundsTasks
<1>1. action[r] = "FAILED"
  <2>1. CASE Exists(ReviewTask[s])
    BY <2>1 DEF LedgerInv, RoundsFailed
  <2>2. CASE ~Exists(ReviewTask[s])
    \* The worker that asks for round s has a failed action in round s - 1.
    <3>1. PICK w \in Workers :
            /\ RoundOf(w) \in Rounds /\ Exists(TaskOf(w))
            /\ \/ ReviewTask[s] = SubmitTask[RoundOf(w)]
               \/ /\ Restart(w) /\ RoundOf(w) + 1 \in Rounds
                  /\ ReviewTask[s] = ReviewTask[RoundOf(w) + 1]
                  /\ TaskOf(w) = SubmitTask[RoundOf(w)]
      BY <1>0, <2>2, NewRowOf
    <3>2. s = RoundOf(w) + 1 /\ Restart(w) /\ Exists(SubmitTask[RoundOf(w)])
      BY <3>1, RoundsAssumption
    <3>3. action[RoundOf(w)] = "FAILED" /\ Exists(ReviewTask[RoundOf(w)])
      BY <3>1, <3>2 DEF Restart, LedgerInv, RestartsFailed, ReviewsFirst
    <3>4. r = RoundOf(w) \/ r < RoundOf(w)
      BY <3>1, <3>2 DEF Rounds
    <3>5. QED
      BY <3>1, <3>3, <3>4 DEF LedgerInv, RoundsFailed
  <2>3. QED
    BY <2>1, <2>2
<1>2. QED
  BY <1>1, ResolvedFinal

\* Only a click in the portal makes it accept.
LEMMA AcceptedChanges ==
  ASSUME [SubmissionNext]_submissionVars, accepted' # accepted
  PROVE  \E w \in Workers : Click(w) /\ accepted' = accepted \cup {RoundOf(w)}
<1>1. PICK w \in Workers : Click(w)
  BY ZenonT(30)
     DEF submissionVars, domainVars, SubmissionNext, Attempt, EditInputs, TimePasses, PollRecover,
         CoordinatorRecovers, RecoverActions, OperatorResumes, HumanDecides, Startup, RunOnce, Beat,
         Stop, Crash, LockTimeout, Prepare, Announce, Validate, Compare, Revoke, Plan, Start,
         NoClick, Reconcile, ReconcileRaises, Record, Restart, Finish, FailForGood, LoseLease,
         EndAttempt
<1>2. QED
  BY <1>1 DEF Click

LEMMA ConfirmedAcceptedKept ==
  ASSUME ProtocolInv, LedgerInv, [SubmissionNext]_submissionVars
  PROVE  ConfirmedAccepted' /\ (accepted # {} => accepted' # {})
<1>0. TypeOK' /\ SubmissionTypeOK
  BY QueueSteps DEF ProtocolInv
<1>1. accepted # {} => accepted' # {}
  BY AcceptedChanges
<1>2. ASSUME NEW w \in Workers, pc'[w] = "record", outcome'[w] = "CONFIRMED"
      PROVE  accepted' # {}
  <2>1. CASE pc'[w] = pc[w] /\ outcome'[w] = outcome[w]
    BY <1>1, <1>2, <2>1 DEF LedgerInv, ConfirmedAccepted
  <2>2. CASE Click(w)
    BY <1>0, <1>2, <2>2 DEF Click, SubmissionTypeOK
  <2>3. CASE Reconcile(w)
    BY <1>0, <1>1, <1>2, <2>3 DEF Reconcile, ReconcileResults, SubmissionTypeOK
  <2>4. ~NoClick(w) /\ ~Validate(w) /\ ~Compare(w) /\ ~Plan(w) /\ ~Start(w) /\ ~Record(w)
    BY <1>0, <1>2 DEF NoClick, Validate, Compare, Plan, StepFor, Start, Record, Recorded, Goto,
       Outcomes, SubmissionTypeOK
  <2>5. QED
    BY <1>0, <1>2, <2>1, <2>2, <2>3, <2>4, Comes DEF Resolving
<1>3. QED
  BY <1>1, <1>2 DEF ConfirmedAccepted

\* What the ledger says of success is what the application says.
SuccessKept ==
  /\ app'.status = "SUBMITTED" <=> app.status = "SUBMITTED"
  /\ followed' = followed
  /\ \A r \in Rounds : action'[r] = "SUCCEEDED" <=> action[r] = "SUCCEEDED"

\* An action in flight is the only one, so nothing has succeeded yet.
LEMMA NothingSucceeded ==
  ASSUME ProtocolInv, LedgerInv, NEW r \in Rounds, action[r] \in Unresolved
  PROVE  /\ \A s \in Rounds : action[s] # "SUCCEEDED"
         /\ app.status # "SUBMITTED" /\ followed = FALSE
<1>1. OneActiveAction
  BY LedgerOneActive DEF ProtocolInv, LedgerInv
<1>2. \A s \in Rounds : action[s] # "SUCCEEDED"
  BY <1>1 DEF OneActiveAction, ActiveActions, Unresolved
<1>3. QED
  BY <1>2 DEF LedgerInv, SubmittedIsReal, ProtocolInv, SubmissionTypeOK

LEMMA RecoverySuccess ==
  ASSUME ProtocolInv, LedgerInv, RecoverActions
  PROVE  SuccessKept
<1>1. /\ \A r \in Rounds : action'[r] = "SUCCEEDED" <=> action[r] = "SUCCEEDED"
      /\ followed' = followed
  BY DEF RecoverActions, GivenUp
<1>2. CASE action' = action
  BY <1>1, <1>2 DEF RecoverActions, SuccessKept
<1>3. CASE action' # action
  <2>1. action \in [Rounds -> ActionStatuses] /\ app \in Apps
    BY DEF ProtocolInv, SubmissionTypeOK
  <2>2. PICK r \in Rounds : action[r] = "EXECUTING"
    <3>1. SUFFICES ASSUME \A r \in Rounds : action[r] # "EXECUTING" PROVE FALSE
      OBVIOUS
    <3>2. action' = [r \in Rounds |-> action[r]]
      BY <3>1 DEF RecoverActions, GivenUp
    <3>3. QED
      BY <1>3, <2>1, <3>2
  <2>3. app.status # "SUBMITTED"
    BY <2>2, NothingSucceeded DEF Unresolved
  <2>4. app'.status = "SUBMISSION_UNKNOWN"
    BY <1>3, <2>1 DEF RecoverActions, SetApp, Apps
  <2>5. QED
    BY <1>1, <2>3, <2>4 DEF SuccessKept
<1>4. QED
  BY <1>2, <1>3

LEMMA WorkerSuccess ==
  ASSUME ProtocolInv, LedgerInv, NEW w \in Workers,
         Plan(w) \/ Start(w) \/ Revoke(w) \/ Prepare(w) \/ Restart(w)
  PROVE  SuccessKept
<1>1. action \in [Rounds -> ActionStatuses] /\ app \in Apps /\ TypeOK
  BY DEF ProtocolInv, SubmissionTypeOK
<1>2. CASE Plan(w)
  BY <1>1, <1>2 DEF Plan, SetAction, SuccessKept
<1>3. CASE Start(w)
  <2>1. CASE UNCHANGED <<action, app>>
    BY <1>3, <2>1 DEF Start, SuccessKept
  <2>2. CASE StartAllowed(RoundOf(w)) /\ SetAction(RoundOf(w), "EXECUTING") /\ SetApp("SUBMITTING")
    BY <1>1, <1>3, <2>2 DEF Start, StartAllowed, SetAction, SetApp, SuccessKept, Apps
  <2>3. QED
    BY <1>3, <2>1, <2>2 DEF Start
<1>4. CASE Revoke(w)
  BY <1>1, <1>4 DEF Revoke, SetApp, BackToReview, SuccessKept, Apps
<1>5. CASE Prepare(w) \/ Restart(w)
  BY <1>1, <1>5 DEF Prepare, Restart, SuccessKept, Apps
<1>6. QED
  BY <1>2, <1>3, <1>4, <1>5

LEMMA SubmittedIsRealKept ==
  ASSUME ProtocolInv, LedgerInv, [SubmissionNext]_submissionVars
  PROVE  SubmittedIsReal'
<1>1. accepted # {} => accepted' # {}
  BY ConfirmedAcceptedKept
<1>2. CASE SuccessKept
  BY <1>1, <1>2 DEF LedgerInv, SubmittedIsReal, SuccessKept
<1>3. ASSUME NEW w \in Workers, Record(w)
      PROVE  SubmittedIsReal'
  <2> DEFINE r == RoundOf(w)
  <2>1. r \in Rounds /\ action[r] \in Unresolved
    BY <1>3, RecordsUnresolved
  <2>2. /\ \A s \in Rounds : action[s] # "SUCCEEDED"
        /\ followed = FALSE
    BY <2>1, NothingSucceeded
  <2>3. /\ \A s \in Rounds \ {r} : action'[s] = action[s]
        /\ action'[r] = Recorded(outcome[w]).action
        /\ app'.status = Recorded(outcome[w]).app
        /\ followed' <=> (followed \/ outcome[w] = "CONFIRMED")
        /\ outcome[w] \in Outcomes
    BY <1>3, <2>1 DEF Record, SetAction, ProtocolInv, SubmissionTypeOK
  <2>4. CASE outcome[w] = "CONFIRMED"
    <3>1. accepted # {}
      BY <1>3, <2>4 DEF Record, LedgerInv, ConfirmedAccepted
    <3>2. QED
      BY <1>1, <2>1, <2>3, <2>4, <3>1 DEF Recorded, SubmittedIsReal
  <2>5. CASE outcome[w] # "CONFIRMED"
    BY <2>1, <2>2, <2>3, <2>5 DEF Recorded, Outcomes, SubmittedIsReal
  <2>6. QED
    BY <2>4, <2>5
<1>4. ASSUME NEW w \in Workers,
             \/ Startup(w) \/ RunOnce(w) \/ Beat(w) \/ Stop(w) \/ Crash(w) \/ LockTimeout(w)
             \/ EndAttempt(w) \/ LoseLease(w) \/ FailForGood(w)
             \/ Announce(w) \/ Validate(w) \/ Compare(w) \/ Click(w) \/ NoClick(w) \/ Reconcile(w)
             \/ ReconcileRaises(w) \/ Finish(w)
      PROVE  UNCHANGED <<app, followed, action>> \/ RecoverActions
  BY <1>4, Zenon DEF Startup, RunOnce, Beat, Stop, Crash, LockTimeout, EndAttempt, LoseLease,
     FailForGood, Announce, Validate, Compare, Click, NoClick, Reconcile, ReconcileRaises, Finish,
     domainVars
<1>5. CASE \/ UNCHANGED submissionVars
           \/ EditInputs \/ TimePasses \/ PollRecover \/ CoordinatorRecovers
           \/ \E q \in Rounds : \/ OperatorResumes(q)
                                \/ \E decision \in {"APPROVED", "REJECTED"} : HumanDecides(q, decision)
  <2>1. UNCHANGED <<app, followed, action>> \/ RecoverActions
    BY <1>5, Zenon DEF submissionVars, EditInputs, TimePasses, PollRecover, CoordinatorRecovers,
       OperatorResumes, HumanDecides, domainVars
  <2>2. QED
    BY <1>2, <2>1, RecoverySuccess DEF SuccessKept
<1>6. UNCHANGED <<app, followed, action>> => SuccessKept
  BY DEF SuccessKept
<1>7. QED
  BY <1>2, <1>3, <1>4, <1>5, <1>6, RecoverySuccess, WorkerSuccess DEF SubmissionNext, Attempt

\* What may become of the approval of a round, which is requested together with
\* its submission task.
ApprovalMove(r) ==
  LET old == approval[r] new == approval'[r] IN
  \/ old.status = new.status
  \/ old.status = "NONE" /\ new.status = "PENDING" /\ Exists(SubmitTask[r])'
  \/ old.status = "PENDING" /\ new.status \in {"APPROVED", "REJECTED"}
  \/ old.status = "APPROVED" /\ new.status \in {"EXPIRED", "REVOKED"}
  \/ old.status = "APPROVED" /\ new.status = "CONSUMED" /\ old.content = inputs

LEMMA WorkerApprovals ==
  ASSUME ProtocolInv, LedgerInv, NEW w \in Workers, NEW r \in Rounds,
         Prepare(w) \/ Validate(w) \/ Revoke(w) \/ Start(w)
  PROVE  ApprovalMove(r)
<1>1. approval \in [Rounds -> Approvals] /\ SubmissionTypeOK /\ TypeOK /\ ClickInv
  BY DEF ProtocolInv, SubmissionTypeOK
<1>2. CASE UNCHANGED approval
  BY <1>2 DEF ApprovalMove
<1>3. CASE Prepare(w) /\ ~UNCHANGED approval
  <2>1. PICK q \in Rounds : q = RoundOf(w)
    BY <1>1, <1>3, FencedRound DEF Prepare
  <2>2. /\ CompleteSpawning(w, SubmitTask[q], {"approval"})
        /\ approval' = [approval EXCEPT ![q] =
                          [status |-> "PENDING", valid |-> ApprovalSeconds, content |-> inputs]]
    BY <1>3, <2>1 DEF Prepare
  <2>3. approval[q].status = "NONE"
    BY <2>2 DEF CompleteSpawning, LedgerInv, DecidedKnown, Exists
  <2>4. Exists(SubmitTask[q])'
    <3>1. SubmitTask[q] \in Tasks /\ Created("WAITING_HUMAN", {"approval"}).status # "ABSENT"
      BY RoundsTasks DEF Created, NoRow
    <3>2. task'[SubmitTask[q]] = Created("WAITING_HUMAN", {"approval"})
      BY <1>1, <2>2, <3>1 DEF CompleteSpawning, TypeOK
    <3>3. QED
      BY <3>1, <3>2 DEF Exists
  <2>5. CASE r = q
    BY <1>1, <2>2, <2>3, <2>4, <2>5 DEF ApprovalMove
  <2>6. CASE r # q
    BY <1>1, <2>2, <2>6 DEF ApprovalMove
  <2>7. QED
    BY <2>5, <2>6
<1>4. CASE Validate(w)
  BY <1>1, <1>4 DEF Validate, SetApproval, ApprovalMove, Approvals
<1>5. CASE Revoke(w)
  <2>1. /\ approval' = [approval EXCEPT ![RoundOf(w)].status = Revoked(approval[RoundOf(w)].status)]
        /\ approval[RoundOf(w)].status \notin {"NONE", "PENDING"}
    BY <1>5 DEF Revoke, SetApproval, LedgerInv, DecidedKnown
  <2>2. QED
    BY <1>1, <2>1 DEF ApprovalMove, Revoked, Approvals
<1>6. CASE Start(w)
  <2>1. CASE StartAllowed(RoundOf(w)) /\ approval[RoundOf(w)].content = inputs
    <3>1. approval' = [approval EXCEPT ![RoundOf(w)].status = "CONSUMED"]
      BY <1>6, <2>1 DEF Start, SetApproval
    <3>2. QED
      BY <1>1, <2>1, <3>1 DEF StartAllowed, ApprovalMove, Approvals
  <2>2. CASE StartAllowed(RoundOf(w)) /\ approval[RoundOf(w)].content # inputs
    <3>1. approval' = [approval EXCEPT ![RoundOf(w)].status = "REVOKED"]
      BY <1>6, <2>2 DEF Start, SetApproval
    <3>2. QED
      BY <1>1, <2>2, <3>1 DEF StartAllowed, ApprovalMove, Approvals
  <2>3. CASE ~StartAllowed(RoundOf(w))
    BY <1>2, <1>6, <2>3 DEF Start
  <2>4. QED
    BY <2>1, <2>2, <2>3
<1>7. QED
  BY <1>2, <1>3, <1>4, <1>5, <1>6

LEMMA ApprovalSteps ==
  ASSUME ProtocolInv, LedgerInv, [SubmissionNext]_submissionVars, NEW r \in Rounds
  PROVE  ApprovalMove(r)
<1>1. approval \in [Rounds -> Approvals]
  BY DEF ProtocolInv, SubmissionTypeOK
<1>2. CASE UNCHANGED approval
  BY <1>2 DEF ApprovalMove
<1>3. CASE TimePasses
  BY <1>1, <1>3 DEF TimePasses, ApprovalMove, Approvals
<1>4. ASSUME NEW q \in Rounds, NEW decision \in {"APPROVED", "REJECTED"}, HumanDecides(q, decision)
      PROVE  ApprovalMove(r)
  BY <1>1, <1>4 DEF HumanDecides, SetApproval, ApprovalMove, Approvals
<1>5. CASE \/ UNCHANGED submissionVars \/ EditInputs \/ PollRecover \/ CoordinatorRecovers
           \/ \E q \in Rounds : OperatorResumes(q)
  BY <1>2, <1>5, Zenon
     DEF submissionVars, EditInputs, PollRecover, CoordinatorRecovers, RecoverActions,
     OperatorResumes, domainVars
<1>6. ASSUME NEW w \in Workers,
             \/ Startup(w) \/ RunOnce(w) \/ Beat(w) \/ Stop(w) \/ Crash(w) \/ LockTimeout(w)
             \/ EndAttempt(w) \/ LoseLease(w) \/ FailForGood(w)
             \/ Announce(w) \/ Compare(w) \/ Plan(w) \/ Click(w) \/ NoClick(w) \/ Reconcile(w)
             \/ ReconcileRaises(w) \/ Record(w) \/ Restart(w) \/ Finish(w)
      PROVE  UNCHANGED approval
  BY <1>6, Zenon DEF Startup, RecoverActions, RunOnce, Beat, Stop, Crash, LockTimeout,
     EndAttempt, LoseLease, FailForGood, Announce, Compare, Plan, Click, NoClick, Reconcile,
     ReconcileRaises, Record, Restart, Finish, domainVars
<1>7. QED
  BY <1>2, <1>3, <1>4, <1>5, <1>6, WorkerApprovals, Zenon DEF SubmissionNext, Attempt

LEMMA DecidedKnownKept ==
  ASSUME ProtocolInv, LedgerInv, [SubmissionNext]_submissionVars
  PROVE  DecidedKnown'
<1>0. TypeOK' /\ SubmissionTypeOK /\ ClickInv /\ IInv /\ [Next]_queueVars
  BY QueueSteps DEF ProtocolInv
<1>1. ASSUME NEW r \in Rounds, approval'[r].status # "NONE"
      PROVE  Exists(SubmitTask[r])'
  <2>1. CASE approval[r].status # "NONE"
    BY <1>0, <2>1, RowsStay, RoundsTasks DEF Exists, LedgerInv, DecidedKnown
  <2>2. CASE approval[r].status = "NONE"
    BY <1>1, <2>2, ApprovalSteps DEF ApprovalMove
  <2>3. QED
    BY <2>1, <2>2
<1>2. ASSUME NEW w \in Workers, pc'[w] \in {"compare", "revoke"}
      PROVE  approval'[RoundOf(w)'].status \notin {"NONE", "PENDING"}
  <2>1. /\ RoundOf(w)' = RoundOf(w) /\ RoundOf(w) \in Rounds
        /\ approval[RoundOf(w)].status \notin {"NONE", "PENDING"}
    <3>1. CASE pc'[w] = pc[w] /\ held'[w] = held[w]
      BY <1>0, <1>2, <3>1, RoundStays, ActingRound DEF SubmissionSteps, LedgerInv, DecidedKnown
    <3>2. CASE Validate(w)
      <4>1. pc[w] \in SubmissionSteps /\ held' = held
        BY <3>2 DEF Validate, SubmissionSteps, queueVars
      <4>2. approval[RoundOf(w)].status \in {"APPROVED", "CONSUMED"}
        BY <1>0, <1>2, <3>2 DEF Validate, Goto, SubmissionTypeOK
      <4>3. QED
        BY <1>0, <4>1, <4>2, RoundStays, ActingRound
    <3>3. CASE Compare(w)
      <4>1. pc[w] \in SubmissionSteps /\ held' = held /\ pc[w] = "compare"
        BY <3>3 DEF Compare, SubmissionSteps, queueVars
      <4>2. QED
        BY <1>0, <4>1, RoundStays, ActingRound DEF LedgerInv, DecidedKnown
    <3>4. ~Plan(w) /\ ~Start(w) /\ ~Click(w) /\ ~NoClick(w) /\ ~Reconcile(w) /\ ~Record(w)
      BY <1>0, <1>2 DEF Plan, StepFor, Start, Click, NoClick, Reconcile, Record, Recorded, Goto,
         Outcomes, SubmissionTypeOK
    <3>5. QED
      BY <1>0, <1>2, <3>1, <3>2, <3>3, <3>4, Comes
  <2>2. QED
    BY <2>1, ApprovalSteps DEF ApprovalMove
<1>3. QED
  BY <1>1, <1>2 DEF DecidedKnown

-----------------------------------------------------------------------------
(* Theorems about the ledger *)

LEMMA InitLedgerInv == SubmissionInit => LedgerInv
<1> SUFFICES ASSUME SubmissionInit PROVE LedgerInv
  OBVIOUS
<1>1. \A w \in Workers : pc[w] \in {"starting", "idle"}
  BY DEF SubmissionInit, Begun
<1>2. \A r \in Rounds : ~Exists(SubmitTask[r]) /\ (Exists(ReviewTask[r]) => r = 1)
  BY RoundsAssumption DEF SubmissionInit, Exists, NoRow, Rounds
<1>3. \A r, s \in Rounds : r < s => s # 1
  BY DEF Rounds
<1>4. OwnersUnresolved /\ RestartsFailed /\ ReviewsFirst /\ RoundsFailed /\ ConfirmedAccepted
  BY <1>1, <1>2, <1>3 DEF OwnersUnresolved, Resolving, RestartsFailed, ReviewsFirst, RoundsFailed,
                          ConfirmedAccepted
<1>5. SubmittedIsReal
  BY DEF SubmissionInit, SubmittedIsReal
<1>6. DecidedKnown
  BY <1>1 DEF SubmissionInit, DecidedKnown
<1>7. QED
  BY <1>4, <1>5, <1>6 DEF LedgerInv

\* The inductive invariant of the ledger: which rounds have failed before which,
\* and what SUBMITTED rests on.
THEOREM LedgerInvariance == SubmissionSpec => [](ProtocolInv /\ LedgerInv)
<1>1. SubmissionInit => ProtocolInv /\ LedgerInv
  BY InitProtocolInv, InitLedgerInv
<1>2. ProtocolInv /\ LedgerInv /\ [SubmissionNext]_submissionVars => (ProtocolInv /\ LedgerInv)'
  BY StepProtocolInv, OwnersUnresolvedKept, RestartsFailedKept, ReviewsFirstKept, RoundsFailedKept,
     ConfirmedAcceptedKept, SubmittedIsRealKept, DecidedKnownKept DEF LedgerInv
<1>3. QED
  BY <1>1, <1>2, PTL DEF SubmissionSpec

\* At most one submission action is in flight, unresolved or successful: a new
\* round begins only when all earlier ones have failed, for good.
THEOREM OneActive == SubmissionSpec => []OneActiveAction
<1>1. ProtocolInv /\ LedgerInv => OneActiveAction
  BY LedgerOneActive DEF ProtocolInv, LedgerInv
<1>2. QED
  BY <1>1, LedgerInvariance, PTL

\* The application is SUBMITTED exactly when an action has succeeded, the
\* follow-up tasks exist, and then the portal has an application.
THEOREM SubmittedReal == SubmissionSpec => []SubmittedIsReal
<1>1. ProtocolInv /\ LedgerInv => SubmittedIsReal
  BY DEF LedgerInv
<1>2. QED
  BY <1>1, LedgerInvariance, PTL

\* An approval is requested, decided, and spent or given up, in this order and
\* once, and spent only for the inputs that were reviewed.
THEOREM ApprovalsMove == SubmissionSpec => ApprovalMoves
<1>1. ProtocolInv /\ LedgerInv /\ [SubmissionNext]_submissionVars
        => [\A r \in Rounds : LET old == approval[r] new == approval'[r] IN
              \/ old.status = new.status
              \/ old.status = "NONE" /\ new.status = "PENDING"
              \/ old.status = "PENDING" /\ new.status \in {"APPROVED", "REJECTED"}
              \/ old.status = "APPROVED" /\ new.status \in {"EXPIRED", "REVOKED"}
              \/ old.status = "APPROVED" /\ new.status = "CONSUMED" /\ old.content = inputs
           ]_submissionVars
  BY ApprovalSteps DEF ApprovalMove
<1>2. QED
  BY <1>1, LedgerInvariance, PTL DEF SubmissionSpec, ApprovalMoves

-----------------------------------------------------------------------------
(* What holds of the portal and of sleeping tasks without any hypothesis      *)

\* A later review is approved or clicked only when every earlier action was
\* recorded as FAILED.
THEOREM AgainAfterFailure == SubmissionSpec => []AgainOnlyAfterFailure
<1>1. ProtocolInv /\ LedgerInv => AgainOnlyAfterFailure
  <2> SUFFICES ASSUME ProtocolInv, LedgerInv, NEW r \in Rounds, NEW s \in Rounds, r < s,
                      approval[s].status # "NONE" \/ clicks[s] > 0
               PROVE  action[r] = "FAILED"
    BY DEF AgainOnlyAfterFailure
  <2>1. approval[s].status # "NONE"
    BY DEF ProtocolInv, ClickInv, ClicksBegun, BegunSpent, BegunActions, SubmissionTypeOK
  <2>2. Exists(ReviewTask[s])
    BY <2>1 DEF LedgerInv, DecidedKnown, ReviewsFirst
  <2>3. QED
    BY <2>2 DEF LedgerInv, RoundsFailed
<1>2. QED
  BY <1>1, LedgerInvariance, PTL


\* The submission task of a round waits for the decision about its review.
Sleeps(r) ==
  task[SubmitTask[r]].status = "WAITING_HUMAN" /\ "approval" \in task[SubmitTask[r]].memory.interrupts

\* A row that is written otherwise puts no task to sleep.
LEMMA RewrittenAwake ==
  ASSUME TypeOK, NEW r \in Rounds, NEW u \in Tasks, NEW row,
         task' = [task EXCEPT ![u] = row],
         row.status # "WAITING_HUMAN" \/ "approval" \notin row.memory.interrupts,
         Sleeps(r)'
  PROVE  Sleeps(r)
BY RoundsTasks DEF Sleeps, TypeOK

LEMMA FinishedAwake ==
  ASSUME TypeOK, NEW r \in Rounds, NEW u \in Tasks, NEW row \in Rows, NEW status \in Statuses,
         task' = [task EXCEPT ![u] = Finished(row, status)],
         status # "WAITING_HUMAN" \/ "approval" \notin row.memory.interrupts,
         Sleeps(r)'
  PROVE  Sleeps(r)
<1>1. Finished(row, status).status = status /\ Finished(row, status).memory = row.memory
  BY FinishedFields
<1>2. QED
  BY <1>1, RewrittenAwake

LEMMA OwnerCallsAwake ==
  ASSUME IInv, NEW r \in Rounds, NEW w \in Workers, Sleeps(r)',
         \/ Claim(w) \/ Heartbeat(w) \/ Release(w) \/ Fail(w, TRUE) \/ Fail(w, FALSE)
         \/ \E waiting \in BOOLEAN :
              Complete(w, [NoMemory EXCEPT !.interrupts = IF waiting THEN {"submission"} ELSE {}],
                       waiting)
  PROVE  Sleeps(r)
<1>0. TypeOK
  BY DEF IInv
<1>1. CASE Claim(w)
  <2>1. PICK t \in Tasks, owner \in Owners : task' = [task EXCEPT ![t] = Claimed(task[t], owner)]
    BY <1>1, ClaimIInv
  <2>2. Claimed(task[t], owner).status = "ACTIVE"
    BY <1>0, <2>1, ClaimedFields DEF TypeOK
  <2>3. QED
    BY <1>0, <2>1, <2>2, RewrittenAwake
<1> DEFINE u == held[w].task_id
<1>2. ASSUME Fenced(held[w])
      PROVE  u \in Tasks /\ task[u] \in Rows /\ task[u].status = "ACTIVE"
  BY <1>0, <1>2 DEF Fenced, TypeOK, Leases
<1>3. CASE Heartbeat(w)
  <2>1. u \in Tasks /\ task[u] \in Rows /\ task[u].status = "ACTIVE"
    BY <1>2, <1>3 DEF Heartbeat
  <2>2. task' = [task EXCEPT ![u] = [task[u] EXCEPT !.lease_expires_at = LeaseSeconds]]
    BY <1>0, <1>3, <2>1 DEF Heartbeat, TypeOK
  <2>3. [task[u] EXCEPT !.lease_expires_at = LeaseSeconds].status = "ACTIVE"
    BY <2>1 DEF Rows
  <2>4. QED
    BY <1>0, <2>1, <2>2, <2>3, RewrittenAwake
<1>4. CASE Release(w)
  <2> DEFINE marked == [task[u] EXCEPT !.memory.continuation = TRUE]
  <2>1. u \in Tasks /\ task[u] \in Rows
    BY <1>2, <1>4 DEF Release
  <2>2. marked \in Rows
    BY <2>1 DEF Rows, Memories
  <2>3. task' = [task EXCEPT ![u] = Finished(marked, "READY")]
    BY <1>4 DEF Release
  <2> HIDE DEF marked
  <2>4. QED
    BY <1>0, <2>1, <2>2, <2>3, FinishedAwake DEF Statuses
<1>5. CASE Fail(w, TRUE) \/ Fail(w, FALSE)
  <2>1. u \in Tasks /\ task[u] \in Rows
    BY <1>2, <1>5 DEF Fail
  <2>2. CASE task' = [task EXCEPT ![u] = Finished(task[u], "FAILED")]
    BY <1>0, <2>1, <2>2, FinishedAwake DEF Statuses, Terminal
  <2>3. CASE \E delay \in RetryDelay(task[u].attempt_count) :
               task' = [task EXCEPT ![u] =
                          Finished([task[u] EXCEPT !.next_run_at = delay], "WAITING_RETRY")]
    <3>1. PICK delay \in RetryDelay(task[u].attempt_count) :
            task' = [task EXCEPT ![u] =
                       Finished([task[u] EXCEPT !.next_run_at = delay], "WAITING_RETRY")]
      BY <2>3
    <3>2. [task[u] EXCEPT !.next_run_at = delay] \in Rows
      BY <2>1, RetryDelayType DEF Rows, Countdowns
    <3>3. QED
      BY <1>0, <2>1, <3>1, <3>2, FinishedAwake DEF Statuses
  <2>4. QED
    BY <1>5, <2>2, <2>3 DEF Fail
<1>6. ASSUME NEW waiting \in BOOLEAN,
             Complete(w, [NoMemory EXCEPT !.interrupts = IF waiting THEN {"submission"} ELSE {}], waiting)
      PROVE  Sleeps(r)
  <2> DEFINE memory == [NoMemory EXCEPT !.interrupts = IF waiting THEN {"submission"} ELSE {}]
             left == [task[u] EXCEPT !.memory = memory]
             status == IF waiting THEN "WAITING_HUMAN" ELSE "SUCCEEDED"
  <2>1. u \in Tasks /\ task[u] \in Rows
    BY <1>2, <1>6 DEF Complete
  <2>2. memory \in Memories /\ "approval" \notin memory.interrupts
    BY InterruptsAssumption DEF NoMemory, Memories
  <2>3. task' = [task EXCEPT ![u] = Finished(left, status)]
    BY <1>6 DEF Complete
  <2> HIDE DEF memory
  <2>4. left \in Rows /\ "approval" \notin left.memory.interrupts
    BY <2>1, <2>2 DEF Rows
  <2>5. status \in Statuses
    BY DEF Statuses, Terminal
  <2> HIDE DEF left, status
  <2>6. QED
    BY <1>0, <2>1, <2>3, <2>4, <2>5, FinishedAwake
<1>7. QED
  BY <1>1, <1>3, <1>4, <1>5, <1>6

\* A task falls asleep on the decision only with the request for it.
LEMMA OnlyPrepareSleeps ==
  ASSUME ProtocolInv, [SubmissionNext]_submissionVars, NEW r \in Rounds, Sleeps(r)'
  PROVE  Sleeps(r) \/ approval'[r].status = "PENDING"
<1>0. IInv /\ TypeOK /\ SubmissionTypeOK /\ ClickInv /\ SubmitTask[r] \in Tasks
  BY RoundsTasks DEF ProtocolInv, IInv
<1>1. ASSUME task' = task
      PROVE  Sleeps(r)
  BY <1>1 DEF Sleeps
<1>2. CASE TimePasses
  BY <1>0, <1>2, OlderFields DEF TimePasses, Sleeps, TypeOK
<1>3. CASE Recover
  BY <1>0, <1>3, RecoveredFields DEF Recover, Sleeps, TypeOK
<1>4. ASSUME NEW t \in Tasks, NEW reply \in Replies, Resume(t, reply)
      PROVE  Sleeps(r)
  <2>1. task' = [task EXCEPT ![t] = Resumed(task[t], reply)]
    BY <1>4 DEF Resume
  <2>2. Resumed(task[t], reply).status = "READY"
    BY <1>0, ResumedFields DEF TypeOK
  <2>3. QED
    BY <1>0, <2>1, <2>2, RewrittenAwake
<1>5. ASSUME NEW q \in Rounds,
             \/ OperatorResumes(q)
             \/ \E decision \in {"APPROVED", "REJECTED"} : HumanDecides(q, decision)
      PROVE  Sleeps(r)
  <2>1. SubmitTask[q] \in Tasks /\ task[SubmitTask[q]].memory.interrupts \subseteq Interrupts
    BY <1>0, RoundsTasks DEF TypeOK, Rows, Memories
  <2>2. \A interrupt \in Interrupts :
          Resume(SubmitTask[q], [interrupt_id |-> interrupt, value |-> "reply"]) => Sleeps(r)
    BY <1>4, <2>1, RepliesHere
  <2>3. CASE OperatorResumes(q)
    BY <2>1, <2>2, <2>3 DEF OperatorResumes
  <2>4. CASE \E decision \in {"APPROVED", "REJECTED"} : HumanDecides(q, decision)
    BY <1>1, <2>2, <2>4, InterruptsAssumption DEF HumanDecides, ResumeDecided, queueVars
  <2>5. QED
    BY <1>5, <2>3, <2>4
<1>6. ASSUME NEW w \in Workers, Prepare(w)
      PROVE  Sleeps(r) \/ approval'[r].status = "PENDING"
  <2> DEFINE q == RoundOf(w)
  <2>1. q \in Rounds /\ TaskOf(w) \in Tasks /\ SubmitTask[q] \in Tasks
    BY <1>0, <1>6, FencedRound, RoundsTasks DEF Prepare
  <2>2. CASE UNCHANGED queueVars
    BY <1>1, <2>2 DEF queueVars
  <2>3. CASE /\ CompleteSpawning(w, SubmitTask[q], {"approval"})
             /\ approval' = [approval EXCEPT ![q] =
                               [status |-> "PENDING", valid |-> ApprovalSeconds, content |-> inputs]]
    <3>1. CASE q = r
      BY <1>0, <2>3, <3>1 DEF SubmissionTypeOK
    <3>2. CASE q # r
      <4> DEFINE done == [task[TaskOf(w)] EXCEPT !.memory = NoMemory]
      <4>1. SubmitTask[q] # SubmitTask[r]
        BY <2>1, <3>2, RoundsAssumption
      <4>2. done \in Rows
        BY <1>0, <2>1 DEF TypeOK, Rows, NoMemory, Memories
      <4>3. task' = [task EXCEPT ![TaskOf(w)] = Finished(done, "SUCCEEDED"),
                                 ![SubmitTask[q]] = Created("WAITING_HUMAN", {"approval"})]
        BY <2>3 DEF CompleteSpawning, TaskOf
      <4> HIDE DEF done
      <4>4. Finished(done, "SUCCEEDED").status = "SUCCEEDED"
        BY <4>2, FinishedFields DEF Statuses, Terminal
      <4>5. task'[SubmitTask[r]].status = "SUCCEEDED" \/ task'[SubmitTask[r]] = task[SubmitTask[r]]
        BY <1>0, <2>1, <4>1, <4>3, <4>4 DEF TypeOK
      <4>6. QED
        BY <4>5 DEF Sleeps
    <3>3. QED
      BY <3>1, <3>2
  <2>4. QED
    BY <1>6, <2>2, <2>3 DEF Prepare
<1>7. ASSUME NEW w \in Workers, Restart(w)
      PROVE  Sleeps(r)
  <2>1. CASE task' = task
    BY <1>1, <2>1
  <2>2. CASE RoundOf(w) + 1 \in Rounds /\ Enqueue(ReviewTask[RoundOf(w) + 1])
    <3>1. ReviewTask[RoundOf(w) + 1] \in Tasks
      BY <2>2, RoundsTasks
    <3>2. Created("READY", {}).status = "READY"
      BY DEF Created, NoRow
    <3>3. QED
      BY <1>0, <2>2, <3>1, <3>2, RewrittenAwake DEF Enqueue
  <2>3. QED
    BY <1>7, <2>1, <2>2 DEF Restart, queueVars
<1>8. ASSUME NEW w \in Workers,
             \/ RunOnce(w) \/ Beat(w) \/ Stop(w) \/ LockTimeout(w) \/ FailForGood(w)
      PROVE  Sleeps(r)
  BY <1>0, <1>8, OwnerCallsAwake DEF RunOnce, Beat, Stop, LockTimeout, FailForGood
<1>9. ASSUME NEW w \in Workers, Finish(w)
      PROVE  Sleeps(r)
  <2>1. \E waiting \in BOOLEAN :
          Complete(w, [NoMemory EXCEPT !.interrupts = IF waiting THEN {"submission"} ELSE {}], waiting)
    BY <1>9 DEF Finish
  <2>2. QED
    BY <1>0, <2>1, OwnerCallsAwake
<1>10. ASSUME NEW w \in Workers,
              \/ Startup(w) \/ Crash(w) \/ EndAttempt(w) \/ LoseLease(w) \/ Announce(w) \/ Validate(w)
              \/ Compare(w) \/ Revoke(w) \/ Plan(w) \/ Start(w) \/ Click(w) \/ NoClick(w)
              \/ Reconcile(w) \/ ReconcileRaises(w) \/ Record(w)
       PROVE  task' = task
  BY <1>10, Zenon
     DEF Startup, RecoverActions, Crash, EndAttempt, LoseLease, Forget, Announce, Validate,
     Compare, Revoke, Plan, Start, Click, NoClick, Reconcile, ReconcileRaises, Record, queueVars
<1>11. CASE UNCHANGED submissionVars \/ EditInputs \/ PollRecover \/ CoordinatorRecovers
  <2>1. task' = task \/ Recover
    BY <1>11, Zenon
       DEF submissionVars, EditInputs, PollRecover, CoordinatorRecovers, RecoverActions,
       queueVars
  <2>2. QED
    BY <1>1, <1>3, <2>1
<1>12. QED
  BY <1>1, <1>2, <1>5, <1>6, <1>7, <1>8, <1>9, <1>10, <1>11, Zenon DEF SubmissionNext, Attempt

\* Whoever decides about a review wakes the task that waits for the decision.
LEMMA DecisionWakes ==
  ASSUME ProtocolInv, LedgerInv, [SubmissionNext]_submissionVars, NEW r \in Rounds,
         Sleeps(r), approval[r].status \in {"NONE", "PENDING"},
         approval'[r].status \notin {"NONE", "PENDING"}
  PROVE  ~Sleeps(r)'
<1>0. IInv /\ TypeOK /\ SubmissionTypeOK /\ SubmitTask[r] \in Tasks
  BY RoundsTasks DEF ProtocolInv, IInv
<1>1. approval[r].status = "PENDING"
  BY ApprovalSteps DEF ApprovalMove
<1>2. ASSUME NEW q \in Rounds, NEW decision \in {"APPROVED", "REJECTED"}, HumanDecides(q, decision)
      PROVE  ~Sleeps(r)'
  <2>1. q = r
    BY <1>0, <1>2 DEF HumanDecides, SetApproval, SubmissionTypeOK
  <2> DEFINE reply == [interrupt_id |-> "approval", value |-> "reply"]
  <2>2. reply \in Replies
    BY InterruptsAssumption DEF Replies
  <2>3. task' = [task EXCEPT ![SubmitTask[r]] = Resumed(task[SubmitTask[r]], reply)]
    BY <1>2, <2>1 DEF HumanDecides, ResumeDecided, Resume, Sleeps
  <2> HIDE DEF reply
  <2>4. Resumed(task[SubmitTask[r]], reply).status = "READY"
    BY <1>0, <2>2, ResumedFields DEF TypeOK
  <2>5. QED
    BY <1>0, <2>3, <2>4 DEF Sleeps, TypeOK
<1>3. CASE UNCHANGED approval
  BY <1>3
<1>4. CASE TimePasses
  BY <1>0, <1>4 DEF TimePasses, SubmissionTypeOK, Approvals
<1>5. ASSUME NEW w \in Workers, Prepare(w) \/ Validate(w) \/ Revoke(w) \/ Start(w)
      PROVE  FALSE
  <2>1. CASE Prepare(w)
    BY <1>0, <2>1 DEF Prepare, SubmissionTypeOK
  <2>2. CASE Validate(w)
    BY <1>0, <1>1, <2>2 DEF Validate, SetApproval, SubmissionTypeOK
  <2>3. CASE Revoke(w)
    <3>1. approval[RoundOf(w)].status # "PENDING"
      BY <2>3 DEF Revoke, LedgerInv, DecidedKnown
    <3>2. QED
      BY <1>0, <1>1, <2>3, <3>1 DEF Revoke, SetApproval, SubmissionTypeOK
  <2>4. CASE Start(w)
    BY <1>0, <1>1, <2>4 DEF Start, StartAllowed, SetApproval, SubmissionTypeOK
  <2>5. QED
    BY <1>5, <2>1, <2>2, <2>3, <2>4
<1>6. CASE \/ UNCHANGED submissionVars \/ EditInputs \/ PollRecover \/ CoordinatorRecovers
           \/ \E q \in Rounds : OperatorResumes(q)
  BY <1>3, <1>6, Zenon
     DEF submissionVars, EditInputs, PollRecover, CoordinatorRecovers, RecoverActions,
     OperatorResumes, domainVars
<1>7. ASSUME NEW w \in Workers,
             \/ Startup(w) \/ RunOnce(w) \/ Beat(w) \/ Stop(w) \/ Crash(w) \/ LockTimeout(w)
             \/ EndAttempt(w) \/ LoseLease(w) \/ FailForGood(w)
             \/ Announce(w) \/ Compare(w) \/ Plan(w) \/ Click(w) \/ NoClick(w) \/ Reconcile(w)
             \/ ReconcileRaises(w) \/ Record(w) \/ Restart(w) \/ Finish(w)
      PROVE  UNCHANGED approval
  BY <1>7, Zenon DEF Startup, RecoverActions, RunOnce, Beat, Stop, Crash, LockTimeout,
     EndAttempt, LoseLease, FailForGood, Announce, Compare, Plan, Click, NoClick, Reconcile,
     ReconcileRaises, Record, Restart, Finish, domainVars
<1>8. QED
  BY <1>2, <1>3, <1>4, <1>5, <1>6, <1>7, Zenon DEF SubmissionNext, Attempt

\* No submission task sleeps on a decision that has been taken.
THEOREM DecisionsWake == SubmissionSpec => []NoSleepOnDecision
<1> DEFINE Awake == \A r \in Rounds : Sleeps(r) => approval[r].status \in {"NONE", "PENDING"}
           Inv == ProtocolInv /\ LedgerInv
<1>1. SubmissionInit => Awake
  BY DEF SubmissionInit
<1>2. Inv /\ Awake /\ [SubmissionNext]_submissionVars => Awake'
  BY OnlyPrepareSleeps, DecisionWakes
<1>3. Awake => NoSleepOnDecision
  BY DEF NoSleepOnDecision, Sleeps
<1>4. SubmissionSpec => []Inv
  BY LedgerInvariance
<1> HIDE DEF Awake, Inv
<1>5. QED
  BY <1>1, <1>2, <1>3, <1>4, PTL DEF SubmissionSpec

=============================================================================
