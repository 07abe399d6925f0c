----------------------------- MODULE Submission -----------------------------
(***************************************************************************)
(* One application from its review to the portal: submission/review.py,    *)
(* service.py, worker.py and the adapters, on top of TaskQueue.            *)
(*                                                                         *)
(* A round is one immutable review with everything that hangs on it: a     *)
(* CREATE_REVIEW task, the SUBMIT_APPLICATION task and approval that it    *)
(* creates, and the ledger action submit:<application>:<review hash>.      *)
(* A round's review hash stands for its content; the inputs (answers and   *)
(* artifacts) are a version of that content.  Every step of a worker is    *)
(* one transaction, or one call outside any, so a process may die, lose    *)
(* its lease or be overtaken between any two.                              *)
(*                                                                         *)
(* The portal is external: a click is accepted or lost, and nobody may     *)
(* learn which.  So is Slack, as a human who decides about the reviews     *)
(* that were announced.                                                    *)
(***************************************************************************)
EXTENDS TaskQueue, FiniteSets

CONSTANTS
  MaxRounds,            \* bound: reviews of the application
  ReviewTask,           \* the CREATE_REVIEW task of a round
  SubmitTask,           \* the SUBMIT_APPLICATION task of a round
  Contents,             \* versions of the answers and artifacts
  ApprovalSeconds,      \* approval_ttl_seconds
  PortalShowsReceipt,   \* the application page always shows that it was received
  MaxFaults, MaxEdits   \* bounds: crashes, shutdowns and lock timeouts; edits of the inputs

Rounds == 1 .. MaxRounds

ASSUME RoundsAssumption ==
  /\ MaxRounds \in Nat \ {0}
  /\ ReviewTask \in [Rounds -> Tasks] /\ SubmitTask \in [Rounds -> Tasks]
  /\ \A r, s \in Rounds : ReviewTask[r] # SubmitTask[s]
                          /\ (r # s => ReviewTask[r] # ReviewTask[s] /\ SubmitTask[r] # SubmitTask[s])
  /\ \A t \in Tasks : \E r \in Rounds : t \in {ReviewTask[r], SubmitTask[r]}
ASSUME InterruptsAssumption ==
  {"approval", "submission"} \subseteq Interrupts /\ "reply" \in Values
ASSUME ApprovalAssumption == ApprovalSeconds \in Nat \ {0} /\ PortalShowsReceipt \in BOOLEAN
ASSUME BoundsAssumption == MaxFaults \in Nat /\ MaxEdits \in Nat

VARIABLES
  app,        \* application_status and current_task_id
  approval,   \* per round: status, seconds until valid_until, content of the review
  announced,  \* rounds whose approval request has reached Slack
  action,     \* per round: action_status of its ledger row, NONE before it is planned
  inputs,     \* the current answers and artifacts
  clicks,     \* per round: final clicks that reached the portal
  accepted,   \* rounds whose click the portal took as an application
  followed,   \* connector and monitor tasks exist
  pc,         \* where a worker's attempt is
  outcome,    \* the adapter's result that the attempt holds
  faults, edits

domainVars == <<app, approval, announced, action, inputs, clicks, accepted, followed, edits>>
submissionVars == <<task, held, domainVars, pc, outcome, faults>>

ApprovalStatuses == {"NONE", "PENDING", "APPROVED", "REJECTED", "EXPIRED", "REVOKED", "CONSUMED"}
ActionStatuses == {"NONE", "PLANNED", "EXECUTING", "UNKNOWN_RESULT", "SUCCEEDED", "FAILED"}
ActiveActions == {"EXECUTING", "UNKNOWN_RESULT", "SUCCEEDED"}
AppStatuses == {"READY_TO_REVIEW", "SUBMITTING", "SUBMISSION_UNKNOWN", "SUBMITTED"}
Apps == [status : AppStatuses, current : Tasks \cup {"CONNECT_CONTACTS"}]
Approvals == [status : ApprovalStatuses, valid : Countdowns, content : Contents]
Outcomes == {"CONFIRMED", "UNKNOWN", "NOT_SUBMITTED"}

\* A submission attempt: validate, compare, plan, start, submit (or reconcile),
\* record, restart, finish; revoke and blocked on the way out.  A review
\* attempt: prepare, announce.
Fences == {"validate", "revoke", "plan", "start", "record", "restart", "finish", "blocked",
           "prepare"}
Steps == Fences \cup {"compare", "submit", "reconcile", "announce", "failing",
                      "starting", "idle", "ended", "stopped"}

\* Where the event loop may cancel the execution or run its heartbeat: before it
\* begins, inside the adapter (which, at record, has yet to look at the page),
\* and after a drained schedule_new_review.  The rest runs without an await, or
\* in a thread that is drained.
Awaits == {"prepare", "validate", "submit", "reconcile", "record", "finish"}

TaskOf(w) == held[w].task_id
RoundOfTask(t) == CHOOSE r \in Rounds : t \in {ReviewTask[r], SubmitTask[r]}
RoundOf(w) == RoundOfTask(TaskOf(w))
Goto(w, step) == pc' = [pc EXCEPT ![w] = step]

SetApp(status) == app' = [app EXCEPT !.status = status]
SetApproval(r, status) == approval' = [approval EXCEPT ![r].status = status]
SetAction(r, status) == action' = [action EXCEPT ![r] = status]
SubmissionWorkers == {w \in Workers : \E r \in Rounds : TypeOf[SubmitTask[r]] \in Serves[w]}
Begun(w) == IF w \in SubmissionWorkers THEN "starting" ELSE "idle"
ActiveElsewhere(r) == \E s \in Rounds \ {r} : action[s] \in ActiveActions

-----------------------------------------------------------------------------
\* The form agent has finished: the first CREATE_REVIEW task is READY.
SubmissionInit ==
  /\ task = [t \in Tasks |-> IF t = ReviewTask[1] THEN Created("READY", {}) ELSE NoRow]
  /\ held = [w \in Workers |-> Null]
  /\ app = [status |-> "READY_TO_REVIEW", current |-> ReviewTask[1]]
  /\ inputs \in Contents
  /\ approval = [r \in Rounds |-> [status |-> "NONE", valid |-> NoTime, content |-> inputs]]
  /\ announced = {}
  /\ action = [r \in Rounds |-> "NONE"]
  /\ clicks = [r \in Rounds |-> 0]
  /\ accepted = {}
  /\ followed = FALSE
  /\ pc = [w \in Workers |-> Begun(w)]
  /\ outcome = [w \in Workers |-> "UNKNOWN"]
  /\ faults = 0
  /\ edits = 0

-----------------------------------------------------------------------------
(* The environment *)

EditInputs ==
  /\ edits < MaxEdits
  /\ edits' = edits + 1
  /\ inputs' \in Contents \ {inputs}
  /\ UNCHANGED <<queueVars, app, approval, announced, action, clicks, accepted, followed, pc,
                 outcome, faults>>

\* Mutant: the decision is recorded and its task is left asleep.
DecideOnly(t) == UNCHANGED queueVars

\* A task that has come to ask something else is not resumed.
ResumeDecided(t) ==
  IF "approval" \in task[t].memory.interrupts
  THEN Resume(t, [interrupt_id |-> "approval", value |-> "reply"])
  ELSE UNCHANGED queueVars

\* ApprovalService.decide and SlackControlPlane._process: the decision and the
\* resume of the task are one transaction, which is rolled back (and the event
\* rejected) when the task no longer waits for this decision.
HumanDecides(r, decision) ==
  /\ r \in announced
  /\ approval[r].status = "PENDING"
  /\ approval[r].valid > 0
  /\ app.status = "READY_TO_REVIEW"
  /\ \A s \in Rounds : action[s] \notin ActiveActions
  /\ SetApproval(r, decision)
  /\ ResumeDecided(SubmitTask[r])
  /\ UNCHANGED <<app, announced, action, inputs, clicks, accepted, followed, edits, pc, outcome,
                 faults>>

\* jhm queue resume, for a submission task that waits.
OperatorResumes(r) ==
  /\ \E interrupt \in task[SubmitTask[r]].memory.interrupts :
       Resume(SubmitTask[r], [interrupt_id |-> interrupt, value |-> "reply"])
  /\ UNCHANGED <<domainVars, pc, outcome, faults>>

\* Time passes for leases, retries and approvals alike.  Nothing looks at the
\* deadline of an approval that is neither PENDING nor APPROVED.
Lapsing(r) == approval[r].status \in {"PENDING", "APPROVED"} /\ approval[r].valid > 0

TimePasses ==
  /\ \/ \E t \in Tasks : task[t].lease_expires_at > 0 \/ task[t].next_run_at > 0
     \/ \E r \in Rounds : Lapsing(r)
  /\ task' = [t \in Tasks |-> Older(task[t])]
  /\ approval' = [r \in Rounds |-> [approval[r] EXCEPT !.valid = IF Lapsing(r) THEN @ - 1 ELSE @]]
  /\ UNCHANGED <<held, app, announced, action, inputs, clicks, accepted, followed, edits, pc,
                 outcome, faults>>

-----------------------------------------------------------------------------
(* Worker loop *)

\* Mutant: recovery takes every action that was begun.
GivenUpBegun(status) == IF status \in {"NONE", "PLANNED"} THEN status ELSE "UNKNOWN_RESULT"

GivenUp(status) == IF status = "EXECUTING" THEN "UNKNOWN_RESULT" ELSE status

\* ExternalActionService.recover gives up on every action in flight, whoever
\* executes it.
RecoverActions ==
  /\ action' = [r \in Rounds |-> GivenUp(action[r])]
  /\ IF action' = action THEN UNCHANGED app ELSE SetApp("SUBMISSION_UNKNOWN")
  /\ UNCHANGED <<queueVars, approval, announced, inputs, clicks, accepted, followed, edits,
                 outcome, faults>>

\* SubmissionWorker.startup
Startup(w) ==
  /\ pc[w] = "starting"
  /\ RecoverActions
  /\ Goto(w, "idle")

\* jhm recover, at any time: the queue, then the actions.
CoordinatorRecovers ==
  /\ \/ Recover /\ UNCHANGED <<domainVars, outcome, faults>>
     \/ (\E r \in Rounds : action[r] = "EXECUTING") /\ RecoverActions
  /\ UNCHANGED pc

PollRecover ==
  /\ \E w \in Workers : pc[w] = "idle"
  /\ Recover
  /\ UNCHANGED <<domainVars, pc, outcome, faults>>

RunOnce(w) ==
  /\ pc[w] = "idle"
  /\ Claim(w)
  /\ held'[w] # Null
  /\ Goto(w, IF held'[w].task_id \in {ReviewTask[r] : r \in Rounds} THEN "prepare" ELSE "validate")
  /\ UNCHANGED <<domainVars, outcome, faults>>

\* The attempt is over: its lease and its local state are gone.
EndAttempt(w) ==
  /\ pc[w] \in {"ended", "stopped"}
  /\ Forget(w)
  /\ Goto(w, IF pc[w] = "ended" THEN "idle" ELSE Begun(w))
  /\ outcome' = [outcome EXCEPT ![w] = "UNKNOWN"]
  /\ UNCHANGED <<domainVars, faults>>

Beat(w) ==
  /\ pc[w] \in Awaits
  /\ task[TaskOf(w)].lease_expires_at < LeaseSeconds
  /\ Heartbeat(w)
  /\ UNCHANGED <<domainVars, pc, outcome, faults>>

\* A fenced call, or the heartbeat beside the adapter, finds the lease lost.
LoseLease(w) ==
  /\ pc[w] \in Fences \cup Awaits \cup {"failing"}
  /\ ~Fenced(held[w])
  /\ Goto(w, "ended")
  /\ UNCHANGED <<queueVars, domainVars, outcome, faults>>

\* A shutdown cancels the attempt (also inside the adapter: a cancellation is
\* no Exception) and releases the task.
Stop(w) ==
  /\ pc[w] \in Awaits
  /\ faults < MaxFaults
  /\ faults' = faults + 1
  /\ Release(w)
  /\ Goto(w, "stopped")
  /\ UNCHANGED <<domainVars, outcome>>

Crash(w) ==
  /\ faults < MaxFaults
  /\ faults' = faults + 1
  /\ Forget(w)
  /\ Goto(w, Begun(w))
  /\ outcome' = [outcome EXCEPT ![w] = "UNKNOWN"]
  /\ UNCHANGED domainVars

\* SQLITE_BUSY from a transaction: the attempt is failed as retryable.
LockTimeout(w) ==
  /\ pc[w] \in Fences
  /\ faults < MaxFaults
  /\ faults' = faults + 1
  /\ Fail(w, TRUE)
  /\ Goto(w, "ended")
  /\ UNCHANGED <<domainVars, outcome>>

\* Any other exception fails the task for good.
FailForGood(w) ==
  /\ pc[w] = "failing"
  /\ Fail(w, FALSE)
  /\ Goto(w, "ended")
  /\ UNCHANGED <<domainVars, outcome, faults>>

-----------------------------------------------------------------------------
(* ReviewService.prepare *)

\* One transaction: the review, its approval, the waiting submission task, and
\* the end of the CREATE_REVIEW task.  A ReviewError fails the task for good: the
\* application has moved on, or review_payload finds a document missing or
\* ambiguous, an answer that was never validated, or a file in its place.
Prepare(w) ==
  LET r == RoundOf(w) IN
  /\ pc[w] = "prepare"
  /\ Fenced(held[w])
  /\ \/ /\ app.current = ReviewTask[r] /\ app.status = "READY_TO_REVIEW"
        /\ CompleteSpawning(w, SubmitTask[r], {"approval"})
        /\ approval' = [approval EXCEPT ![r] =
                          [status |-> "PENDING", valid |-> ApprovalSeconds, content |-> inputs]]
        /\ app' = [app EXCEPT !.current = SubmitTask[r]]
        /\ Goto(w, "announce")
     \/ Goto(w, "failing") /\ UNCHANGED <<queueVars, approval, app>>
  /\ UNCHANGED <<announced, action, inputs, clicks, accepted, followed, edits, outcome, faults>>

\* slack.request_approval, after the commit, and the delivery: when it raises,
\* or the message is not delivered, the task has SUCCEEDED all the same.
Announce(w) ==
  /\ pc[w] = "announce"
  /\ announced' \in {announced, announced \cup {RoundOf(w)}}
  /\ Goto(w, "ended")
  /\ UNCHANGED <<queueVars, app, approval, action, inputs, clicks, accepted, followed, edits,
                 outcome, faults>>

-----------------------------------------------------------------------------
(* ExternalActionService.execute, inside SubmissionWorker._execute *)

\* _validated, the fenced part.  Every application status the model has passes
\* the status check; correlation with the round's rows is by construction.
Validate(w) ==
  LET r == RoundOf(w) IN
  /\ pc[w] = "validate"
  /\ Fenced(held[w])
  /\ IF app.current = SubmitTask[r] /\ approval[r].status = "APPROVED" /\ approval[r].valid = 0
     THEN SetApproval(r, "EXPIRED") /\ Goto(w, "blocked")
     ELSE /\ UNCHANGED approval
          /\ Goto(w, IF app.current = SubmitTask[r] /\ approval[r].status \in {"APPROVED", "CONSUMED"}
                     THEN "compare" ELSE "blocked")
  /\ UNCHANGED <<queueVars, app, announced, action, inputs, clicks, accepted, followed, edits,
                 outcome, faults>>

\* _validated, after the fence: the review is read and regenerated.
Compare(w) ==
  /\ pc[w] = "compare"
  /\ Goto(w, IF approval[RoundOf(w)].content = inputs THEN "plan" ELSE "revoke")
  /\ UNCHANGED <<queueVars, domainVars, outcome, faults>>

\* Mutant: a spent approval is revoked too.
RevokedAny(status) == "REVOKED"

Revoked(status) == IF status \in {"PENDING", "APPROVED"} THEN "REVOKED" ELSE status
BackToReview(status) == IF status = "SUBMITTED" THEN status ELSE "READY_TO_REVIEW"

Revoke(w) ==
  LET r == RoundOf(w) IN
  /\ pc[w] = "revoke"
  /\ Fenced(held[w])
  /\ SetApproval(r, Revoked(approval[r].status))
  /\ SetApp(BackToReview(app.status))
  /\ Goto(w, "blocked")
  /\ UNCHANGED <<queueVars, announced, action, inputs, clicks, accepted, followed, edits, outcome,
                 faults>>

\* Mutant: an action in flight is clicked again.
ClickUnresolved(status) == IF status = "EXECUTING" THEN "submit" ELSE "start"

\* How execute goes on with an action.
StepFor(status) ==
  CASE status \in {"EXECUTING", "UNKNOWN_RESULT"} -> "reconcile"
    [] status = "SUCCEEDED" -> "finish"
    [] OTHER -> "start"

\* _action: find the round's ledger row, or plan it when no other is active.
Plan(w) ==
  LET r == RoundOf(w)
      refused == action[r] = "NONE" /\ ActiveElsewhere(r)
  IN
  /\ pc[w] = "plan"
  /\ Fenced(held[w])
  /\ IF action[r] = "NONE" /\ ~refused THEN SetAction(r, "PLANNED") ELSE UNCHANGED action
  /\ Goto(w, IF refused THEN "blocked" ELSE StepFor(action[r]))
  /\ outcome' = [outcome EXCEPT ![w] = IF action[r] = "SUCCEEDED" THEN "CONFIRMED" ELSE @]
  /\ UNCHANGED <<queueVars, app, approval, announced, inputs, clicks, accepted, followed, edits,
                 faults>>

\* _start: the last look at the state and the content, then the approval is
\* consumed and the action executes.
StartAllowed(r) ==
  action[r] = "PLANNED" /\ approval[r].status = "APPROVED" /\ app.status = "READY_TO_REVIEW"

Start(w) ==
  LET r == RoundOf(w)
      unchanged == approval[r].content = inputs
  IN
  /\ pc[w] = "start"
  /\ Fenced(held[w])
  /\ IF StartAllowed(r)
     THEN SetApproval(r, IF unchanged THEN "CONSUMED" ELSE "REVOKED")
     ELSE UNCHANGED approval
  /\ IF StartAllowed(r) /\ unchanged
     THEN SetAction(r, "EXECUTING") /\ SetApp("SUBMITTING") /\ Goto(w, "submit")
     ELSE Goto(w, "blocked") /\ UNCHANGED <<action, app>>
  /\ UNCHANGED <<queueVars, announced, inputs, clicks, accepted, followed, edits, outcome, faults>>

\* adapter.submit, outside any fence: the click, and what the adapter saw of it.
Click(w) ==
  LET r == RoundOf(w) IN
  /\ pc[w] = "submit"
  /\ clicks' = [clicks EXCEPT ![r] = @ + 1]
  /\ \/ /\ accepted' = accepted \cup {r}
        /\ \E seen \in {"CONFIRMED", "UNKNOWN"} : outcome' = [outcome EXCEPT ![w] = seen]
     \/ accepted' = accepted /\ outcome' = [outcome EXCEPT ![w] = "UNKNOWN"]
  /\ Goto(w, "record")
  /\ UNCHANGED <<queueVars, app, approval, announced, action, inputs, followed, edits, faults>>

\* It raises before the click: no control, a challenge, a browser failure.
NoClick(w) ==
  /\ pc[w] = "submit"
  /\ outcome' = [outcome EXCEPT ![w] = "UNKNOWN"]
  /\ Goto(w, "record")
  /\ UNCHANGED <<queueVars, domainVars, faults>>

\* adapter.reconcile: reads the portal.  A page that shows a receipt is a
\* confirmation, a page that does not is taken as no submission.
ReconcileResults ==
  {"UNKNOWN"} \cup (IF accepted # {} THEN {"CONFIRMED"} ELSE {})
              \cup (IF accepted = {} \/ ~PortalShowsReceipt THEN {"NOT_SUBMITTED"} ELSE {})

Reconcile(w) ==
  /\ pc[w] = "reconcile"
  /\ \E result \in ReconcileResults : outcome' = [outcome EXCEPT ![w] = result]
  /\ Goto(w, "record")
  /\ UNCHANGED <<queueVars, domainVars, faults>>

\* Unlike submit, an exception of reconcile is not caught.
ReconcileRaises(w) ==
  /\ pc[w] = "reconcile"
  /\ Goto(w, "failing")
  /\ UNCHANGED <<queueVars, domainVars, outcome, faults>>

\* Mutant: an unknown result is recorded as no submission.
RecordedAsFailed(result) ==
  [action |-> "FAILED", app |-> "READY_TO_REVIEW", then |-> "restart"]

\* Mutant: an unknown result goes to a new review, too.
RecordedForReview(result) ==
  [action |-> IF result = "UNKNOWN" THEN "UNKNOWN_RESULT" ELSE "FAILED",
   app |-> "READY_TO_REVIEW", then |-> "restart"]

Recorded(result) ==
  CASE result = "CONFIRMED" -> [action |-> "SUCCEEDED", app |-> "SUBMITTED", then |-> "finish"]
    [] result = "UNKNOWN" ->
         [action |-> "UNKNOWN_RESULT", app |-> "SUBMISSION_UNKNOWN", then |-> "finish"]
    [] result = "NOT_SUBMITTED" ->
         [action |-> "FAILED", app |-> "READY_TO_REVIEW", then |-> "restart"]

\* _record: a confirmed submission creates the connector and the monitor tasks.
Record(w) ==
  LET recorded == Recorded(outcome[w])
      confirmed == outcome[w] = "CONFIRMED"
  IN
  /\ pc[w] = "record"
  /\ Fenced(held[w])
  /\ SetAction(RoundOf(w), recorded.action)
  /\ app' = [status |-> recorded.app,
             current |-> IF confirmed THEN "CONNECT_CONTACTS" ELSE app.current]
  /\ followed' = (followed \/ confirmed)
  /\ Goto(w, recorded.then)
  /\ UNCHANGED <<queueVars, approval, announced, inputs, clicks, accepted, edits, outcome, faults>>

\* schedule_new_review, in a transaction of its own.  (Within the bound: after
\* the last round no task is created.)
Restart(w) ==
  LET next == RoundOf(w) + 1 IN
  /\ pc[w] = "restart"
  /\ Fenced(held[w])
  /\ IF app.status # "READY_TO_REVIEW"
     THEN Goto(w, "failing") /\ UNCHANGED <<queueVars, app>>
     ELSE /\ IF next \in Rounds
             THEN Enqueue(ReviewTask[next]) /\ app' = [app EXCEPT !.current = ReviewTask[next]]
             ELSE UNCHANGED <<queueVars, app>>
          /\ Goto(w, "finish")
  /\ UNCHANGED <<approval, announced, action, inputs, clicks, accepted, followed, edits, outcome,
                 faults>>

\* SubmissionWorker._execute completes the task, waiting for a human when the
\* result is unknown or a SubmissionError stopped the attempt.
Finish(w) ==
  LET waiting == pc[w] = "blocked" \/ outcome[w] = "UNKNOWN" IN
  /\ pc[w] \in {"finish", "blocked"}
  /\ Complete(w, [NoMemory EXCEPT !.interrupts = IF waiting THEN {"submission"} ELSE {}], waiting)
  /\ Goto(w, "ended")
  /\ UNCHANGED <<domainVars, outcome, faults>>

-----------------------------------------------------------------------------
Attempt(w) ==
  \/ Prepare(w) \/ Announce(w)
  \/ Validate(w) \/ Compare(w) \/ Revoke(w) \/ Plan(w) \/ Start(w) \/ Click(w) \/ NoClick(w)
  \/ Reconcile(w) \/ ReconcileRaises(w) \/ Record(w) \/ Restart(w) \/ Finish(w)
  \/ FailForGood(w) \/ LoseLease(w) \/ EndAttempt(w)

SubmissionNext ==
  \/ EditInputs \/ TimePasses \/ PollRecover \/ CoordinatorRecovers
  \/ \E r \in Rounds :
       \/ \E decision \in {"APPROVED", "REJECTED"} : HumanDecides(r, decision)
       \/ OperatorResumes(r)
  \/ \E w \in Workers :
       \/ Startup(w) \/ RunOnce(w) \/ Attempt(w)
       \/ Beat(w) \/ Stop(w) \/ Crash(w) \/ LockTimeout(w)

SubmissionSpec == SubmissionInit /\ [][SubmissionNext]_submissionVars

\* Workers are started, poll and run their attempts on; clocks advance.  No
\* human, heartbeat or portal answer is promised.
SubmissionFairness ==
  /\ \A w \in Workers :
       WF_submissionVars(Startup(w)) /\ WF_submissionVars(RunOnce(w))
       /\ WF_submissionVars(Attempt(w))
  /\ WF_submissionVars(PollRecover)
  /\ WF_submissionVars(TimePasses)

FairSubmissionSpec == SubmissionSpec /\ SubmissionFairness
-----------------------------------------------------------------------------
(* Properties                                                               *)

SubmissionTypeOK ==
  /\ TypeOK
  /\ app \in Apps
  /\ approval \in [Rounds -> Approvals]
  /\ announced \subseteq Rounds
  /\ action \in [Rounds -> ActionStatuses]
  /\ inputs \in Contents
  /\ clicks \in [Rounds -> Nat]
  /\ accepted \subseteq Rounds
  /\ followed \in BOOLEAN
  /\ pc \in [Workers -> Steps]
  /\ outcome \in [Workers -> Outcomes]
  /\ faults \in 0 .. MaxFaults
  /\ edits \in 0 .. MaxEdits

\* An approval buys one click: whatever attempts crash, lose their lease, are
\* retried or run side by side, a review is clicked at most once, and only with
\* its approval consumed (docs/submission.md: "never clicked again").
OneClickPerApproval ==
  \A r \in Rounds :
    /\ clicks[r] <= 1
    /\ clicks[r] > 0 => approval[r].status = "CONSUMED"
    /\ action[r] \in ActiveActions \cup {"FAILED"} => approval[r].status = "CONSUMED"

\* At most one submission action of the application is in flight, unresolved or
\* successful, although _start does not look for others again.
OneActiveAction == \A r, s \in Rounds : {action[r], action[s]} \subseteq ActiveActions => r = s

\* SUBMITTED is what the portal confirmed: the ledger, the application status
\* and the follow-up tasks say it together, and the portal has an application.
\* Neither a late revocation nor the recovery of another process undoes it.
SubmittedIsReal ==
  /\ app.status = "SUBMITTED" <=> \E r \in Rounds : action[r] = "SUCCEEDED"
  /\ app.status = "SUBMITTED" <=> followed
  /\ followed => accepted # {}

\* Nobody is asked to approve, and nothing clicks, a later review of the
\* application before every earlier action was recorded as not submitted; that
\* record is final, also for workers that come back late from a click.
AgainOnlyAfterFailure ==
  \A r, s \in Rounds :
    r < s /\ (approval[s].status # "NONE" \/ clicks[s] > 0) => action[r] = "FAILED"

\* The portal gets the application at most once.
AtMostOneSubmission == Cardinality(accepted) <= 1

\* An approval only moves forward: it is consumed for the inputs it was given
\* for, and nothing revives one that was rejected, expired, revoked or spent.
ApprovalMoves ==
  [][\A r \in Rounds : LET old == approval[r] new == approval'[r] IN
       \/ old.status = new.status
       \/ old.status = "NONE" /\ new.status = "PENDING"
       \/ old.status = "PENDING" /\ new.status \in {"APPROVED", "REJECTED"}
       \/ old.status = "APPROVED" /\ new.status \in {"EXPIRED", "REVOKED"}
       \/ old.status = "APPROVED" /\ new.status = "CONSUMED" /\ old.content = inputs
    ]_submissionVars

\* No task sleeps on a decision that has been taken: once an approval is decided,
\* lapsed, used or revoked, its submission task does not wait for it any more -
\* whether the click, an operator's resume or a retry woke it first, and also when
\* the decision came while the task was not asking for it.
NoSleepOnDecision ==
  \A r \in Rounds : LET row == task[SubmitTask[r]] IN
    row.status = "WAITING_HUMAN" /\ "approval" \in row.memory.interrupts
      => approval[r].status \in {"NONE", "PENDING"}

\* No action stays in flight: it is recorded, or recovered as unknown, unless
\* its task ends up with a human or without attempts.
ActionsSettle ==
  \A r \in Rounds :
    action[r] = "EXECUTING"
      ~> action[r] # "EXECUTING" \/ task[SubmitTask[r]].status \in {"WAITING_HUMAN", "FAILED"}

\* An approval whose task may run is acted upon: used, given up, or back with a
\* human.
ApprovalsActedUpon ==
  \A r \in Rounds :
    approval[r].status = "APPROVED" /\ task[SubmitTask[r]].status = "READY"
      ~> approval[r].status # "APPROVED" \/ task[SubmitTask[r]].status \in {"WAITING_HUMAN", "FAILED"}

-----------------------------------------------------------------------------
(* What the documents say and the code does not keep.                       *)

\* docs/submission.md: "affirmative evidence that no submission exists records
\* the action FAILED, returns the application to READY_TO_REVIEW, and enqueues a
\* fresh immutable review".  The record and the review are two transactions.
FreshReviewFollows ==
  \A r \in Rounds : r + 1 \in Rounds =>
    (action[r] = "FAILED" ~> task[ReviewTask[r + 1]].status # "ABSENT")

\* docs/architecture-v2.md: "SUBMISSION_UNKNOWN --> READY_TO_REVIEW: not
\* submitted" is the only way from the one to the other.
UnknownOnlyReconciled ==
  [][app.status = "SUBMISSION_UNKNOWN" /\ app'.status = "READY_TO_REVIEW"
       => \E r \in Rounds : action[r] # "FAILED" /\ action'[r] = "FAILED"]_submissionVars

\* phase9-report.md: "Continued ambiguity remains waiting for human directed
\* reconciliation": a task that has ended cannot be resumed.
UnresolvedReconcilable ==
  \A r \in Rounds : action[r] = "UNKNOWN_RESULT" => task[SubmitTask[r]].status \notin Terminal
=============================================================================
