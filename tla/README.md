# A verification development for job-hunting-machine

TLA+ models of the program's durable core, checked with TLC on small instances
and, where stated, proved with TLAPS for every value of the constants.

The program is a set of worker processes around one SQLite database. Everything
they do for a job application - retrieve links, qualify a job, render a resume,
fill a form, ask a human on Slack, submit, contact people, watch the portal - is
a *task* in a queue table. Processes may crash, be stopped or stall at any
moment; a browser, Slack, Gmail or model call may have happened without anybody
knowing. The questions worth asking are therefore: does one task ever have two
workers that both write, is work lost or done twice, is an effect on the outside
world ever repeated, and is it ever performed without the approval of a human.

## 1. Inventory

State is in the main database unless another place is named. "Fence" is
`QueueService.fence`: a `BEGIN IMMEDIATE` transaction that first checks that the
caller's lease still owns its task and has not expired.

| Component | State | Operations | Hard behaviour | What makes it correct |
|---|---|---|---|---|
| Orchestration queue (`orchestration/queue.py`) | `agent_queue` rows (status, owner token, attempt count, lease and retry times), `task_memory` | enqueue, enqueue waiting, claim, heartbeat, save memory, complete, fail, release, recover, resume, abort, cancel | stale leases in any order, expiry, retries, continuation of a released or resumed attempt | one owner behind the fence, tokens unique, rows consistent, attempts bounded, replies kept |
| Worker runtime (`worker.py`, `checkpoints.py`) | the worker's place in an attempt, its copies of memory and checkpoint; checkpoints in a *second* database | run, run_once, _execute, heartbeat, _fenced, _record, shutdown | two commits without a common transaction, shutdown beside a commit, reads outside the fence | the row never runs ahead of the thread, no commit by a former owner, every task settles |
| Review and submission (`submission/`) | review, approval, ledger row of the external action, application status; the portal (external) | prepare, execute (validate, plan, start, submit or reconcile, record), recover, schedule_new_review | clicks whose result is unknown, attempts that overtake each other, edits and expiry after approval | one click per approval, a later review only after a recorded failure, no decision that nobody acts on, SUBMITTED means confirmed |
| Slack control plane (`slack/`) | notification rows (PLANNED, EXECUTING with owner and deadline, SUCCEEDED, FAILED, UNKNOWN_RESULT), `slack_events`, approvals, processing tasks | plan, deliver_one, recover, receive, process_one, request_approval, decide with resume | a post between two transactions, a click before the receipt is stored, repeated events, a decision about something that has moved on, a message that may no longer be posted | a message is posted at most once, an event takes effect once, only a confirmed message can be answered |
| Form browser worker (`browser/`) | mutation ledger, PREPARE approvals, answers, page and session checkpoints, domain lock; the page (external) | discovery, resolution, plan, approval, execution per field, advance, questions, hand-over to the review | a mutation whose result is unknown, a page that loses its values, assignments rolled back by the exception that follows | nothing is filled that was not approved as it is, the review shows what was filled, seen and left with the portal |
| Model gateway and budgets (`models/`) | `model_usage` rows: reserved, settled | reserve, settle, the retry loop over tiers | concurrent reservations, costs above the reservation, a settlement after midnight, unknown results | real spending stays within the ceilings, errors of the transport buy no dearer tier |
| Outreach (`outreach/`) | contacts, drafts, approvals, the ledger of Gmail calls; Gmail (external) | connect, create_draft, send, manual review, recover | repeated connector attempts, unknown sends, text that changes after the approval | an email is sent at most once and only as approved |
| Monitor (`monitor/`) | `last_status_checked_at`, application status, monitor events | schedule_due, check, record, notify | dedupe buckets against intervals, limits per run, attempts without a heartbeat that overlap, evidence out of order | each observation is one event, the events explain the status, an application is checked again and again unless others crowd it out |
| Link and qualification agents (`agents/`) | jobs, applications, task memory, checkpointed graph | retrieve, load evidence, evaluate, ask a model, publish | a crash with the model's answer on its way, a deadline that passes while the task waits | no model is asked twice, decisions are current when committed, every link gets somewhere |
| Resume workers (`resume/`) | snapshot in task memory, artifacts | start, plan, generate, compress, check sources, register, hand over | facts that change during a build, overflow of the page, interrupted model operations | a document is published once and from sources of its attempt |
| Recovery coordinator (`reliability/recovery.py`) | none of its own | recover everything in order | runs beside live workers | recovery never repeats an effect and never takes work from a live owner |
| Candidate knowledge, repositories, engine, CLI, backup, doctor, reports, evaluations, path guard, logging, migrations | files, rows | see `PROJECT.json` | mostly sequential | - |

Components interact in four ways: through queue rows (a finished task creates
the next one in its own transaction), through shared rows (`application`,
`approval`, `external_action`), through leases (any code that writes for a task
does it inside a fence) and through external systems that cannot be asked to
take part in a transaction (portal, Slack, Gmail, model provider, and the
checkpoint database).

`PROJECT.json` lists every component with its status, and under `hazards` each
place in the code where an order of events, a crash, a stale value or a limit
could break it.

## 2. Modules

```
TaskLifecycle          what the queue promises about a task
   ^ refinement
TaskQueue              the queue                     TaskQueueProofs
   ^ EXTENDS
   +-- WorkerRuntime   checkpointed graph workers    WorkerRuntimeProofs
   +-- Submission      review, approval, submission  SubmissionProofs

ExternalEffect         what the ledger promises about a call that leaves the database
   ^ refinement        (from SlackDelivery and Outreach)
LeasedTasks            the queue as the agents use it
   ^ EXTENDS
   +-- SlackDelivery   outbox and inbox              SlackDeliveryProofs
   +-- Outreach        connector, drafts, sends      OutreachProofs
   +-- FormPreparation the form worker               FormPreparationProofs
   +-- Monitor         the application monitor       MonitorGatewayProofs
   +-- Qualification <- Documents <- Pipeline        PipelineProofs
ModelGateway           budgets and the loop over tiers MonitorGatewayProofs
```

Each `MC...` module gives the constants of its module values. Operators whose
comment begins with "Mutant:" are plausible mistakes in the code beside them (a
dropped guard, a swapped order); each property is shown to be violated when one
of them takes the place of the definition that follows it, so that no property
holds by the shape of its model alone.

**TaskLifecycle** is the abstract specification: the stages a task passes
through, one owner at a time, at most `MaxAttempts` attempts; no leases, clocks,
workers or memory.

**TaskQueue** models `QueueService`. Each method is one transaction and so one
action. `task[t]` is the row with its memory; `held[w]` is the `Lease` value that
a worker process keeps after `claim`, also when the row has long moved on, so
that every fenced call is tried with stale leases. A timestamp column is the
number of seconds until it elapses: `Tick` lowers all of them together, 0 means
elapsed, `NoTime` is SQL NULL. `FreshOwner` is a generated ULID: a token that no
row and no process holds. `Fail` draws the delay from the policy's delays and
jitter. Dedupe keys are task identities: enqueueing a known identity returns the
old row and changes nothing. Left out: the audit log, the version column, error
texts, `NEW` and `BLOCKED` tasks (the queue neither produces nor claims them).

**WorkerRuntime** composes the queue with worker processes that run a graph: a
line of `Nodes` nodes, one of which may interrupt to ask a human. Each database
access of `Worker._execute` and `FencedSqliteSaver` is a step, so crashes,
shutdowns, lost leases and exceptions (`Raise`: the node's, the database's, the
heartbeat's) fall between any two. `writer` is the main database's
writer reservation, held over the commit in the checkpoint database; every queue
write waits for it. `memory` and `snapshot` are the local copies that `_execute`
reads outside the fence.

**Submission** composes the queue with `ReviewService`,
`ExternalActionService`, `SubmissionWorker`, the Playwright adapter, the Slack
decision and the recovery coordinator. A *round* is one immutable review: its
CREATE_REVIEW task, its SUBMIT_APPLICATION task and approval, and its ledger row
`submit:<application>:<review hash>`. The answers and artifacts are a version
(`inputs`); a review remembers the version it was made from. `Prepare` makes
it, or fails where the code finds something missing. `pc` follows
`execute` from transaction to transaction; the click (`Click`) is outside any
fence as it is in the code, so a worker without a lease may still click. The
portal accepts a click or loses it, and the adapter may not learn which;
`reconcile` answers from what the page shows. Slack is a human who decides about
announced reviews; `Announce` may fail after the review has been committed.

**LeasedTasks** is the same queue without clocks, tokens and memory documents,
for the modules of the agents, where those would only multiply states: a row
has an owner, a lease may run out at any moment (`RecoverTask`), an attempt is
counted by a claim unless it continues one that a human answered. `RowStep` is
what one transaction may do to a row: publish it, grant it, end it, wake it or
cancel it. That `TaskQueue` does nothing else to its rows, and that the agents
ask for nothing else, is proved (section 4).

**ExternalEffect** is the abstract specification of the action ledger: an effect
begins before it is performed, is performed at most once, is called SUCCEEDED
only if it was performed and FAILED only if it was not, and is never begun again.

**SlackDelivery** has listeners that run the loop of `socket_mode.py`. Messages
are numbered in the order of their rows in the ledger; `StartDelivery`, `Post`
and `StoreReceipt` are the two transactions of `deliver_one`, which takes the
`Oldest` planned row, and the call between them. A listener is started with an
allowlist of its own (`StartListener`, `allowed`); `BarredDelivery` is the
exception of `deliver_one` for a channel that is not on it, which leaves the row
PLANNED and ends the listener. What Slack answers with an error is recorded
FAILED whether or not the message was shown. `GiveUp` is the recovery after
sixty seconds, which may fall between any two steps. `Say` is a
human, `Receive` the durable inbox (Slack delivers again what was not
acknowledged), `TakeEvent`, `Process` and `CompleteEvent` the transactions of
`process_one`. `reply[m]` says which event resumed the task that asked.

**FormPreparation** models `FormWorker` with its `ExternalActionService`,
`BrowserManager` and the answers. `session` is the open page with what it shows,
which goes with the session; `filed` is what the portal keeps of pages that were
advanced, so nothing of the last page, which is filled to be looked at and left
for the submission to fill again. One attempt goes through the stored login
(`LoginExpired`), reply, inspection, resolution, plan and approval, then plan,
start, fill, record, `MarkStarted`, `Validate` and `Checkpoint` for each field,
and advance; each is a fence or a browser call of its own. The browser may raise,
in which case nobody looks whether the page took the value; any step may fail
with an error that a retry cures or not (`AttemptFails`), while the worker's own
errors (`Raise`) fail the task. Knowledge may be edited at any time, humans answer
fields and approvals or stay away.

**ModelGateway** models `Gateway.structured` and `BudgetLedger`. A reservation is
admitted against the task's, the application's, the day's and the month's
ceiling in one transaction, pending rows counting with their maximum in every
period; the answer, or its absence, decides between retry, correction, a dearer
tier and the end. `billed` is what the provider took, whatever the ledger knows.

**Outreach** has workers that claim the connector's task, the sender's and the
manual reviewer's. What an email would say is a version, of which the digest in
the idempotency key is the identity. `BeginDraft`, `CreateDraft` and
`RecordDraft` are the two fences of `create_draft` with Gmail between them,
`BeginSend`, `SendDraft` and `RecordSend` those of `send`. A dry run creates no
draft (`DraftsDisabled`) and settings that are not live or do not name the
approver refuse a send (`SettingsRefuse`). Any step may fail, for a retry or for
good (`AttemptFails`), and a worker may be stopped (`StopOutreach`).

**Monitor** models scheduling by buckets and by rank (`rank`, with at most
`CheckLimit` tasks in a run, of which one that exists already takes its share),
the search of the mailbox (the newest messages, as many as the limit and the
window of thirty days let through), the reading of mail and portal, and the
repository's transaction that records the event, moves the status and so the
rank. A worker has no heartbeat and only `complete` is fenced, so two attempts
may be under way (`Overrun`). A text is one of its readings. `Unchecked` are the
statuses that are configured with no checks per day.

**Qualification**, **Documents** and **Pipeline** follow a link to an
application with its documents. A page is the results that the groups of rules
have on it; `late` are the jobs whose deadline has passed, and a finding keeps
whether that was so when it was made. `sources` is the version of the verified
facts and the template. Each model operation is marked as pending in a fenced
transaction before it is asked. A document that has no material, overflows, does
not compile or was made under another policy goes to a human; any other step may
fail, for a retry or for good, and a worker may be stopped. `Pipeline` composes
both kinds of workers with one queue, recovery and attempts that outlive their
lease.

## 3. Runs

| Run | Instance | Asks | Distinct states |
|---|---|---|---|
| `task_queue` | two tasks of 1 and 2 attempts, two workers, four tokens, lease 2 | does the fence admit one owner, are rows consistent, attempts bounded, replies kept, live leases safe; does the queue implement `TaskLifecycle` | 305,893 |
| `worker_runtime` | one task with a question in the middle of three nodes, two workers, two faults | do row and thread agree, does only the owner commit, are answers the accepted ones, does every task settle | 305,758 |
| `submission` | two rounds, one review and one submission worker, one fault, one edit | is one action active at a time, does a later review wait for a recorded failure, is the application submitted once | 2,011,382 |
| `submission_rivals` | one round, two submission workers, two faults, one edit | is an approval clicked once, is SUBMITTED real, which way do approvals move, does a decided approval find its task awake | 1,539,067 |
| `submission_live` | one round, one submission worker, one fault, one edit, under fairness | do actions leave EXECUTING, are approvals acted upon | 264,848 |
| `slack_delivery` | two messages, the first of any kind, one event, one listener that is started again with any allowlist, one fault | one post, one effect, answers to confirmed messages only, nothing left behind but what a barred row blocks | 393,754 |
| `form_preparation` | two pages, a known and an unknown field, two workers, one edit, one fault | is what is filled approved as it is, does the review show what was filled and left, does the task settle | 529,879 |
| `model_gateway` | two callers, two tiers, three days of two months, one fault | does spending stay within every ceiling, do only answers escalate, do calls end | 245,073 |
| `outreach` | two workers, no contact or one by either channel, two versions, one fault | is an email sent once and as approved, are Gmail calls made once, is the connector's task settled | 493,291 |
| `monitor` | two applications for one check per run, two attempts that may overlap, a message, two portal pages of the one and one of the other, one fault | do events explain the status, is an application checked again unless others crowd it out | 745,576 |
| `pipeline` | one link and job, two qualifiers, one writer, two claims each, one change of facts, one fault | is a model asked once, are decisions in time, documents from their sources, does everything get somewhere | 151,822 |
| `fresh_review` | two rounds, one submission worker, one fault | violated: does a review follow NOT_SUBMITTED (section 6) | 244,385 |

Further configurations stay beside the modules and are run by hand, with
`tlc -config <name>.cfg <module>.tla`:

| Configuration | Module | What it shows |
|---|---|---|
| `MCSubmissionReceipt`, `MCSubmissionLateClick` | `MCSubmission` | `AtMostOneSubmission` is violated: section 6 |
| `MCSubmissionUnknown`, `MCSubmissionReconcile` | `MCSubmission` | `UnknownOnlyReconciled`, `UnresolvedReconcilable` are violated: section 6 |
| `MCMonitorNotice` | `MCMonitor` | `ChangesNotified` is violated: section 6 |
| `MCSlackDeliveryClicks` | `MCSlackDelivery` | two events about one message, one listener; the safety properties hold (1,678,245 states) |
| `MCSlackDeliveryRivals` | `MCSlackDelivery` | two listeners, one message and one event; all four properties hold (340,574 states) |
| `MCOutreachContacts` | `MCOutreach` | one worker, two contacts by two channels; `ConnectorSettles` holds (443,868 states) |

**Why the bounds are enough.** Two workers are what a stale owner and its
successor need; a third would be a second successor, which meets the same rows.
Two tasks let one transaction recover several rows and let a token be confused
between rows. A task with two attempts retries once and exhausts once, one with
a single attempt exhausts at once. Tokens (`Owners`) are one more than the rows
and leases that can hold one at a time, so a fresh one always exists when a
claim is possible. `LeaseSeconds` 2 lets a lease be running, renewed and
expired; where it is 1 a heartbeat has nothing to renew. `MaxFaults` (crashes,
shutdowns, storage and browser errors, lost answers, missed deadlines) is 1 or
2: in most modules one fault already leads through every recovery branch, since
lost leases and recoveries are not counted. `MaxMishaps` is that bound for the
gateway, where a bill above its estimate counts as one too. `MaxEdits`,
`MaxVersion` and `MaxSources` allow one change, which is enough to make
something stale that was read before it; with two contents an edit may not be
undone by another. Two rounds are a submission and the fresh review after it. A
form has a page with a known field and a field that a human must answer, and a
last page. The gateway's ceilings (task 5 and 3, application 5, day 3, month 4,
with tiers of 2 and 3 units) are such that each of them refuses a request that
the others admit; two callers reserve side by side, over three days of which the
last begins a month. Of the monitor's two applications one may come to the
status that is configured with no checks, to a rejection or to nothing new; the
other never shows anything, so that it stays due and competes for the one check
of a run, whichever has the better rank (`rank` is chosen in the initial state).
`MCMonitorNotice` has the two messages that call for two statuses. `MaxPages`
(2, as long as the form) never ends an attempt of the run; its effect is covered
by the proofs, where it is any number. The pipeline has one job with two
qualifiers beside each other, a page whose meaning a model decides or which
shows a challenge, and a document that overflows once. The Slack instance has a
message of each kind in turn (`kind` is chosen when it is planned), a notice
behind it that a barred row can block, and one event.

Symmetry (tokens, workers that serve the same types, contents) is used in safety
runs only; the run with two rounds keeps the review worker apart, and the runs
under fairness use none. `CHECK_DEADLOCK FALSE` because a run may end for good:
all tasks final, or all waiting for a human that never answers.

**Fairness** is weak fairness of: a worker's own steps (the event loop runs a
coroutine on whose await has ended), claiming and recovery (`Worker.run` and the
listeners poll them in a loop), the passing of time, and Slack's redelivery until
the acknowledgment. Strong fairness is assumed of a claim where several tasks
compete for a worker (`TakeEvent`, `ClaimTask` of the connector): the
code claims by priority and age, so a task is not passed over for ever. A Slack
listener that ended is started again (`StartListener`), with any allowlist: that
is the operator's part, and nobody promises that a channel is allowed again. Of
the monitor only the scheduler and the clock are fair: its worker drains the
queue once and exits, so nothing is assumed of claims or checks.
`RuntimeFairness` also lets the human answer in the end, without which no task
with a question settles. Nothing promises a heartbeat, a portal answer, a Slack
decision, an answer of a model or the absence of faults; faults are bounded, as
every liveness property of a program that crashes for ever is false.

## 4. Proofs

Eight modules hold proofs, each of an inductive invariant and of what follows
from it: one per component, except that the monitor and the gateway that it asks
share one, in which no proof about the one uses the other. They hold for any
number of tasks, workers, rounds, messages, drafts, forms, jobs, callers,
attempts, faults and edits, any lease time, retry policy, prices and ceilings,
from the `ASSUME`s beside the constants and from nothing else. The assumptions are
that limits are positive, that types, priorities, rounds and readings are
functions of the right kind, that `Null` and the marks are not values or workers
(SQL NULL is no ULID), that each task belongs to one round, and:

* a page of a form is any sequence of fields, also empty, a field may be on
  several pages or twice on one (`PagesAssumption` of FormPreparation);
* `Shows` gives each job one or more results of the rules (`RuleResult`);
* a document's `Operations` are a sequence of different names, as `_select`
  builds it; it takes an operation for done when its name is in the snapshot;
* the task that a message makes is not one that qualification or documents make
  (`IntakesAssumption`): they are of different types;
* the route has a tier, every estimate is positive, ceilings are natural numbers,
  and months do not run backwards (`PricesAssumption`, `CeilingsAssumption`,
  `CalendarAssumption` of ModelGateway).

Each inductive invariant was checked by TLC on the instances of section 3 before
it was proved.

*The queue.* `IInv` is the type invariant, the uniqueness of tokens, and for
each row what `RowsConsistent` and `RetryBudget` say. Token uniqueness needs all
of it: `Fenced` compares a token and an attempt, so the proof must know that a
worker whose token is on a row was given it for that row and attempt, and that a
row without an owner is not ACTIVE. Almost every transaction rewrites rows and
hands out no token; `RowsRewritten` proves the inductive step once for all of
them, and `Claim` and `Forget`, which change a lease, stand apart. From `IInv`
follow `TypeCorrect`, `UniqueTokens`, `Fencing`, `Consistency` and `Budget`.
`NextTaskStep` then classifies what a step can do to one row, from which come
the properties of steps: `LiveLeases` (a running lease whose owner is gone is
touched by nobody), `RepliesKept` (what a row remembers changes by an accepted
answer or by its owner's writing only, in whatever status the row is), and
`Refinement`, that the queue implements
`TaskLifecycle`.

*The submission.* Each step of Submission is a step of the queue or leaves it
alone (`StepConforms`), so `IInv` carries over (`QueueInvariant`).
`ClickInv` is the strengthening behind `ClickOnce`: an attempt that acts holds a
lease for its round's submission task; a round with a ledger row has its
submission task, so it is not prepared again and its approval is not replaced; a
row that was begun has its approval consumed; who is about to click is the only
one of its round, has begun the action, and the round has no click yet. Most
steps are `Quiet` for it (they begin nothing, click nothing and leave spent
approvals alone); `Plan`, `Start` and `Click` are proved one by one.

`LedgerInv` looks at all rounds together. A round begins when all earlier ones
have FAILED, and FAILED is final, since a worker that owns its task and resolves
an action has an unresolved one before it. So at most one action is under way
(`OneActive`), and SUBMITTED means a confirmed action, its follow-up tasks and
an application at the portal (`SubmittedReal`). `ApprovalsMove` gives the order
in which an approval changes. What the code cannot promise is that the portal
gets one application (section 6); what it does promise, with any workers and any
portal, is `AgainAfterFailure`: nobody is asked about, and nothing clicks, a
later review while an earlier action is anything but recorded as not submitted,
and a click that comes late does not change that record. `DecisionsWake` is
about the meeting of a decision with its task: only `Prepare` makes a task wait
for an approval (`OnlyPrepareSleeps`), which it has just created, and the
transaction that decides an approval wakes the task that waits for it
(`DecisionWakes`); what revokes, uses up or lets lapse an approval runs in an
attempt of that same task, which is then awake.

*The worker runtime.* Each step is a step of the queue, so `IInv` holds here
too. `RuntimeInv` then relates three copies of the truth, the
row, the checkpoint in the second database and the worker's local copies: the
reservation is held exactly during a commit and only by the owner; memory and
snapshot are current for as long as the row is the worker's own; a thread that
is done or asks is what the row says SUCCEEDED or WAITING_HUMAN of; an answer in
a thread is the reply in the row. The reservation is what makes this inductive:
between the fence and the commit in the other database no recovery can take the
row. From it come `ProgressKept`, `RowsFollow`, `AnswersAccepted` and
`OwnersCommit`.

*The Slack outbox and inbox.* `EventEffectOnce` and `AnswersConfirmed` are nearly
inductive; what they need is that only `Process` makes an answer, of an event in
hand (`NewAnswer`), and that what an answer rests on stays as it is
(`AnswersStay`). `OutboxRefines` needs `DeliveryInv`: the listener that has a
message in hand is alone with it, has not shown it while it is about to post, and
knows afterwards whether it was shown, even when recovery gives the delivery up
in between.

*Outreach.* `OutreachTypes` includes where a worker may stand with which task
(`Placed`): only the connector creates drafts, only a sender whose draft is an
email sends. `CallInv` says of every Gmail call that the worker that has it in
hand is alone with it, that it has not happened before it is made, and that a
confirmed answer means that it has; recovery may call it unknown meanwhile.
`SendRows` says that a send has a row in the ledger only if the draft's approval,
for exactly that version, is consumed; as a consumed approval is final
(`ConsumedIsFinal`) and a draft never gets a second one, no other version of the
draft can be sent. `SentWasApproved` follows from these, `MailRefines` from
`CallInv` alone.

*The form worker.* A step in the browser is not fenced, so an attempt may fill a
field long after it lost its lease, and ownership of the row proves nothing about
the page. `FormInv` rests on two other facts: whoever works in the browser holds
the domain lock (`Lock`), so a second attempt fails before it touches an answer;
and a human's reply is awaited only when nobody is in the browser (`NoReply`), so
answers and approvals do not move under a plan. With these, an attempt knows that
its plan is the one approved (`HasPlan`), that the ledger row of its field is its
own (`HasRow`), and that the fields before it are done (`HasDone`); an action that
began used up its approval; and the pages before this one are filed as the
answers say, while those up to the final one were filled and seen.
`OnlyApprovedFilled` and `ReviewIsTrue` follow, and `ApprovalsStand`
says of every step that an approval keeps its plan and stays consumed.

*The monitor.* Two attempts may overlap and only their ends are fenced, so the
proof uses no lease. It needs that time does not run backwards: the transitions
have an order (`Level`), and every event that counted has left a stage that comes
before the present one (`Past`). So no stage is left twice, and `EventsExplain`
follows from the transaction that looks for its source first.

*The pipeline.* What the owner of a task works on is what the task's memory holds
(`QHolds`, `DHolds`); attempts that lost their lease may have other data but cannot
store it. A mark is stored before a model is asked, and it is stored only where
there was none; so while one attempt asks, in time or long after its lease,
nobody else can come to ask the same (`QAsks`, `DAsks`), and what comes after the
answered operations was not asked for yet (`DPlanned`). `AskedOnce` follows.
`InTime` is about the one step that lets a job pass, and `FromSources` about the
one that registers a document: the data that was checked is the memory of the
task, and its sources are no older than the claim (`DSince`).

*The model gateway.* The ledger knows less than the provider: a request whose
answer was lost may have been billed, a settlement may fall on a later day than
its reservation. `GatewayInv` therefore charges every row with what it may still
cost, its estimate while it is pending and its bill, up to the estimate, once it
is settled, and says that these charges fit under every ceiling. A charge only
falls, except at an admission, and the guard of an admission counts at least as
much as the charges: a pending row counts with its maximum for every day and
month, which is what makes the invariant survive midnight. `OutstandingIsBounded`
is that statement; `SpendingIsBounded` follows, as no bill within its estimate
exceeds its charge. The ceilings are compared with sums over rows, so the proof
needs that a sum gains exactly what is added to it. Induction over the set cannot
be cited; instead the strict subsets of a finite set are well-founded, so a law
of sums that failed would fail for a smallest subset, and `TotalPicked` shows
that none is the smallest (`SumsAgree`, `TotalWithout`, `TotalMonotone`).
`EscalationIsPaidFor` rests on what the call in progress knows of its rows: it
climbs only with a settled answer in hand (`ClimbsOnAnswer`). `SettledOnce` says
that a settled row is never written again. `CallsAreBounded` is the safety half of
`CallsEnd`: a call stays within its policy and each of its steps returns or
leaves strictly less to do, so that only a caller that stops can keep it open.

*The queue and its users.* The agents are modelled over `LeasedTasks`, so what is
proved of them is worth as much as that abstraction. Two kinds of theorem close
the gap. `LeasedRows` maps a row of `TaskQueue` to one of `LeasedTasks` (its
tokens are the workers, clocks and memory are left out) and shows that every step
of the queue does to each row what `RowStep` allows or nothing: nobody else is
granted an ACTIVE row, a claim counts unless it continues, an end is what `Lapsed`,
`Retried` or `Released` say. `EventTasksConform`, `OutreachTasksConform`,
`FormTaskConforms` and `PipelineTasksConform` show the other side, that the agents
move their rows by `RowStep` only. That is not evident where a row is published
without a look at what is there: a decision publishes the resume's task and an
artifact the next one's, and the proof needs that these are still absent
(`Ahead`: nothing is published after a job that is undecided, nor after the task
that its application is at); the Slack inbox has a task only for events
that it stored. `MonitorTasksConform` has one exception, stated in it: the model
keeps one row for each application, and the scheduler puts the task of a new
bucket in the place of the last one. That it does so only when the last one is
over follows from `Due`, but what `SelectSeq` selects is recursion over data and
not proved here.

Every invariant and every action property of the passing runs but one is stated
by a theorem. Only model-checked are `AtMostOneSubmission`, which is not true of
every portal and any number of workers, and liveness (`TasksSettle`,
`ActionsSettle`, `ApprovalsActedUpon`, `LoopSettles`, `FormSettles`, `CallsEnd`,
`ConnectorSettles`, `CheckedAgain`, `PipelineSettles`): the prover does not
handle fairness or `ENABLED`. Section 6 is model-checked too, as a
counterexample needs no proof.

## 5. What holds

* The fence admits one of the workers that believe they own a task, whatever
  stale leases, recoveries and heartbeats do; a task that has a live lease is
  touched by its owner only.
* Attempts never exceed `max_attempts`; a READY or waiting task can always be
  claimed once more, so the `attempts_exhausted` branch of `claim` is dead code.
* A checkpoint is committed only by the owner of the row, no progress is lost,
  and the row never says more than the thread has done.
* An approval buys one click, for any number of rival or retried attempts, and
  an application that is SUBMITTED was confirmed by the portal and stays so.
  Actions of an application are never two at a time, and a later one comes only
  after the earlier was recorded as not submitted. No task sleeps on an approval
  that has been decided. With a portal that always shows its receipts and one
  submission worker, the application is submitted at most once.
* A Slack message is posted at most once, an event takes effect at most once,
  and a task is resumed only by the answer to its own confirmed message.
* What a form holds was approved as it is; the pages that were left hold what the
  review shows, and the last one was filled with it and seen, although the steps
  in the browser are not fenced.
* Real spending stays within every ceiling, but for bills above their estimate.
* An email goes out at most once, in the words that were approved.
* An observation of the monitor is one event, and events explain the status. An
  application is checked again and again unless others that are due keep coming
  first.
* No model is asked twice for one task by the agents and the resume workers, a
  job that passes was in time, and a document is never published from facts
  revoked before its attempt began.

## 6. What does not

`fresh_review` is a listed finding: NOT_SUBMITTED is recorded in one transaction
and the new review is scheduled in the next. A failure in between leaves the
application READY_TO_REVIEW without any review, and no later attempt makes one.

Further disagreements between documents and code, with a configuration each:

* `MCSubmissionReceipt`: `reconcile` takes a page without a confirmation text as
  evidence that there is no submission (`playwright_adapter.py:75`). If the
  portal does not keep showing its receipt, the fresh review leads to a second
  application.
* `MCSubmissionLateClick`: the click is outside the fence (`service.py:405`). A
  worker that lost its lease after `_start` clicks after its successor has
  reconciled and given up; the fresh review is then submitted as well.
* `MCSubmissionUnknown`: an edit while the result is unknown lets the resumed
  attempt put the application back to review without reconciling
  (`service.py:162`).
* `MCSubmissionReconcile`: an exception of `reconcile` fails the task for good,
  so the unknown action cannot be reconciled any more (`service.py:392`).
* `MCMonitorNotice`: the notification of a change of status follows the commit
  of the event; after a crash in between the next attempt finds the event known
  and tells nobody (`docs/application-monitor.md` promises one notification per
  changed task).

What the models show beside the properties, and no document denies:

* Forms: a plan that changes after its page was partly applied conflicts with
  the ledger and fails the task for good. `EXPIRED` and `REVOKED` are assigned to
  an approval and rolled back by the exception that follows, so an overdue
  approval is refused again and again. A crash after the task has become
  WAITING_HUMAN and before `request_approval` leaves a question nobody was asked.
  A session of a stale attempt holds the domain lock against its successor. What
  was filled into the last page goes with the session that is closed (the code
  expects no more: `browser/actions.py:131`), so the portal does not hold it when
  the review is made.
* Slack: a message whose channel is taken off the allowlist after it was planned
  ends every listener that comes to it and blocks all younger messages for as
  long as it is the oldest. A post that Slack answers with an error is called
  FAILED although the message may have been shown.
* Outreach: a repeated connector attempt generates new identities, conflicts
  with the rows of the first and FAILs, so contacts of lower rank are never put
  to a human. After an operator's resume a later click approves without resuming
  the task.
* Monitor: the check limit serves applications by priority, and one whose check
  finds nothing new stays due and uses the limit up in every run of its bucket,
  so that one at the end may starve (the exception that `CheckedAgain` makes);
  mail that arrives out of order is recorded and never reconsidered; mail beyond
  the limit of a run or older than its window is missed; a source reference is
  unique over all applications, so a message about two of them counts for one.
* Pipeline: a `model_pending` mark that a crash leaves is never cleared and the
  task waits for an operator; a failed QUALIFY_JOB leaves its job ACTIVE for
  ever; a human's answer to a challenge has no effect; facts may be revoked
  between the last check and the registration of a document.
* Submission: a crash between `_record` and `complete` makes the next attempt of
  a successful submission fail its correlation and wait for a human.

## 7. What is not modelled, and the plan

Not modelled for good: text (rendering, parsing of pages and mails, prompts,
LaTeX), file-system and network I/O, path checks, migrations and seeds, backup,
reports and evaluations, argument parsing. They carry no protocol; where their
result matters it is a choice (a page shows a receipt or does not, content is a
version). Of the candidate knowledge only its effect on workers is modelled:
facts that change between two steps.

Left to do: a composition of `SlackDelivery` with `Submission` in which a lost
receipt is what keeps a review from being announced. `LeasedRows` is about single
rows and says nothing of how `TaskQueue` orders claims by priority and age, which
is why fairness of claims is assumed over `LeasedTasks` and not derived. A common
proof of what `LeasedTasks` says of ownership would shorten the agents' proofs
without showing more.
