--------------------------- MODULE Qualification ---------------------------
(***************************************************************************)
(* From a link in Slack to an application: intake                          *)
(* (agents/retrieve_links.py), evidence (agents/fetch.py, extraction.py),  *)
(* the rules (agents/qualification.py) and the worker that runs them and   *)
(* publishes the decision (agents/worker.py).                              *)
(*                                                                         *)
(* What a page says is abstracted to the results that the groups of rules  *)
(* have on it: open (applications are open), meaning (the rules that a     *)
(* model may be asked about), rest (all others), challenge (a page for     *)
(* humans only), dated (it names a deadline).                              *)
(***************************************************************************)
EXTENDS LeasedTasks, FiniteSets, Sequences

CONSTANTS
  Jobs,          \* canonical URLs; a job's application has its name
  Intakes,       \* the tasks made of Slack messages with links
  Names,         \* per intake: the jobs its links name
  Shows,         \* per job: what its page may say
  Qualifiers,    \* the workers of this module
  MaxFaults      \* bound: crashes, failures and changes in the world

Qualify(j) == <<"QUALIFY_JOB", j>>
Resume(j) == <<"BUILD_RESUME", j>>

ASSUME IntakeAssumption == Names \in [Intakes -> SUBSET Jobs]
\* What the rules make of a page.
Verdicts == {"PASS", "FAIL", "REVIEW"}
Facts == [open : Verdicts, meaning : Verdicts, rest : Verdicts, challenge : BOOLEAN, dated : BOOLEAN]

ASSUME PagesAssumption == Shows \in [Jobs -> (SUBSET Facts) \ {{}}]
ASSUME QualifierAssumption == Qualifiers \subseteq Workers

VARIABLES
  job,          \* qualification_status, NONE before the row exists
  late,         \* the jobs whose deadline has passed
  application,  \* per job: pipeline_stage and current_task_id
  finding,      \* per job: qualification_snapshot, as the task's memory has it
  thread,       \* per job: the checkpointed graph
  asked,        \* per job: how often a model was asked about its page
  continues,    \* the tasks whose memory holds the continuation mark
  qlocal,       \* per worker: task, place and the data it works on
  faults

jobVars == <<job, late, application>>
evidenceVars == <<finding, thread, asked>>
qualificationVars == <<task, jobVars, evidenceVars, continues, qlocal, faults>>

NoData == [facts |-> Null, at |-> FALSE, started |-> FALSE]
QIdle == [pc |-> "idle", task |-> Null, data |-> NoData]

QAt(w, step) == qlocal[w].pc = step
QGoto(w, step) == qlocal' = [qlocal EXCEPT ![w].pc = step]
QLeave(w) == qlocal' = [qlocal EXCEPT ![w] = QIdle]
QOwns(w) == qlocal[w].task # Null /\ Fence(qlocal[w].task, w)
Job(w) == qlocal[w].task[2]

\* What may be found in a Slack message and on a page, and what a job that passes
\* gets: its application, at its resume.
Links(t) == Names[t]
Extracted(j) == Shows[j]
Applied(j) == [stage |-> "RESUME", current |-> Resume(j)]

QualificationInit ==
  /\ task = [t \in Tasks |-> IF t \in Intakes THEN Published("READY") ELSE Absent]
  /\ job = [j \in Jobs |-> "NONE"]
  /\ late = {}
  /\ application = [j \in Jobs |-> [stage |-> "NONE", current |-> Null]]
  /\ finding = [j \in Jobs |-> NoData]
  /\ thread = [j \in Jobs |-> "none"]
  /\ asked = [j \in Jobs |-> 0]
  /\ continues = {}
  /\ qlocal = [w \in Qualifiers |-> QIdle]
  /\ faults = 0

-----------------------------------------------------------------------------
(* The rules *)

Missed(facts, isLate) == isLate /\ facts.dated

\* evaluate: a deadline that has passed fails the rule about openness.
Results(facts, isLate) ==
  {IF Missed(facts, isLate) THEN "FAIL" ELSE facts.open, facts.meaning, facts.rest}
    \cup (IF facts.challenge THEN {"REVIEW"} ELSE {})

Outcome(facts, isLate) ==
  LET results == Results(facts, isLate)
  IN  IF "FAIL" \in results THEN "FAIL" ELSE IF "REVIEW" \in results THEN "REVIEW" ELSE "PASS"

SemanticNeeded(facts, isLate) ==
  Outcome(facts, isLate) # "FAIL" /\ facts.meaning = "REVIEW"

Decided == {"PASSED", "ABORTED", "NEEDS_REVIEW"}
StatusOf(outcome) ==
  CASE outcome = "PASS" -> "PASSED" [] outcome = "FAIL" -> "ABORTED" [] OTHER -> "NEEDS_REVIEW"

-----------------------------------------------------------------------------
(* Claim, and the intake of links *)

ClaimQualifier(w, t) ==
  /\ QAt(w, "idle")
  /\ t \in Intakes \cup {Qualify(j) : j \in Jobs}
  /\ task[t].status = "READY" /\ (t \in continues \/ Claimable(t))
  /\ task' = [task EXCEPT ![t] = Granted(@, w, t \in continues)]
  /\ continues' = continues \ {t}
  /\ qlocal' = [qlocal EXCEPT ![w] = [QIdle EXCEPT !.task = t,
                                        !.pc = IF t \in Intakes THEN "retrieve" ELSE "load"]]
  /\ UNCHANGED <<jobVars, evidenceVars, faults>>

\* retrieve: a job and its task for every link, or those that an earlier link made.
Retrieve(w) ==
  /\ QAt(w, "retrieve") /\ QOwns(w)
  /\ LET named == Links(qlocal[w].task)
     IN  /\ job' = [j \in Jobs |-> IF j \in named /\ job[j] = "NONE" THEN "NEW" ELSE job[j]]
         /\ task' = [t \in Tasks |-> IF t \in {Qualify(j) : j \in named} /\ task[t].status = "ABSENT"
                                     THEN Published("READY") ELSE task[t]]
  /\ QGoto(w, "finish")
  /\ UNCHANGED <<late, application, evidenceVars, continues, faults>>

-----------------------------------------------------------------------------
(* The evidence *)

LoadFinding(w) ==
  /\ QAt(w, "load")
  /\ qlocal' = IF finding[Job(w)] = NoData THEN [qlocal EXCEPT ![w].pc = "start"]
               ELSE [qlocal EXCEPT ![w].pc = "evaluate", ![w].data = finding[Job(w)]]
  /\ UNCHANGED <<task, jobVars, evidenceVars, continues, faults>>

\* _start: a job that is neither NEW nor ACTIVE is an error.
StartJob(w) ==
  /\ QAt(w, "start") /\ QOwns(w)
  /\ IF job[Job(w)] \in {"NEW", "ACTIVE"}
     THEN job' = [job EXCEPT ![Job(w)] = "ACTIVE"] /\ QGoto(w, "fetch")
     ELSE QGoto(w, "raise") /\ UNCHANGED job
  /\ UNCHANGED <<task, late, application, evidenceVars, continues, faults>>

\* The facts are kept with the time at which they were found: whether the
\* deadline had passed then.
FetchPage(w) ==
  /\ QAt(w, "fetch")
  /\ \E facts \in Extracted(Job(w)) :
       qlocal' = [qlocal EXCEPT ![w].pc = "store",
                                ![w].data = [facts |-> facts, at |-> Job(w) \in late, started |-> FALSE]]
  /\ UNCHANGED <<task, jobVars, evidenceVars, continues, faults>>

\* _store: the page, then the mark that a model is about to be asked, then what
\* it answered.
Store(w) ==
  /\ QOwns(w)
  /\ \/ QAt(w, "store") /\ QGoto(w, "evaluate")
     \/ QAt(w, "mark") /\ QGoto(w, "ask")
     \/ QAt(w, "answered") /\ QGoto(w, "graph")
  /\ finding' = [finding EXCEPT ![Job(w)] = qlocal[w].data]
  /\ UNCHANGED <<task, jobVars, thread, asked, continues, faults>>

\* A model is asked once about what the rules, at the time of the facts, leave open.
Evaluate(w) ==
  /\ QAt(w, "evaluate")
  /\ LET data == qlocal[w].data
     IN  qlocal' = IF SemanticNeeded(data.facts, data.at) /\ ~data.started
                   THEN [qlocal EXCEPT ![w].pc = "mark", ![w].data.started = TRUE]
                   ELSE [qlocal EXCEPT ![w].pc = "graph"]
  /\ UNCHANGED <<task, jobVars, evidenceVars, continues, faults>>

\* semantic_check: the model settles what was open, or does not.
AskModel(w) ==
  /\ QAt(w, "ask")
  /\ asked' = [asked EXCEPT ![Job(w)] = @ + 1]
  /\ \E meaning \in {"PASS", "FAIL", "REVIEW"} :
       qlocal' = [qlocal EXCEPT ![w].pc = "answered", ![w].data.facts.meaning = meaning]
  /\ UNCHANGED <<task, jobVars, finding, thread, continues, faults>>

-----------------------------------------------------------------------------
(* The decision *)

\* The graph waits for a human at a challenge, and goes on with the answer.
RunGraph(w) ==
  /\ QAt(w, "graph") /\ QOwns(w)
  /\ LET j == Job(w)
     IN  thread' = [thread EXCEPT ![j] =
           CASE @ = "none" /\ qlocal[w].data.facts.challenge -> "interrupted"
             [] @ = "none" \/ @ = "answered" -> "ended"
             [] OTHER -> @]
  /\ QGoto(w, "publish")
  /\ UNCHANGED <<task, jobVars, finding, asked, continues, faults>>

\* Mutant: the decision is the one that the graph made.
PublishUnchecked(w) ==
  /\ QAt(w, "publish") /\ QOwns(w)
  /\ LET j == Job(w)
         status == StatusOf(Outcome(qlocal[w].data.facts, FALSE))
     IN  IF job[j] \in Decided THEN UNCHANGED <<job, application, task>>
         ELSE /\ job' = [job EXCEPT ![j] = status]
              /\ IF status # "PASSED" THEN UNCHANGED <<application, task>>
                 ELSE /\ application' = [application EXCEPT ![j] = Applied(j)]
                      /\ task' = [task EXCEPT ![Resume(j)] = Published("READY")]
  /\ QGoto(w, "finish")
  /\ UNCHANGED <<late, evidenceVars, continues, faults>>

\* _publish, before the task is completed or waits: the rules are evaluated
\* once more; a job that passes gets its application and resume task with it.
PublishJob(w) ==
  /\ QAt(w, "publish") /\ QOwns(w)
  /\ LET j == Job(w)
         status == StatusOf(Outcome(qlocal[w].data.facts, j \in late))
     IN  IF job[j] \in Decided THEN UNCHANGED <<job, application, task>>
         ELSE /\ job' = [job EXCEPT ![j] = status]
              /\ IF status # "PASSED" THEN UNCHANGED <<application, task>>
                 ELSE /\ application' = [application EXCEPT ![j] = Applied(j)]
                      /\ task' = [task EXCEPT ![Resume(j)] = Published("READY")]
  /\ QGoto(w, "finish")
  /\ UNCHANGED <<late, evidenceVars, continues, faults>>

FinishQualifier(w) ==
  /\ QAt(w, "finish") /\ QOwns(w)
  /\ LET t == qlocal[w].task
         waits == t \notin Intakes /\ thread[t[2]] = "interrupted"
     IN  task' = [task EXCEPT ![t] = Ended(@, IF waits THEN "WAITING_HUMAN" ELSE "SUCCEEDED")]
  /\ QLeave(w)
  /\ UNCHANGED <<jobVars, evidenceVars, continues, faults>>

-----------------------------------------------------------------------------
(* Errors, humans and time *)

QualifierRaises(w) ==
  /\ QAt(w, "raise") /\ QOwns(w)
  /\ task' = [task EXCEPT ![qlocal[w].task] = Retried(@, qlocal[w].task, FALSE)]
  /\ QLeave(w)
  /\ UNCHANGED <<jobVars, evidenceVars, continues, faults>>

\* Worker._attempt: the page cannot be fetched, now or at all, a database stays
\* locked, a snapshot or a model's answer is not what it should be.
QualifierFails(w) ==
  /\ ~QAt(w, "idle") /\ QOwns(w)
  /\ faults < MaxFaults /\ faults' = faults + 1
  /\ \E retryable \in BOOLEAN :
       task' = [task EXCEPT ![qlocal[w].task] = Retried(@, qlocal[w].task, retryable)]
  /\ QLeave(w)
  /\ UNCHANGED <<jobVars, evidenceVars, continues>>

\* A worker that is stopped gives its task back, to be continued.
QualifierStops(w) ==
  /\ ~QAt(w, "idle") /\ QOwns(w)
  /\ faults < MaxFaults /\ faults' = faults + 1
  /\ task' = [task EXCEPT ![qlocal[w].task] = Released(@)]
  /\ continues' = continues \cup {qlocal[w].task}
  /\ QLeave(w)
  /\ UNCHANGED <<jobVars, evidenceVars>>

\* Found by a fence, by the heartbeat or when a failure is to be recorded.
QualifierLeaseLost(w) ==
  /\ ~QAt(w, "idle") /\ ~QOwns(w)
  /\ QLeave(w)
  /\ UNCHANGED <<task, jobVars, evidenceVars, continues, faults>>

QualifierCrashes(w) ==
  /\ ~QAt(w, "idle")
  /\ faults < MaxFaults /\ faults' = faults + 1
  /\ QLeave(w)
  /\ UNCHANGED <<task, jobVars, evidenceVars, continues>>

\* The human at the challenge answers; the answer is not evidence.
HumanAnswers(j) ==
  /\ task[Qualify(j)].status = "WAITING_HUMAN"
  /\ task' = [task EXCEPT ![Qualify(j)].status = "READY"]
  /\ continues' = continues \cup {Qualify(j)}
  /\ thread' = [thread EXCEPT ![j] = "answered"]
  /\ UNCHANGED <<jobVars, finding, asked, qlocal, faults>>

DeadlinePasses(j) ==
  /\ j \notin late /\ late' = late \cup {j}
  /\ faults < MaxFaults /\ faults' = faults + 1
  /\ UNCHANGED <<task, job, application, evidenceVars, continues, qlocal>>

Qualification(w) ==
  \/ Retrieve(w) \/ LoadFinding(w) \/ StartJob(w) \/ FetchPage(w) \/ Store(w) \/ Evaluate(w)
  \/ AskModel(w) \/ RunGraph(w) \/ PublishJob(w) \/ FinishQualifier(w) \/ QualifierRaises(w)
  \/ QualifierLeaseLost(w)

QualificationNext ==
  \/ \E w \in Qualifiers :
       \/ Qualification(w) \/ QualifierFails(w) \/ QualifierStops(w) \/ QualifierCrashes(w)
       \/ \E t \in Tasks : ClaimQualifier(w, t)
  \/ \E j \in Jobs : HumanAnswers(j) \/ DeadlinePasses(j)
=============================================================================
