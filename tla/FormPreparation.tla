--------------------------- MODULE FormPreparation ---------------------------
(***************************************************************************)
(* The form worker (browser/worker.py) with the ledger of its browser      *)
(* actions (browser/actions.py), the domain lock (browser/manager.py), the *)
(* answers it stores (repositories/forms.py) and its FORM_PROCESS task.    *)
(*                                                                         *)
(* A form has pages of fields; on page final a final control is seen, which*)
(* is never used.  A page's fields have answers and actions of their own,  *)
(* also when they ask what another page asked.  What a page shows is lost  *)
(* when its session ends; what was filled when a page was advanced stays   *)
(* with the portal.  Files are values like any other.                      *)
(***************************************************************************)
EXTENDS LeasedTasks, Sequences, Functions

CONSTANTS
  Values,       \* what fields can hold
  Offers,       \* what humans may give for each field
  Pages,        \* the fields of each page, in order
  FinalPages,   \* where the final control may be
  Known,        \* what the candidate's information says of each field at first, or Null
  Registered,   \* fields with a canonical key that may keep a human's answer
  MaxPages,     \* the pages that one attempt may go through
  MaxEdits,     \* bound: changes of that information
  MaxFaults     \* bound: crashes, stops, errors, challenges, lost logins, missed deadlines

Form == CHOOSE t \in Tasks : TRUE
Fields == UNION {Range(Pages[p]) : p \in DOMAIN Pages}
Pairs == Fields \X Values

ASSUME FormAssumption == Tasks = {Form} /\ Null \notin Values
ASSUME PagesAssumption ==
  /\ Pages \in Seq(Seq(Fields)) /\ FinalPages \subseteq DOMAIN Pages
  /\ \A p, q \in DOMAIN Pages : p # q => Range(Pages[p]) \cap Range(Pages[q]) = {}
  /\ Known \in [Fields -> Values \cup {Null}]
ASSUME OffersAssumption == Offers \in [Fields -> SUBSET Values]
ASSUME LimitAssumption == MaxPages \in Nat \ {0}

VARIABLES
  final,      \* the page with the final control
  app,        \* application_status
  at,         \* the page of the last checkpoint: BrowserSession.current_url
  memory,     \* task memory: prepare_approval, the interrupt and its reply, user_answers
  approvals,  \* the PREPARE_APPLICATION approvals, in the order of their creation
  ledger,     \* external_actions by field and value: action_status and approval_id
  answers,    \* form_answers
  known,      \* canonical information
  session,    \* the open browser session: its worker, page and the values it shows
  filed,      \* what the portal keeps
  local,      \* per worker: its place, field, approval and the status it read, what it will ask,
              \* and the pages that it has come to
  edits, faults

humanVars == <<known, edits>>
browserVars == <<session, filed>>
formVars == <<task, final, app, at, memory, approvals, ledger, answers, browserVars, local, humanVars, faults>>

FormStatuses == {"FORM_READY", "FORM_IN_PROGRESS", "WAITING_USER_INPUT", "READY_TO_REVIEW"}
Interrupts == {"nothing", "FORM_FIELD", "BROWSER_CHALLENGE", "PREPARE_APPROVAL", "APPROVAL_BLOCKED",
               "NO_SAFE_ADVANCE", "EXPIRED_BROWSER_LOGIN"}
Blank == [f \in Fields |-> Null]
Decided == "decided"   \* a reply without a value for a field
Closed == [holder |-> Null, page |-> 1, shown |-> Blank]
Idle == [pc |-> "idle", idx |-> 1, use |-> 0, believed |-> "PENDING", ask |-> "nothing", round |-> 1]
NoAction == [status |-> "NONE", approval |-> 0]

ASSUME DecidedAssumption == Decided # Null /\ Decided \notin Values

At(w, step) == local[w].pc = step
Goto(w, step) == local' = [local EXCEPT ![w].pc = step]
Ask(w, kind) == local' = [local EXCEPT ![w].pc = "wait", ![w].ask = kind]
\* One of the worker's own errors: _attempt fails the task.
Raise(w) == Goto(w, "raise")
\* The attempt is over: its browser context is closed and the domain unlocked.
Leave(w) ==
  /\ local' = [local EXCEPT ![w] = Idle]
  /\ session' = IF session.holder = w THEN Closed ELSE session

Page == Pages[session.page]
Field(w) == Page[local[w].idx]
Resolved(f) == IF memory.answered[f] # Null THEN memory.answered[f] ELSE known[f]
Wanted(w) == answers[Field(w)].value
PlanOf(page) == [f \in Range(Pages[page]) |-> answers[f].value]
LastField(w) == local[w].idx = Len(Page)

\* _approval of actions.py; a past deadline refuses a CONSUMED approval too.
Valid(a) == approvals[a].status \in {"APPROVED", "CONSUMED"} /\ ~approvals[a].overdue

FormInit ==
  /\ final \in FinalPages
  /\ task = [t \in Tasks |-> Published("READY")]
  /\ app = "FORM_READY" /\ at = 1
  /\ memory = [approval |-> 0, kind |-> "nothing", field |-> Null, reply |-> Null,
               answered |-> Blank, continuation |-> FALSE]
  /\ approvals = <<>>
  /\ ledger = [p \in Pairs |-> NoAction]
  /\ answers = [f \in Fields |-> [value |-> Null, status |-> "NONE"]]
  /\ known = Known /\ edits = 0
  /\ session = Closed /\ filed = Blank
  /\ local = [w \in Workers |-> Idle]
  /\ faults = 0

-----------------------------------------------------------------------------
(* An attempt, from the claim to the plan of a page *)

ClaimForm(w) ==
  /\ At(w, "idle")
  /\ task[Form].status = "READY"
  /\ memory.continuation \/ Claimable(Form)
  /\ task' = [task EXCEPT ![Form] = Granted(@, w, memory.continuation)]
  /\ memory' = [memory EXCEPT !.continuation = FALSE]
  /\ Goto(w, "reply")
  /\ UNCHANGED <<final, app, at, approvals, ledger, answers, browserVars, humanVars, faults>>

\* FormAnswerRepository.upsert: a validated answer is not replaced by another.
Replaces(f, value) == answers[f].status = "VALIDATED" /\ answers[f].value # value
Upserted(f, value, status) == [answers EXCEPT ![f] = [value |-> value, status |-> status]]

\* _handle_resume, first transaction: the answer of a human, which may become
\* canonical information as well.  A reply that has no value is an error.
TakeReply(w) ==
  /\ At(w, "reply") /\ Fence(Form, w)
  /\ IF memory.reply \notin {Null, Decided} /\ memory.kind = "FORM_FIELD"
     THEN /\ answers' = Upserted(memory.field, memory.reply, "FILLED")
          /\ known' = IF memory.field \in Registered THEN [known EXCEPT ![memory.field] = memory.reply]
                      ELSE known
          /\ app' = IF app = "WAITING_USER_INPUT" THEN "FORM_IN_PROGRESS" ELSE app
     ELSE UNCHANGED <<answers, known, app>>
  /\ Goto(w, IF memory.reply = Null THEN "open"
             ELSE IF memory.reply = Decided /\ memory.kind = "FORM_FIELD" THEN "raise" ELSE "forget")
  /\ UNCHANGED <<task, final, at, memory, approvals, ledger, browserVars, edits, faults>>

\* _handle_resume: save_memory without the interrupt, with the user's answer.
ForgetReply(w) ==
  /\ At(w, "forget") /\ Fence(Form, w)
  /\ memory' = [memory EXCEPT
       !.answered = IF memory.kind = "FORM_FIELD" THEN [@ EXCEPT ![memory.field] = memory.reply] ELSE @,
       !.kind = "nothing", !.field = Null, !.reply = Null]
  /\ Goto(w, "open")
  /\ UNCHANGED <<task, final, app, at, approvals, ledger, answers, browserVars, humanVars, faults>>

\* BrowserManager.session: one modifying session per domain, or an error.
OpenSession(w) ==
  /\ At(w, "open") /\ Fence(Form, w)
  /\ IF session.holder = Null
     THEN session' = [holder |-> w, page |-> at, shown |-> Blank] /\ Goto(w, "inspect")
     ELSE UNCHANGED session /\ Raise(w)
  /\ UNCHANGED <<task, final, app, at, memory, approvals, ledger, answers, filed, humanVars, faults>>

\* The stored login is found to have expired, which nothing under src/ records of
\* a session: a human must log in again, before any browser is opened.
LoginExpired(w) ==
  /\ At(w, "open") /\ Fence(Form, w)
  /\ faults < MaxFaults /\ faults' = faults + 1
  /\ task' = [task EXCEPT ![Form] = Ended(@, "WAITING_HUMAN")]
  /\ memory' = [memory EXCEPT !.kind = "EXPIRED_BROWSER_LOGIN", !.reply = Null, !.field = Null]
  /\ Leave(w)
  /\ UNCHANGED <<final, app, at, approvals, ledger, answers, filed, humanVars>>

\* The page is checkpointed; a challenge, or a portal without support, waits.
Inspect(w) ==
  /\ At(w, "inspect") /\ Fence(Form, w)
  /\ at' = session.page
  /\ \/ faults < MaxFaults /\ faults' = faults + 1 /\ Ask(w, "BROWSER_CHALLENGE")
     \/ /\ UNCHANGED faults
        /\ local' = [local EXCEPT
             ![w].pc = IF Page # <<>> THEN "resolve"
                       ELSE IF session.page = final THEN "finish" ELSE "approve",
             ![w].idx = 1]
  /\ UNCHANGED <<task, final, app, memory, approvals, ledger, answers, browserVars, humanVars>>

\* _resolve: each field's answer is stored before anything is filled, and
\* asked for when nothing is known.
Resolve(w) ==
  /\ At(w, "resolve") /\ Fence(Form, w)
  /\ LET f == Field(w)
         value == Resolved(f)
     IN  IF Replaces(f, value)
         THEN Raise(w) /\ UNCHANGED answers
         ELSE /\ answers' = Upserted(f, value, IF value = Null THEN "NEEDS_USER" ELSE "FILLED")
              /\ IF value = Null THEN Ask(w, "FORM_FIELD")
                 ELSE IF LastField(w) THEN Goto(w, "approve")
                 ELSE local' = [local EXCEPT ![w].idx = @ + 1]
  /\ UNCHANGED <<task, final, app, at, memory, approvals, ledger, browserVars, humanVars, faults>>

-----------------------------------------------------------------------------
(* The approval of a plan *)

\* Mutant: an approval is kept although the plan has changed.
ApprovePlanKept(w) ==
  /\ At(w, "approve") /\ Fence(Form, w)
  /\ LET old == memory.approval
     IN  IF old # 0
         THEN /\ local' = [local EXCEPT ![w].pc = "remember", ![w].use = old,
                                        ![w].believed = approvals[old].status]
              /\ UNCHANGED approvals
         ELSE /\ approvals' = Append(approvals, [plan |-> PlanOf(session.page), status |-> "PENDING",
                                                 overdue |-> FALSE, asked |-> FALSE])
              /\ local' = [local EXCEPT ![w].pc = "remember", ![w].use = Len(approvals'),
                                        ![w].believed = "PENDING"]
  /\ UNCHANGED <<task, final, app, at, memory, ledger, answers, browserVars, humanVars, faults>>

\* _approval: the same plan keeps its approval; another one revokes it, if it
\* is unused, and needs a new one.
ApprovePlan(w) ==
  /\ At(w, "approve") /\ Fence(Form, w)
  /\ LET old == memory.approval
         plan == PlanOf(session.page)
         unused == old # 0 /\ approvals[old].status \in {"PENDING", "APPROVED"}
         kept == IF unused THEN [approvals EXCEPT ![old].status = "REVOKED"] ELSE approvals
     IN  IF old # 0 /\ approvals[old].plan = plan
         THEN /\ local' = [local EXCEPT ![w].pc = "remember", ![w].use = old,
                                        ![w].believed = approvals[old].status]
              /\ UNCHANGED approvals
         ELSE /\ approvals' = Append(kept, [plan |-> plan, status |-> "PENDING",
                                            overdue |-> FALSE, asked |-> FALSE])
              /\ local' = [local EXCEPT ![w].pc = "remember", ![w].use = Len(approvals'),
                                        ![w].believed = "PENDING"]
  /\ UNCHANGED <<task, final, app, at, memory, ledger, answers, browserVars, humanVars, faults>>

\* save_memory, and the decision as it was read with the plan.
RememberApproval(w) ==
  /\ At(w, "remember") /\ Fence(Form, w)
  /\ memory' = [memory EXCEPT !.approval = local[w].use]
  /\ CASE local[w].believed = "PENDING" -> Ask(w, "PREPARE_APPROVAL")
       [] local[w].believed \in {"APPROVED", "CONSUMED"} -> Goto(w, "revalidate")
       [] OTHER -> Ask(w, "APPROVAL_BLOCKED")
  /\ UNCHANGED <<task, final, app, at, approvals, ledger, answers, browserVars, humanVars, faults>>

\* _revalidate_fields: nothing may have changed where the values came from.
Revalidate(w) ==
  /\ At(w, "revalidate") /\ Fence(Form, w)
  /\ IF \A f \in Range(Page) : answers[f].value = Resolved(f)
     THEN local' = [local EXCEPT ![w].pc = IF Page = <<>> THEN "advance" ELSE "plan", ![w].idx = 1]
     ELSE Raise(w)
  /\ UNCHANGED <<task, final, app, at, memory, approvals, ledger, answers, browserVars, humanVars, faults>>

-----------------------------------------------------------------------------
(* A browser action: ExternalActionService.execute for one field *)

\* First fence: the row is found by its idempotency key, or planned.
PlanAction(w) ==
  /\ At(w, "plan") /\ Fence(Form, w)
  /\ LET a == local[w].use
         row == <<Field(w), Wanted(w)>>
     IN  IF ~Valid(a) \/ (ledger[row].status # "NONE" /\ ledger[row].approval # a)
         THEN Raise(w) /\ UNCHANGED ledger
         ELSE CASE ledger[row].status \in {"NONE", "PLANNED"} ->
                     /\ ledger' = [ledger EXCEPT ![row] = [status |-> "PLANNED", approval |-> a]]
                     /\ Goto(w, "start")
                [] ledger[row].status = "SUCCEEDED" -> UNCHANGED ledger /\ Goto(w, "restore")
                [] OTHER -> UNCHANGED ledger /\ Goto(w, "reconcile")
  /\ UNCHANGED <<task, final, app, at, memory, approvals, answers, browserVars, humanVars, faults>>

\* Second fence: the approval is consumed with the row's EXECUTING; the row is
\* asserted to be PLANNED still.
Start(w) ==
  /\ At(w, "start") /\ Fence(Form, w)
  /\ IF Valid(local[w].use) /\ ledger[<<Field(w), Wanted(w)>>].status = "PLANNED"
     THEN /\ approvals' = [approvals EXCEPT ![local[w].use].status = "CONSUMED"]
          /\ ledger' = [ledger EXCEPT ![<<Field(w), Wanted(w)>>].status = "EXECUTING"]
          /\ Goto(w, "fill")
     ELSE UNCHANGED <<approvals, ledger>> /\ Raise(w)
  /\ UNCHANGED <<task, final, app, at, memory, answers, browserVars, humanVars, faults>>

\* A SUCCEEDED row whose value the page no longer shows is filled again.
Restore(w) ==
  /\ At(w, "restore") /\ Fence(Form, w)
  /\ IF session.shown[Field(w)] = Wanted(w) THEN UNCHANGED ledger /\ Goto(w, "mark")
     ELSE IF Valid(local[w].use)
          THEN ledger' = [ledger EXCEPT ![<<Field(w), Wanted(w)>>].status = "EXECUTING"] /\ Goto(w, "fill")
          ELSE UNCHANGED ledger /\ Raise(w)
  /\ UNCHANGED <<task, final, app, at, memory, approvals, answers, browserVars, humanVars, faults>>

\* mutate: the page takes the value, or not; and the browser may raise, here or
\* while it looks at the page again.
Fill(w) ==
  /\ At(w, "fill")
  /\ \/ /\ session' = [session EXCEPT !.shown[Field(w)] = Wanted(w)]
        /\ Goto(w, "record") /\ UNCHANGED faults
     \/ /\ faults < MaxFaults /\ faults' = faults + 1
        /\ session' \in {session, [session EXCEPT !.shown[Field(w)] = Wanted(w)]}
        /\ \E step \in {"record", "unknown"} : Goto(w, step)
  /\ UNCHANGED <<task, final, app, at, memory, approvals, ledger, answers, filed, humanVars>>

\* Mutant: a fill counts as done without looking at the page.
RecordUnseen(w) ==
  /\ At(w, "record") /\ Fence(Form, w)
  /\ ledger' = [ledger EXCEPT ![<<Field(w), Wanted(w)>>].status = "SUCCEEDED"]
  /\ Goto(w, "mark")
  /\ UNCHANGED <<task, final, app, at, memory, approvals, answers, browserVars, humanVars, faults>>

\* confirm and the last fence; an EXECUTING or UNKNOWN row is only looked at, and
\* after an error nobody looks.
Record(w) ==
  /\ local[w].pc \in {"record", "reconcile", "unknown"} /\ Fence(Form, w)
  /\ LET row == <<Field(w), Wanted(w)>>
         confirmed == ~At(w, "unknown") /\ session.shown[Field(w)] = Wanted(w)
     IN  /\ ledger' = [ledger EXCEPT ![row].status = IF confirmed THEN "SUCCEEDED" ELSE "UNKNOWN_RESULT"]
         /\ Goto(w, IF confirmed THEN "mark" ELSE "raise")
  /\ UNCHANGED <<task, final, app, at, memory, approvals, answers, browserVars, humanVars, faults>>

\* After each field, in a fence each: _mark_started, ...
MarkStarted(w) ==
  /\ At(w, "mark") /\ Fence(Form, w)
  /\ app' = IF app = "FORM_READY" THEN "FORM_IN_PROGRESS" ELSE app
  /\ Goto(w, "validate")
  /\ UNCHANGED <<task, final, at, memory, approvals, ledger, answers, browserVars, humanVars, faults>>

\* ... the VALIDATED answer, ...
Validate(w) ==
  /\ At(w, "validate") /\ Fence(Form, w)
  /\ answers' = [answers EXCEPT ![Field(w)].status = "VALIDATED"]
  /\ Goto(w, "checkpoint")
  /\ UNCHANGED <<task, final, app, at, memory, approvals, ledger, browserVars, humanVars, faults>>

\* ... and the checkpoint.
Checkpoint(w) ==
  /\ At(w, "checkpoint") /\ Fence(Form, w)
  /\ at' = session.page
  /\ IF ~LastField(w)
     THEN local' = [local EXCEPT ![w].pc = "plan", ![w].idx = @ + 1]
     ELSE Goto(w, IF session.page = final THEN "finish" ELSE "advance")
  /\ UNCHANGED <<task, final, app, memory, approvals, ledger, answers, browserVars, humanVars, faults>>

-----------------------------------------------------------------------------
(* The end of a page and of an attempt *)

\* advance: the portal keeps the page; a refused navigation leaves it open.
Advance(w) ==
  /\ At(w, "advance")
  /\ \/ /\ filed' = [f \in Fields |-> IF f \in Range(Page) THEN session.shown[f] ELSE filed[f]]
        /\ session' = [session EXCEPT !.page = @ + 1, !.shown = Blank]
        /\ Goto(w, "turn") /\ UNCHANGED faults
     \/ /\ faults < MaxFaults /\ faults' = faults + 1
        /\ Ask(w, "NO_SAFE_ADVANCE") /\ UNCHANGED browserVars
  /\ UNCHANGED <<task, final, app, at, memory, approvals, ledger, answers, humanVars>>

\* The next page is checkpointed, and inspected unless this attempt has been
\* through as many as it may.
Turn(w) ==
  /\ At(w, "turn") /\ Fence(Form, w)
  /\ at' = session.page
  /\ IF local[w].round < MaxPages
     THEN local' = [local EXCEPT ![w].pc = "inspect", ![w].round = @ + 1]
     ELSE Raise(w)
  /\ UNCHANGED <<task, final, app, memory, approvals, ledger, answers, browserVars, humanVars, faults>>

\* _finish: ready for review, with the review's task, in one transaction.  What
\* the last page shows is not sent: it goes with the session.
Finish(w) ==
  /\ At(w, "finish") /\ Fence(Form, w)
  /\ app' = "READY_TO_REVIEW"
  /\ task' = [task EXCEPT ![Form] = Ended(@, "SUCCEEDED")]
  /\ memory' = [memory EXCEPT !.kind = "nothing", !.field = Null, !.reply = Null]
  /\ Leave(w)
  /\ UNCHANGED <<final, at, approvals, ledger, answers, filed, humanVars, faults>>

\* _wait, first transaction: the application waits for its user, except for
\* a decision.
Wait(w) ==
  /\ At(w, "wait") /\ Fence(Form, w)
  /\ app' = IF local[w].ask \in {"FORM_FIELD", "BROWSER_CHALLENGE"} THEN "WAITING_USER_INPUT" ELSE app
  /\ Goto(w, "suspend")
  /\ UNCHANGED <<task, final, at, memory, approvals, ledger, answers, browserVars, humanVars, faults>>

\* Mutant: the task is completed without being left to a human.
SuspendReleased(w) ==
  /\ At(w, "suspend") /\ Fence(Form, w)
  /\ task' = [task EXCEPT ![Form] = Released(@)]
  /\ memory' = [memory EXCEPT !.continuation = TRUE]
  /\ Leave(w)
  /\ UNCHANGED <<final, app, at, approvals, ledger, answers, filed, humanVars, faults>>

\* _wait: complete with waiting.  The browser session is still open.
Suspend(w) ==
  /\ At(w, "suspend") /\ Fence(Form, w)
  /\ task' = [task EXCEPT ![Form] = Ended(@, "WAITING_HUMAN")]
  /\ memory' = [memory EXCEPT !.kind = local[w].ask, !.reply = Null,
                              !.field = IF local[w].ask = "FORM_FIELD" THEN Field(w) ELSE Null]
  /\ Goto(w, "tell")
  /\ UNCHANGED <<final, app, at, approvals, ledger, answers, browserVars, humanVars, faults>>

\* request_approval or ask_missing after it; then the session closes.
Tell(w) ==
  /\ At(w, "tell")
  /\ approvals' = IF local[w].ask = "PREPARE_APPROVAL" /\ approvals[local[w].use].status = "PENDING"
                  THEN [approvals EXCEPT ![local[w].use].asked = TRUE] ELSE approvals
  /\ Leave(w)
  /\ UNCHANGED <<task, final, app, at, memory, ledger, answers, filed, humanVars, faults>>

\* Steps that the loss of the lease stops: all but those in the browser.
Fenced == {"reply", "forget", "open", "inspect", "resolve", "approve", "remember", "revalidate", "plan",
           "start", "restore", "record", "reconcile", "unknown", "mark", "validate", "checkpoint", "turn",
           "finish", "wait", "suspend", "raise"}

FormLeaseLost(w) ==
  /\ local[w].pc \in Fenced /\ ~Fence(Form, w)
  /\ Leave(w)
  /\ UNCHANGED <<task, final, app, at, memory, approvals, ledger, answers, filed, humanVars, faults>>

\* Of the worker's own errors none is retryable.
FailForm(w) ==
  /\ At(w, "raise") /\ Fence(Form, w)
  /\ task' = [task EXCEPT ![Form] = Retried(@, Form, FALSE)]
  /\ Leave(w)
  /\ UNCHANGED <<final, app, at, memory, approvals, ledger, answers, filed, humanVars, faults>>

\* Any step may raise another error (a locked database, the network, a heartbeat):
\* its attempt is cancelled, and a retry may cure it or not.
AttemptFails(w) ==
  /\ ~At(w, "idle") /\ Fence(Form, w)
  /\ faults < MaxFaults /\ faults' = faults + 1
  /\ \E retryable \in BOOLEAN : task' = [task EXCEPT ![Form] = Retried(@, Form, retryable)]
  /\ Leave(w)
  /\ UNCHANGED <<final, app, at, memory, approvals, ledger, answers, filed, humanVars>>

\* The process dies.
CrashForm(w) ==
  /\ ~At(w, "idle")
  /\ faults < MaxFaults /\ faults' = faults + 1
  /\ Leave(w)
  /\ UNCHANGED <<task, final, app, at, memory, approvals, ledger, answers, filed, humanVars>>

\* The worker is told to stop: release.
StopForm(w) ==
  /\ ~At(w, "idle") /\ Fence(Form, w)
  /\ faults < MaxFaults /\ faults' = faults + 1
  /\ task' = [task EXCEPT ![Form] = Released(@)]
  /\ memory' = [memory EXCEPT !.continuation = TRUE]
  /\ Leave(w)
  /\ UNCHANGED <<final, app, at, approvals, ledger, answers, filed, humanVars>>

-----------------------------------------------------------------------------
(* Recovery and humans *)

RecoverForm ==
  /\ RecoverTask(Form)
  /\ UNCHANGED <<final, app, at, memory, approvals, ledger, answers, browserVars, local, humanVars, faults>>

\* ExternalActionService.recover, of a worker that starts or of the coordinator,
\* whatever the owner of the row is doing.
RecoverActions ==
  /\ \E p \in Pairs : ledger[p].status = "EXECUTING"
  /\ ledger' = [p \in Pairs |-> IF ledger[p].status = "EXECUTING"
                                THEN [ledger[p] EXCEPT !.status = "UNKNOWN_RESULT"] ELSE ledger[p]]
  /\ UNCHANGED <<task, final, app, at, memory, approvals, answers, browserVars, local, humanVars, faults>>

ResumedBy(reply) ==
  /\ task' = [task EXCEPT ![Form].status = "READY"]
  /\ memory' = [memory EXCEPT !.reply = reply, !.continuation = TRUE]

\* A human answers the question, through Slack or jhm task resume.
AnswerField ==
  /\ task[Form].status = "WAITING_HUMAN" /\ memory.kind = "FORM_FIELD"
  /\ \E v \in Offers[memory.field] : ResumedBy(v)
  /\ UNCHANGED <<final, app, at, approvals, ledger, answers, browserVars, local, humanVars, faults>>

\* An operator resumes a wait of any kind, with a value that answers no field.
OperatorResumes ==
  /\ task[Form].status = "WAITING_HUMAN"
  /\ ResumedBy(Decided)
  /\ UNCHANGED <<final, app, at, approvals, ledger, answers, browserVars, local, humanVars, faults>>

\* decide and the resume of the task that waits for this approval.
Decide ==
  \E a \in DOMAIN approvals, verdict \in {"APPROVED", "REJECTED"} :
    /\ approvals[a].asked /\ approvals[a].status = "PENDING" /\ ~approvals[a].overdue
    /\ approvals' = [approvals EXCEPT ![a].status = verdict]
    /\ IF memory.kind = "PREPARE_APPROVAL" /\ memory.approval = a
       THEN task[Form].status = "WAITING_HUMAN" /\ ResumedBy(Decided)
       ELSE UNCHANGED <<task, memory>>
    /\ UNCHANGED <<final, app, at, ledger, answers, browserVars, local, humanVars, faults>>

\* The deadline of an approval passes.
Overdue ==
  \E a \in DOMAIN approvals :
    /\ ~approvals[a].overdue /\ a = Len(approvals)
    /\ faults < MaxFaults /\ faults' = faults + 1
    /\ approvals' = [approvals EXCEPT ![a].overdue = TRUE]
    /\ UNCHANGED <<task, final, app, at, memory, ledger, answers, browserVars, local, humanVars>>

\* The candidate's information changes.
EditKnowledge ==
  /\ edits < MaxEdits /\ edits' = edits + 1
  /\ \E f \in Fields : \E v \in Offers[f] \ {known[f]} : known' = [known EXCEPT ![f] = v]
  /\ UNCHANGED <<task, final, app, at, memory, approvals, ledger, answers, browserVars, local, faults>>

Attempt(w) ==
  \/ ClaimForm(w) \/ TakeReply(w) \/ ForgetReply(w) \/ OpenSession(w) \/ Inspect(w) \/ Resolve(w)
  \/ ApprovePlan(w) \/ RememberApproval(w) \/ Revalidate(w)
  \/ PlanAction(w) \/ Start(w) \/ Restore(w) \/ Fill(w) \/ Record(w)
  \/ MarkStarted(w) \/ Validate(w) \/ Checkpoint(w)
  \/ Advance(w) \/ Turn(w) \/ Finish(w) \/ Wait(w) \/ Suspend(w) \/ Tell(w)
  \/ FormLeaseLost(w) \/ FailForm(w)

FormNext ==
  \/ \E w \in Workers : Attempt(w) \/ LoginExpired(w) \/ AttemptFails(w) \/ CrashForm(w) \/ StopForm(w)
  \/ RecoverForm \/ RecoverActions
  \/ AnswerField \/ OperatorResumes \/ Decide \/ Overdue \/ EditKnowledge

\* Workers poll and go on, and recovery runs periodically; nobody promises
\* that a human answers.
FormFairness == (\A w \in Workers : WF_formVars(Attempt(w))) /\ WF_formVars(RecoverForm)

FormSpec == FormInit /\ [][FormNext]_formVars
FairFormSpec == FormSpec /\ FormFairness

-----------------------------------------------------------------------------
(* Properties *)

\* Whatever is on the page or with the portal was put there by an action under
\* a consumed approval of exactly that value (form-preparation.md: approval
\* covers the canonical values of one page plan), through edits of the
\* candidate's information, stale attempts, restarts and refills.
FillsApproved ==
  \A f \in Fields : \A v \in {session.shown[f], filed[f]} \ {Null} :
    \E a \in DOMAIN approvals :
      /\ approvals[a].status = "CONSUMED"
      /\ f \in DOMAIN approvals[a].plan /\ approvals[a].plan[f] = v

\* What the review of a ready form is made from is what the portal holds of every
\* page that was advanced, and what was filled and seen on each page up to the
\* final control - although pages are filled in different attempts, under several
\* approvals, while the candidate's information changes in between.
ReviewShowsForm ==
  app = "READY_TO_REVIEW" =>
    \A p \in 1 .. final : \A f \in Range(Pages[p]) :
      /\ answers[f].status = "VALIDATED" /\ answers[f].value # Null
      /\ ledger[<<f, answers[f].value>>].status = "SUCCEEDED"
      /\ p < final => filed[f] = answers[f].value

\* An attempt ends: work that is ready or under way succeeds, fails or waits
\* for a human, whatever lapses, crashes and edits come in between.
FormSettles ==
  task[Form].status \in {"READY", "ACTIVE"} ~> task[Form].status \in {"SUCCEEDED", "FAILED", "WAITING_HUMAN"}
=============================================================================
