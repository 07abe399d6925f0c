------------------------------ MODULE Outreach ------------------------------
(***************************************************************************)
(* Outreach after a submission: the connector (outreach/connector.py), the *)
(* Gmail boundary (outreach/actions.py), the sender (outreach/sender.py)   *)
(* and the review of manual drafts (outreach/manual.py), over their tasks. *)
(*                                                                         *)
(* A draft addresses one contact by one channel.  Its task - that of the   *)
(* sender, or of the manual review - has the draft's name; CONNECT_CONTACTS*)
(* has the name Connect.  What an email would say and attach is a version; *)
(* the digest that approvals and idempotency keys carry identifies it.     *)
(* Gmail is external: a call may take effect without its answer coming     *)
(* back.                                                                   *)
(***************************************************************************)
EXTENDS LeasedTasks, Sequences, Functions

CONSTANTS
  Connect,       \* the connector's task
  Orders,        \* what the sources may show: the verified contacts' drafts, by rank
  Channel,       \* "EMAIL" or "LINKEDIN_MANUAL"
  MaxVersion,    \* bound: versions of what a draft would say
  MaxFaults      \* bound: crashes, stops, failed attempts, missed deadlines, lost answers

Drafts == UNION {Range(found) : found \in Orders}
Versions == 1 .. MaxVersion
Calls == {"GMAIL_CREATE_DRAFT", "SEND_EMAIL"} \X Drafts \X Versions

ASSUME DraftsAssumption == Tasks = Drafts \cup {Connect} /\ Connect \notin Drafts
ASSUME ChannelAssumption == Channel \in [Drafts -> {"EMAIL", "LINKEDIN_MANUAL"}]
ASSUME OrdersAssumption == \A found \in Orders : found \in Seq(Drafts)
ASSUME VersionAssumption == MaxVersion \in Nat \ {0}

VARIABLES
  order,      \* the drafts that the sources show
  draft,      \* draft_status, NONE before the contact's row exists
  version,    \* what the email of a draft would say now
  approval,   \* per draft: the approval that is bound to it
  asks,       \* per draft: what its waiting task asks, as its memory says
  continues,  \* the tasks whose memory holds the continuation mark
  ledger,     \* external_actions by idempotency key: action_status
  happened,   \* how often Gmail did what a call asked for
  local,      \* per worker: its task, place, draft, version and what Gmail said
  faults

mailVars == <<ledger, happened>>
draftVars == <<draft, version, approval, asks, continues>>
outreachVars == <<order, task, draftVars, mailVars, local, faults>>

NoApproval == [status |-> "NONE", version |-> 0, overdue |-> FALSE, asked |-> FALSE]
Idle == [pc |-> "idle", task |-> Null, at |-> 1, version |-> 0, answer |-> "none"]

At(w, step) == local[w].pc = step
Goto(w, step) == local' = [local EXCEPT ![w].pc = step]
Leave(w) == local' = [local EXCEPT ![w] = Idle]
Owns(w) == local[w].task # Null /\ Fence(local[w].task, w)
Ends(w, status) == task' = [task EXCEPT ![local[w].task] = Ended(@, status)]
\* The draft that the connector has come to, or that the task is about.
Draft(w) == IF local[w].task = Connect THEN order[local[w].at] ELSE local[w].task

OutreachInit ==
  /\ order \in Orders
  /\ task = [t \in Tasks |-> IF t = Connect THEN Published("READY") ELSE Absent]
  /\ draft = [d \in Drafts |-> "NONE"]
  /\ version = [d \in Drafts |-> 1]
  /\ approval = [d \in Drafts |-> NoApproval]
  /\ asks = [d \in Drafts |-> "nothing"]
  /\ continues = {}
  /\ ledger = [c \in Calls |-> "NONE"]
  /\ happened = [c \in Calls |-> 0]
  /\ local = [w \in Workers |-> Idle]
  /\ faults = 0

ClaimTask(w, t) ==
  /\ At(w, "idle")
  /\ task[t].status = "READY" /\ (t \in continues \/ Claimable(t))
  /\ task' = [task EXCEPT ![t] = Granted(@, w, t \in continues)]
  /\ continues' = continues \ {t}
  /\ local' = [local EXCEPT ![w] = [Idle EXCEPT !.task = t,
       !.pc = IF t = Connect THEN "capture" ELSE IF Channel[t] = "EMAIL" THEN "send" ELSE "review"]]
  /\ UNCHANGED <<order, draft, version, approval, asks, mailVars, faults>>

ClaimOutreach(w) == \E t \in Tasks : ClaimTask(w, t)

-----------------------------------------------------------------------------
(* The connector *)

\* After the captures: contacts and drafts in one transaction; a repeated
\* attempt finds its rows again.
Capture(w) ==
  /\ At(w, "capture") /\ Owns(w)
  /\ draft' = [d \in Drafts |-> IF d \in Range(order) /\ draft[d] = "NONE"
                                THEN "READY_FOR_REVIEW" ELSE draft[d]]
  /\ Goto(w, IF order = <<>> THEN "connected" ELSE "draft")
  /\ UNCHANGED <<order, task, version, approval, asks, continues, mailVars, faults>>

\* Mutant: only a confirmed draft keeps the call from being made again.
BeginDraftAgain(w) ==
  /\ At(w, "draft") /\ Owns(w)
  /\ LET d == Draft(w)
         key == <<"GMAIL_CREATE_DRAFT", d, version[d]>>
     IN  IF Channel[d] # "EMAIL" \/ ledger[key] = "SUCCEEDED"
         THEN Goto(w, "bind") /\ UNCHANGED ledger
         ELSE /\ ledger' = [ledger EXCEPT ![key] = "EXECUTING"]
              /\ local' = [local EXCEPT ![w].pc = "call", ![w].version = version[d]]
  /\ UNCHANGED <<order, task, draftVars, happened, faults>>

\* create_draft, first fence.  A row that did not succeed is not repeatable.
BeginDraft(w) ==
  /\ At(w, "draft") /\ Owns(w)
  /\ LET d == Draft(w)
         key == <<"GMAIL_CREATE_DRAFT", d, version[d]>>
     IN  IF Channel[d] # "EMAIL" \/ ledger[key] = "SUCCEEDED"
         THEN Goto(w, "bind") /\ UNCHANGED ledger
         ELSE IF ledger[key] # "NONE"
         THEN Goto(w, "raise") /\ UNCHANGED ledger
         ELSE /\ ledger' = [ledger EXCEPT ![key] = "EXECUTING"]
              /\ local' = [local EXCEPT ![w].pc = "call", ![w].version = version[d]]
  /\ UNCHANGED <<order, task, draftVars, happened, faults>>

CallOf(w) == <<IF local[w].task = Connect THEN "GMAIL_CREATE_DRAFT" ELSE "SEND_EMAIL",
               Draft(w), local[w].version>>

\* A dry run creates no draft, and sees that before it looks at any row.
DraftsDisabled(w) ==
  /\ At(w, "draft") /\ Channel[Draft(w)] = "EMAIL"
  /\ Goto(w, "raise")
  /\ UNCHANGED <<order, task, draftVars, mailVars, faults>>

\* The adapter's call: Gmail acts and confirms it, or nobody knows whether it did.
CallGmail(w) ==
  /\ At(w, "call")
  /\ \/ /\ happened' = [happened EXCEPT ![CallOf(w)] = @ + 1]
        /\ local' = [local EXCEPT ![w].pc = "record", ![w].answer = "CONFIRMED"]
        /\ UNCHANGED faults
     \/ /\ faults < MaxFaults /\ faults' = faults + 1
        /\ \E done \in {0, 1} : happened' = [happened EXCEPT ![CallOf(w)] = @ + done]
        /\ local' = [local EXCEPT ![w].pc = "record", ![w].answer = "UNKNOWN"]
  /\ UNCHANGED <<order, task, draftVars, ledger>>

CreateDraft(w) == local[w].task = Connect /\ CallGmail(w)
SendDraft(w) == local[w].task \in Drafts /\ CallGmail(w)

\* The last fence of create_draft.
RecordDraft(w) ==
  /\ At(w, "record") /\ local[w].task = Connect /\ Owns(w)
  /\ LET confirmed == local[w].answer = "CONFIRMED"
     IN  /\ ledger' = [ledger EXCEPT ![CallOf(w)] = IF confirmed THEN "SUCCEEDED" ELSE "UNKNOWN_RESULT"]
         /\ local' = [local EXCEPT ![w].pc = IF confirmed THEN "bind" ELSE "raise",
                                   ![w].version = 0, ![w].answer = "none"]
  /\ UNCHANGED <<order, task, draftVars, happened, faults>>

\* The approval of what a draft says now, and its waiting task.
Put(d) ==
  /\ task' = [task EXCEPT ![d] = Published("WAITING_HUMAN")]
  /\ approval' = [approval EXCEPT ![d] = [NoApproval EXCEPT !.status = "PENDING",
                                                             !.version = version[d]]]
  /\ asks' = [asks EXCEPT ![d] = "decision"]

Exists(d) == task[d].status # "ABSENT" \/ approval[d].status # "NONE"

\* Mutant: a draft that already has its approval counts as put to a human.
BindOnce(w) ==
  /\ At(w, "bind") /\ Owns(w)
  /\ LET d == Draft(w)
     IN  IF Exists(d) THEN Goto(w, "connected") /\ UNCHANGED <<task, approval, asks>>
         ELSE Put(d) /\ Goto(w, "ask")
  /\ UNCHANGED <<order, draft, version, continues, mailVars, faults>>

\* The approval, the waiting task and the bond in one transaction.  A repeated
\* attempt has new identities and conflicts.
Bind(w) ==
  /\ At(w, "bind") /\ Owns(w)
  /\ LET d == Draft(w)
     IN  IF Exists(d) THEN Goto(w, "raise") /\ UNCHANGED <<task, approval, asks>>
         ELSE Put(d) /\ Goto(w, "ask")
  /\ UNCHANGED <<order, draft, version, continues, mailVars, faults>>

\* _approval, for an email, and _manual_approval.
BindApproval(w) == At(w, "bind") /\ Channel[Draft(w)] = "EMAIL" /\ Bind(w)
BindManual(w) == At(w, "bind") /\ Channel[Draft(w)] # "EMAIL" /\ Bind(w)

\* request_approval, and on to the next contact.
RequestApproval(w) ==
  /\ At(w, "ask")
  /\ approval' = [approval EXCEPT ![Draft(w)].asked = TRUE]
  /\ local' = IF local[w].at = Len(order) THEN [local EXCEPT ![w].pc = "connected"]
              ELSE [local EXCEPT ![w].pc = "draft", ![w].at = @ + 1]
  /\ UNCHANGED <<order, task, draft, version, asks, continues, mailVars, faults>>

CompleteConnector(w) ==
  /\ At(w, "connected") /\ Owns(w)
  /\ Ends(w, "SUCCEEDED") /\ Leave(w)
  /\ UNCHANGED <<order, draftVars, mailVars, faults>>

-----------------------------------------------------------------------------
(* The sender *)

Changed(d) == version[d] # approval[d].version

\* Mutant: what the email says now is not compared with what was approved.
BeginSendUncompared(w) ==
  /\ At(w, "send") /\ Owns(w)
  /\ LET d == Draft(w)
         key == <<"SEND_EMAIL", d, version[d]>>
     IN  /\ approval[d].status = "APPROVED" /\ ~approval[d].overdue
         /\ approval' = [approval EXCEPT ![d].status = "CONSUMED"]
         /\ draft' = [draft EXCEPT ![d] = "APPROVED"]
         /\ ledger' = [ledger EXCEPT ![key] = "EXECUTING"]
         /\ local' = [local EXCEPT ![w].pc = "call", ![w].version = version[d]]
  /\ UNCHANGED <<order, task, version, asks, continues, happened, faults>>

\* send, first fence: an unused approval of exactly this email is consumed with
\* the row's EXECUTING, when Gmail holds a confirmed draft of it.
BeginSend(w) ==
  /\ At(w, "send") /\ Owns(w)
  /\ LET d == Draft(w)
         key == <<"SEND_EMAIL", d, version[d]>>
     IN  /\ approval[d].status = "APPROVED" /\ ~approval[d].overdue /\ ~Changed(d)
         /\ ledger[<<"GMAIL_CREATE_DRAFT", d, version[d]>>] = "SUCCEEDED"
         /\ ledger[key] = "NONE"
         /\ approval' = [approval EXCEPT ![d].status = "CONSUMED"]
         /\ draft' = [draft EXCEPT ![d] = "APPROVED"]
         /\ ledger' = [ledger EXCEPT ![key] = "EXECUTING"]
         /\ local' = [local EXCEPT ![w].pc = "call", ![w].version = version[d]]
  /\ UNCHANGED <<order, task, version, asks, continues, happened, faults>>

\* A consumed approval only reports what its row says; any other that is not
\* APPROVED cannot be used.
RefuseSend(w) ==
  /\ At(w, "send") /\ Owns(w)
  /\ LET d == Draft(w)
     IN  /\ approval[d].status # "APPROVED"
         /\ Goto(w, IF /\ approval[d].status = "CONSUMED"
                       /\ ledger[<<"SEND_EMAIL", d, approval[d].version>>] = "SUCCEEDED"
                    THEN "sent" ELSE "wait")
  /\ UNCHANGED <<order, task, draftVars, mailVars, faults>>

\* An approval that is overdue expires, one of another email is revoked; both
\* are committed before the error is raised.
InvalidateSend(w) ==
  /\ At(w, "send") /\ Owns(w)
  /\ LET d == Draft(w)
     IN  /\ approval[d].status = "APPROVED" /\ (approval[d].overdue \/ Changed(d))
         /\ approval' = [approval EXCEPT ![d].status = IF approval[d].overdue THEN "EXPIRED" ELSE "REVOKED"]
         /\ draft' = IF Changed(d) THEN [draft EXCEPT ![d] = "READY_FOR_REVIEW"] ELSE draft
  /\ Goto(w, "wait")
  /\ UNCHANGED <<order, task, version, asks, continues, mailVars, faults>>

\* Gmail never confirmed a draft of what was approved.
MissingDraft(w) ==
  /\ At(w, "send") /\ Owns(w)
  /\ LET d == Draft(w)
     IN  /\ approval[d].status = "APPROVED" /\ ~approval[d].overdue /\ ~Changed(d)
         /\ ledger[<<"GMAIL_CREATE_DRAFT", d, version[d]>>] # "SUCCEEDED"
  /\ Goto(w, "wait")
  /\ UNCHANGED <<order, task, draftVars, mailVars, faults>>

\* The settings of this process, which may be another's at the next attempt, are
\* not live, or do not name the user who approved.  Nothing is written.
SettingsRefuse(w) ==
  /\ At(w, "send")
  /\ Goto(w, "wait")
  /\ UNCHANGED <<order, task, draftVars, mailVars, faults>>

\* The last fence of send.
RecordSend(w) ==
  /\ At(w, "record") /\ local[w].task \in Drafts /\ Owns(w)
  /\ LET confirmed == local[w].answer = "CONFIRMED"
     IN  /\ ledger' = [ledger EXCEPT ![CallOf(w)] = IF confirmed THEN "SUCCEEDED" ELSE "UNKNOWN_RESULT"]
         /\ draft' = IF confirmed THEN [draft EXCEPT ![Draft(w)] = "SENT"] ELSE draft
         /\ local' = [local EXCEPT ![w].pc = IF confirmed THEN "sent" ELSE "wait",
                                   ![w].version = 0, ![w].answer = "none"]
  /\ UNCHANGED <<order, task, version, approval, asks, continues, happened, faults>>

-----------------------------------------------------------------------------
(* The review of a manual draft, and the end of an attempt *)

\* ManualOutreachWorker: it only looks at the decision; no deadline is checked.
ReviewManual(w) ==
  /\ At(w, "review") /\ Owns(w)
  /\ LET d == Draft(w)
         status == approval[d].status
     IN  /\ draft' = [draft EXCEPT ![d] = CASE status = "REJECTED" -> "REJECTED"
                                            [] status = "APPROVED" /\ ~Changed(d) -> "APPROVED"
                                            [] OTHER -> @]
         /\ approval' = IF status = "APPROVED" /\ Changed(d)
                        THEN [approval EXCEPT ![d].status = "REVOKED"] ELSE approval
         /\ Goto(w, IF status = "REJECTED" \/ (status = "APPROVED" /\ ~Changed(d)) THEN "sent" ELSE "wait")
  /\ UNCHANGED <<order, task, version, asks, continues, mailVars, faults>>

CompleteOutreach(w) ==
  /\ At(w, "sent") /\ Owns(w)
  /\ Ends(w, "SUCCEEDED") /\ Leave(w)
  /\ UNCHANGED <<order, draftVars, mailVars, faults>>

\* An error, or an unknown result, is left to a human; the interrupt no longer
\* names the approval.
WaitForHuman(w) ==
  /\ At(w, "wait") /\ Owns(w)
  /\ Ends(w, "WAITING_HUMAN") /\ Leave(w)
  /\ asks' = [asks EXCEPT ![Draft(w)] = "help"]
  /\ UNCHANGED <<order, draft, version, approval, continues, mailVars, faults>>

\* What the connector refuses fails its task for good.
FailConnector(w) ==
  /\ At(w, "raise") /\ Owns(w)
  /\ task' = [task EXCEPT ![Connect] = Retried(@, Connect, FALSE)]
  /\ Leave(w)
  /\ UNCHANGED <<order, draftVars, mailVars, faults>>

\* Any step of an attempt may raise (a capture that fails, a locked database, a
\* heartbeat), and a retry may cure it or not.
AttemptFails(w) ==
  /\ Owns(w)
  /\ faults < MaxFaults /\ faults' = faults + 1
  /\ \E retryable \in BOOLEAN :
       task' = [task EXCEPT ![local[w].task] = Retried(@, local[w].task, retryable)]
  /\ Leave(w)
  /\ UNCHANGED <<order, draftVars, mailVars>>

\* A worker that is stopped cancels its attempt and gives the task back.
StopOutreach(w) ==
  /\ Owns(w)
  /\ faults < MaxFaults /\ faults' = faults + 1
  /\ task' = [task EXCEPT ![local[w].task] = Released(@)]
  /\ continues' = continues \cup {local[w].task}
  /\ Leave(w)
  /\ UNCHANGED <<order, draft, version, approval, asks, mailVars>>

OutreachLeaseLost(w) ==
  /\ local[w].pc \notin {"idle", "call", "ask"} /\ ~Owns(w)
  /\ Leave(w)
  /\ UNCHANGED <<order, task, draftVars, mailVars, faults>>

CrashOutreach(w) ==
  /\ ~At(w, "idle")
  /\ faults < MaxFaults /\ faults' = faults + 1
  /\ Leave(w)
  /\ UNCHANGED <<order, task, draftVars, mailVars>>

-----------------------------------------------------------------------------
(* Recovery, humans, and what an email would say *)

RecoverRow(t) ==
  /\ RecoverTask(t)
  /\ UNCHANGED <<order, draftVars, mailVars, local, faults>>

RecoverOutreach == \E t \in Tasks : RecoverRow(t)

\* recover, at the start of a worker and by the coordinator, whatever the owner
\* of a row is doing.
RecoverMail ==
  /\ \E c \in Calls : ledger[c] = "EXECUTING"
  /\ ledger' = [c \in Calls |-> IF ledger[c] = "EXECUTING" THEN "UNKNOWN_RESULT" ELSE ledger[c]]
  /\ UNCHANGED <<order, task, draftVars, happened, local, faults>>

\* decide: with the resume of the task, as long as it waits for this decision.
DecideOutreach ==
  \E d \in Drafts, verdict \in {"APPROVED", "REJECTED"} :
    /\ approval[d].asked /\ approval[d].status = "PENDING" /\ ~approval[d].overdue
    /\ asks[d] = "decision" => task[d].status = "WAITING_HUMAN"
    /\ approval' = [approval EXCEPT ![d].status = verdict]
    /\ task' = IF asks[d] = "decision" THEN [task EXCEPT ![d].status = "READY"] ELSE task
    /\ continues' = IF asks[d] = "decision" THEN continues \cup {d} ELSE continues
    /\ UNCHANGED <<order, draft, version, asks, mailVars, local, faults>>

\* jhm task resume.
OperatorResumes ==
  \E d \in Drafts :
    /\ task[d].status = "WAITING_HUMAN"
    /\ task' = [task EXCEPT ![d].status = "READY"]
    /\ continues' = continues \cup {d}
    /\ UNCHANGED <<order, draft, version, approval, asks, mailVars, local, faults>>

Overdue ==
  \E d \in Drafts :
    /\ approval[d].status \in {"PENDING", "APPROVED"} /\ ~approval[d].overdue
    /\ faults < MaxFaults /\ faults' = faults + 1
    /\ approval' = [approval EXCEPT ![d].overdue = TRUE]
    /\ UNCHANGED <<order, task, draft, version, asks, continues, mailVars, local>>

\* An attachment or a contact's address is replaced.
ContentChanges ==
  \E d \in Drafts :
    /\ draft[d] # "NONE"
    /\ version[d] < MaxVersion /\ version' = [version EXCEPT ![d] = @ + 1]
    /\ UNCHANGED <<order, task, draft, approval, asks, continues, mailVars, local, faults>>

Work(w) ==
  \/ ClaimOutreach(w)
  \/ Capture(w) \/ BeginDraft(w) \/ DraftsDisabled(w) \/ CreateDraft(w) \/ RecordDraft(w) \/ BindApproval(w)
  \/ BindManual(w)
  \/ RequestApproval(w) \/ CompleteConnector(w)
  \/ BeginSend(w) \/ RefuseSend(w) \/ InvalidateSend(w) \/ MissingDraft(w) \/ SettingsRefuse(w)
  \/ SendDraft(w) \/ RecordSend(w)
  \/ ReviewManual(w) \/ CompleteOutreach(w) \/ WaitForHuman(w) \/ FailConnector(w)
  \/ OutreachLeaseLost(w)

OutreachNext ==
  \/ \E w \in Workers : Work(w) \/ AttemptFails(w) \/ StopOutreach(w) \/ CrashOutreach(w)
  \/ RecoverOutreach \/ RecoverMail
  \/ DecideOutreach \/ OperatorResumes \/ Overdue \/ ContentChanges

\* Workers poll and go on, and recovery runs periodically.  A worker of the model
\* may claim every type of task; in the code connectors and senders are separate
\* processes, so that a sender's tasks never keep a connector from its own.
OutreachFairness ==
  /\ \A w \in Workers : WF_outreachVars(Work(w)) /\ SF_outreachVars(ClaimTask(w, Connect))
  /\ \A t \in Tasks : WF_outreachVars(RecoverRow(t))

OutreachSpec == OutreachInit /\ [][OutreachNext]_outreachVars
FairOutreachSpec == OutreachSpec /\ OutreachFairness

-----------------------------------------------------------------------------
(* Properties *)

\* A contact is written to at most once, in exactly the words that a human
\* approved, with that approval consumed; and a draft is SENT only if the email
\* went out - through crashes, lost answers, edits and operators who resume the
\* task (outreach.md: an ambiguous result is not automatically sent again).
SentAsApproved ==
  \A d \in Drafts :
    LET sent == {v \in Versions : happened[<<"SEND_EMAIL", d, v>>] > 0}
    IN  /\ sent # {} => /\ sent = {approval[d].version} /\ approval[d].status = "CONSUMED"
                        /\ happened[<<"SEND_EMAIL", d, approval[d].version>>] = 1
                        /\ Channel[d] = "EMAIL"
        /\ draft[d] = "SENT" => sent # {}

\* Each Gmail call is performed at most once and the ledger says nothing untrue
\* of it: drafts and sends are effects in the sense of ExternalEffect.
Mail == INSTANCE ExternalEffect WITH
  Effects <- Calls,
  Refusable <- Calls,
  stage <- ledger,
  performed <- happened

MailedAtMostOnce == Mail!EffectSpec

\* Nobody is forgotten in silence: the connector ends with every contact's
\* draft put to a human, or its task has FAILED.
ConnectorSettles ==
  <>(task[Connect].status = "FAILED" \/ \A d \in Range(order) : approval[d].asked)
=============================================================================
