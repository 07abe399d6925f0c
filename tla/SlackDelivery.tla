---------------------------- MODULE SlackDelivery ----------------------------
(***************************************************************************)
(* The Slack control plane: slack/actions.py (the outbox of notifications),*)
(* slack/control.py (the durable inbox and what an event does) and the     *)
(* loop of slack/socket_mode.py.                                           *)
(*                                                                         *)
(* A message is a row of the action ledger: a notice, a question or an     *)
(* approval request about a task that waits.  Listeners are processes that *)
(* run the loop; an event is one thing a human says, which Slack delivers  *)
(* until it is acknowledged.  The SLACK_PROCESS_EVENT task of an event has *)
(* the event's name.  Slack itself is external: a post may be shown        *)
(* without its receipt coming back, and an error may follow it.  Sixty     *)
(* seconds may pass between any two steps of a listener.                   *)
(*                                                                         *)
(* A listener runs with the channel allowlist it read when it started,     *)
(* which may not be the one a message was planned under.                   *)
(***************************************************************************)
EXTENDS LeasedTasks

CONSTANTS
  MaxMessages,      \* bound: outbound messages, numbered by age
  MayBe,            \* bound: the kinds that each message may have
  MaxEvents,        \* bound: what humans say
  MaxFaults         \* bound: crashes and storage errors

Messages == 1 .. MaxMessages
Events == 1 .. MaxEvents
Links == 0    \* what an event is about when it answers no message
Kinds == {"notice", "question", "approval"}

ASSUME MessagesAssumption == MaxMessages \in Nat /\ MayBe \in [Messages -> SUBSET Kinds]
ASSUME EventsAssumption == MaxEvents \in Nat /\ Tasks = Events
ASSUME FaultsAssumption == MaxFaults \in Nat

VARIABLES
  kind,      \* per message: what is asked, fixed when it is planned
  ledger,    \* per message: action_status and the owner of its delivery
  shown,     \* per message: how often it appeared in the channel
  approval,  \* per approval message: approval_status ("CLOSED": past its deadline or revoked)
  reply,     \* per message: the event whose answer resumed the waiting task, 0 if it waits no more
  said,      \* per event: what the human said, and about which message
  unacked,   \* events that Slack still delivers
  inbox,     \* processing_status of an event
  effects,   \* per event: how often its effect was committed
  pc,        \* a listener's place in its loop
  doing,     \* the event or message it has in hand
  result,    \* what post told it
  allowed,   \* the messages to channels on its allowlist
  faults

outboxVars == <<kind, ledger, shown>>
inboxVars == <<said, unacked, inbox, effects>>
askedVars == <<approval, reply>>
listenerVars == <<pc, doing, result, allowed>>
slackVars == <<task, outboxVars, inboxVars, askedVars, listenerVars, faults>>

ActionStatuses == {"NONE", "PLANNED", "EXECUTING", "SUCCEEDED", "FAILED", "UNKNOWN_RESULT"}
Verdicts(m) == CASE kind[m] = "question" -> {"answer"}
                 [] kind[m] = "approval" -> {"APPROVED", "REJECTED"}
                 [] OTHER -> {}
Sayings == [about : {Links}, verdict : {"urls"}]
           \cup [about : Messages, verdict : {"answer", "APPROVED", "REJECTED"}]
Unanswered == -1
Moved == 0
Unsaid == [about |-> Links, verdict |-> "nothing"]

Goto(w, step, thing) ==
  /\ pc' = [pc EXCEPT ![w] = step]
  /\ doing' = [doing EXCEPT ![w] = thing]
  /\ UNCHANGED allowed
Looping(w) == Goto(w, "loop", Null) /\ result' = [result EXCEPT ![w] = "UNKNOWN_RESULT"]

SlackInit ==
  /\ kind \in {f \in [Messages -> Kinds] : \A m \in Messages : f[m] \in MayBe[m]}
  /\ task = [e \in Tasks |-> Absent]
  /\ ledger = [m \in Messages |-> [status |-> "NONE", owner |-> Null]]
  /\ shown = [m \in Messages |-> 0]
  /\ approval = [m \in Messages |-> "PENDING"]
  /\ reply = [m \in Messages |-> Unanswered]
  /\ said = [e \in Events |-> Unsaid]
  /\ unacked = {}
  /\ inbox = [e \in Events |-> "NONE"]
  /\ effects = [e \in Events |-> 0]
  /\ pc = [w \in Workers |-> "loop"]
  /\ doing = [w \in Workers |-> Null]
  /\ result = [w \in Workers |-> "UNKNOWN_RESULT"]
  /\ allowed \in [Workers -> SUBSET Messages]
  /\ faults = 0

-----------------------------------------------------------------------------
(* The outbox *)

\* notify, request_approval and ask_missing plan a message once; a repeated
\* call finds the row by its dedupe key.
PlanMessage(m) ==
  /\ ledger[m].status = "NONE"
  /\ \A n \in Messages : n < m => ledger[n].status # "NONE"
  /\ kind[m] = "approval" => approval[m] = "PENDING"
  /\ kind[m] = "question" => reply[m] = Unanswered
  /\ ledger' = [ledger EXCEPT ![m].status = "PLANNED"]
  /\ UNCHANGED <<task, kind, shown, inboxVars, askedVars, listenerVars, faults>>

\* The row that deliver_one selects.
Oldest(m) ==
  /\ ledger[m].status = "PLANNED"
  /\ \A n \in Messages : ledger[n].status = "PLANNED" => m <= n

\* Mutant: a delivery whose result is unknown is taken up again.
StartAgain(w) ==
  /\ pc[w] = "loop"
  /\ \E m \in allowed[w] :
       /\ Oldest(m) \/ ledger[m].status = "UNKNOWN_RESULT"
       /\ ledger' = [ledger EXCEPT ![m] = [status |-> "EXECUTING", owner |-> w]]
       /\ Goto(w, "post", m)
  /\ UNCHANGED <<task, kind, shown, inboxVars, askedVars, result, faults>>

\* deliver_one, first transaction.
StartDelivery(w) ==
  /\ pc[w] = "loop"
  /\ \E m \in allowed[w] :
       /\ Oldest(m)
       /\ ledger' = [ledger EXCEPT ![m] = [status |-> "EXECUTING", owner |-> w]]
       /\ Goto(w, "post", m)
  /\ UNCHANGED <<task, kind, shown, inboxVars, askedVars, result, faults>>

\* It raises when the oldest row is for a channel that is not on the allowlist:
\* the row stays PLANNED, and the loop of run_live ends.
BarredDelivery(w) ==
  /\ pc[w] = "loop"
  /\ \E m \in Messages \ allowed[w] : Oldest(m)
  /\ Goto(w, "ended", Null)
  /\ UNCHANGED <<task, outboxVars, inboxVars, askedVars, result, faults>>

\* jhm slack --live, with the allowlist of that moment.
StartListener(w) ==
  /\ pc[w] = "ended"
  /\ pc' = [pc EXCEPT ![w] = "loop"]
  /\ \E messages \in SUBSET Messages : allowed' = [allowed EXCEPT ![w] = messages]
  /\ UNCHANGED <<task, outboxVars, inboxVars, askedVars, doing, result, faults>>

\* The message is shown or not, and the answer may be lost or name another
\* channel, which counts as unknown.  What Slack answers with an error (also when
\* it broke down halfway) counts as failed.
Post(w) ==
  /\ pc[w] = "post"
  /\ \E visible \in {0, 1}, answer \in {"SUCCEEDED", "FAILED", "UNKNOWN_RESULT"} :
       /\ answer = "SUCCEEDED" => visible = 1
       /\ shown' = [shown EXCEPT ![doing[w]] = @ + visible]
       /\ result' = [result EXCEPT ![w] = answer]
  /\ Goto(w, "store", doing[w])
  /\ UNCHANGED <<task, kind, ledger, inboxVars, askedVars, faults>>

\* deliver_one, last transaction: a receipt that comes after recovery has given
\* the delivery up is dropped.
StoreReceipt(w) ==
  /\ pc[w] = "store"
  /\ LET m == doing[w]
         mine == ledger[m] = [status |-> "EXECUTING", owner |-> w]
     IN  ledger' = IF mine THEN [ledger EXCEPT ![m].status = result[w]] ELSE ledger
  /\ Looping(w)
  /\ UNCHANGED <<task, kind, shown, inboxVars, askedVars, faults>>

\* Mutant: recovery looks for deliveries that have no owner.
GiveUpOwnerless(m) ==
  /\ ledger[m].status = "EXECUTING" /\ ledger[m].owner = Null
  /\ ledger' = [ledger EXCEPT ![m].status = "UNKNOWN_RESULT"]
  /\ UNCHANGED <<task, kind, shown, inboxVars, askedVars, listenerVars, faults>>

\* recover, once the sixty seconds of a delivery are over.
GiveUp(m) ==
  /\ ledger[m].status = "EXECUTING"
  /\ ledger' = [ledger EXCEPT ![m].status = "UNKNOWN_RESULT"]
  /\ UNCHANGED <<task, kind, shown, inboxVars, askedVars, listenerVars, faults>>

-----------------------------------------------------------------------------
(* The inbox *)

\* A human answers a message that is shown, or posts links.
Say(e) ==
  /\ said[e] = Unsaid
  /\ \A f \in Events : f < e => said[f] # Unsaid
  /\ \E saying \in Sayings :
       /\ saying.about # Links => /\ shown[saying.about] > 0
                                   /\ saying.verdict \in Verdicts(saying.about)
       /\ said' = [said EXCEPT ![e] = saying]
  /\ unacked' = unacked \cup {e}
  /\ UNCHANGED <<task, outboxVars, askedVars, inbox, effects, listenerVars, faults>>

\* receive: the event and its task in one transaction, or nothing when either
\* identity is known; the acknowledgment comes after it and may be lost.
Receive(e, acked) ==
  /\ e \in unacked
  /\ IF inbox[e] = "NONE"
     THEN /\ inbox' = [inbox EXCEPT ![e] = "PENDING"]
          /\ task' = [task EXCEPT ![e] = Published("READY")]
     ELSE UNCHANGED <<inbox, task>>
  /\ unacked' = IF acked THEN unacked \ {e} ELSE unacked
  /\ UNCHANGED <<outboxVars, askedVars, said, effects, listenerVars, faults>>

\* process_one: claim.
TakeEvent(w) ==
  /\ pc[w] = "loop"
  /\ \E e \in Events :
       /\ Claimable(e)
       /\ task' = [task EXCEPT ![e] = Granted(@, w, FALSE)]
       /\ Goto(w, "process", e)
  /\ UNCHANGED <<outboxVars, inboxVars, askedVars, result, faults>>

\* Mutant: a click is believed although its message was never confirmed.
AcceptableUnconfirmed(e) ==
  LET m == said[e].about
  IN  \/ m = Links
      \/ m # Links /\ kind[m] = "question" /\ reply[m] = Unanswered
      \/ /\ m # Links /\ kind[m] = "approval"
         /\ approval[m] = "PENDING" \/ approval[m] = said[e].verdict
         /\ reply[m] \in {Unanswered, Moved}

\* _process with resume_in_transaction and decide: what the event asks for can
\* be done.  Deciding again as before changes nothing and is accepted once the
\* task has stopped asking.
Acceptable(e) ==
  LET m == said[e].about
  IN  \/ m = Links
      \/ /\ m # Links
         /\ ledger[m].status = "SUCCEEDED"
         /\ \/ kind[m] = "question" /\ reply[m] = Unanswered
            \/ /\ kind[m] = "approval"
               /\ approval[m] = "PENDING" \/ approval[m] = said[e].verdict
               /\ reply[m] \in {Unanswered, Moved}

Effect(e) ==
  LET m == said[e].about
  IN  IF m = Links THEN UNCHANGED askedVars
      ELSE /\ approval' = IF kind[m] = "approval" THEN [approval EXCEPT ![m] = said[e].verdict]
                          ELSE approval
           /\ reply' = IF reply[m] = Unanswered THEN [reply EXCEPT ![m] = e] ELSE reply

\* Mutant: a retried attempt does not look whether the event was processed.
ProcessUnseen(w) ==
  /\ pc[w] = "process"
  /\ LET e == doing[w]
     IN  /\ Fence(e, w)
         /\ \/ /\ Acceptable(e)
               /\ Effect(e)
               /\ effects' = [effects EXCEPT ![e] = @ + 1]
               /\ inbox' = [inbox EXCEPT ![e] = "PROCESSED"]
            \/ /\ inbox' = [inbox EXCEPT ![e] = "REJECTED"]
               /\ UNCHANGED <<askedVars, effects>>
         /\ Goto(w, "complete", e)
  /\ UNCHANGED <<task, outboxVars, said, unacked, result, faults>>

\* process_one, fenced transaction: a PENDING event is processed, or rejected
\* when it cannot be (or when its sender is no longer on the allowlist).
Process(w) ==
  /\ pc[w] = "process"
  /\ LET e == doing[w]
     IN  /\ Fence(e, w)
         /\ \/ /\ inbox[e] = "PENDING" /\ Acceptable(e)
               /\ Effect(e)
               /\ effects' = [effects EXCEPT ![e] = @ + 1]
               /\ inbox' = [inbox EXCEPT ![e] = "PROCESSED"]
            \/ /\ inbox[e] = "PENDING"
               /\ inbox' = [inbox EXCEPT ![e] = "REJECTED"]
               /\ UNCHANGED <<askedVars, effects>>
            \/ /\ inbox[e] # "PENDING"
               /\ UNCHANGED <<askedVars, inbox, effects>>
         /\ Goto(w, "complete", e)
  /\ UNCHANGED <<task, outboxVars, said, unacked, result, faults>>

\* process_one: complete, in a transaction of its own.
CompleteEvent(w) ==
  /\ pc[w] = "complete"
  /\ Fence(doing[w], w)
  /\ task' = [task EXCEPT ![doing[w]] = Ended(@, "SUCCEEDED")]
  /\ Looping(w)
  /\ UNCHANGED <<outboxVars, inboxVars, askedVars, faults>>

EventLeaseLost(w) ==
  /\ pc[w] \in {"process", "complete"}
  /\ ~Fence(doing[w], w)
  /\ Looping(w)
  /\ UNCHANGED <<task, outboxVars, inboxVars, askedVars, faults>>

\* A storage error rolls the transaction back and fails the task as retryable.
StorageError(w) ==
  /\ pc[w] \in {"process", "complete"}
  /\ faults < MaxFaults
  /\ faults' = faults + 1
  /\ Fence(doing[w], w)
  /\ task' = [task EXCEPT ![doing[w]] = Retried(@, doing[w], TRUE)]
  /\ Looping(w)
  /\ UNCHANGED <<outboxVars, inboxVars, askedVars>>

\* The process dies, is stopped, or a storage error of a delivery ends its loop.
Die(w) ==
  /\ pc[w] # "ended"
  /\ faults < MaxFaults
  /\ faults' = faults + 1
  /\ Goto(w, "ended", Null)
  /\ result' = [result EXCEPT ![w] = "UNKNOWN_RESULT"]
  /\ UNCHANGED <<task, outboxVars, inboxVars, askedVars>>

RecoverEvent(e) ==
  /\ RecoverTask(e)
  /\ UNCHANGED <<outboxVars, inboxVars, askedVars, listenerVars, faults>>

\* The deadline of an approval passes, or a worker revokes it.
CloseApproval(m) ==
  /\ kind[m] = "approval" /\ approval[m] \in {"PENDING", "APPROVED"}
  /\ approval' = [approval EXCEPT ![m] = "CLOSED"]
  /\ UNCHANGED <<task, outboxVars, inboxVars, reply, listenerVars, faults>>

\* An operator resumes or cancels the task, or it moves on after a resume.
MoveOn(m) ==
  /\ kind[m] # "notice" /\ reply[m] # Moved
  /\ reply' = [reply EXCEPT ![m] = Moved]
  /\ UNCHANGED <<task, outboxVars, inboxVars, approval, listenerVars, faults>>

SlackNext ==
  \/ \E m \in Messages : PlanMessage(m) \/ GiveUp(m) \/ CloseApproval(m) \/ MoveOn(m)
  \/ \E e \in Events : Say(e) \/ RecoverEvent(e) \/ \E acked \in BOOLEAN : Receive(e, acked)
  \/ \E w \in Workers :
       \/ StartListener(w) \/ StartDelivery(w) \/ BarredDelivery(w) \/ Post(w) \/ StoreReceipt(w)
       \/ TakeEvent(w) \/ Process(w) \/ CompleteEvent(w)
       \/ EventLeaseLost(w) \/ StorageError(w) \/ Die(w)

\* The listeners are started again and keep looping; a round of the loop claims
\* an event before it delivers.  Slack delivers until it is acknowledged; nobody
\* promises that a human says anything, or that a channel is allowed again.
SlackFairness ==
  /\ \A w \in Workers :
       /\ WF_slackVars(StartListener(w))
       /\ WF_slackVars(StartDelivery(w)) /\ WF_slackVars(BarredDelivery(w))
       /\ WF_slackVars(Post(w)) /\ WF_slackVars(StoreReceipt(w))
       /\ SF_slackVars(TakeEvent(w)) /\ WF_slackVars(Process(w)) /\ WF_slackVars(CompleteEvent(w))
       /\ WF_slackVars(EventLeaseLost(w))
  /\ \A e \in Events : WF_slackVars(RecoverEvent(e)) /\ WF_slackVars(Receive(e, TRUE))
  /\ \A m \in Messages : WF_slackVars(GiveUp(m))

SlackSpec == SlackInit /\ [][SlackNext]_slackVars
FairSlackSpec == SlackSpec /\ SlackFairness

-----------------------------------------------------------------------------
(* Properties *)

\* An event takes effect at most once through redeliveries, crashes between the
\* inbox transaction and complete, and retries; and exactly when it is PROCESSED.
EventEffectOnce ==
  \A e \in Events : effects[e] = IF inbox[e] = "PROCESSED" THEN 1 ELSE 0

\* A task was resumed only by what a human said about its own message, which
\* Slack showed exactly once and whose receipt is stored (slack.md: only a
\* confirmed message can be answered).
AnswersConfirmed ==
  \A m \in Messages : reply[m] \in Events =>
    /\ said[reply[m]].about = m
    /\ inbox[reply[m]] = "PROCESSED"
    /\ ledger[m].status = "SUCCEEDED"
    /\ shown[m] = 1

\* The loop leaves nothing behind: every stored event is processed, rejected, or
\* its task has used up its attempts - also when deliveries end one listener after
\* the other.  A planned message gets a result unless it, or an older one that is
\* still planned, is for a channel that a listener may not post to: then that one
\* is selected again by every round and every restart.
Blocked(m) == \E n \in Messages, w \in Workers :
                n <= m /\ ledger[n].status = "PLANNED" /\ n \notin allowed[w]

LoopSettles ==
  /\ \A e \in Events : inbox[e] = "PENDING" ~> inbox[e] # "PENDING" \/ task[e].status = "FAILED"
  /\ \A m \in Messages :
       ledger[m].status = "PLANNED"
         ~> ledger[m].status \in {"SUCCEEDED", "FAILED", "UNKNOWN_RESULT"} \/ Blocked(m)

\* The outbox performs each post at most once and calls it confirmed only if it
\* was shown.  An error answer of Slack is no proof that it was not.
Outbox == INSTANCE ExternalEffect WITH
  Effects <- Messages, Refusable <- {},
  stage <- [m \in Messages |-> ledger[m].status],
  performed <- shown

PostedAtMostOnce == Outbox!EffectSpec
=============================================================================
