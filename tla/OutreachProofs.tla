--------------------------- MODULE OutreachProofs ---------------------------
(***************************************************************************)
(* Proofs about Outreach, for any drafts, orders, workers, versions and    *)
(* faults: the Gmail calls implement ExternalEffect, and what is sent was  *)
(* approved.                                                               *)
(*                                                                         *)
(* The strengthening has two parts.  CallInv: a worker that has a call in  *)
(* hand is alone with it, and the call has not happened before it makes    *)
(* it.  SendRows: a send has a row only when the draft's one approval, for *)
(* exactly that version, is consumed.                                      *)
(***************************************************************************)
EXTENDS Outreach, TLAPS

Places == {"idle", "capture", "draft", "call", "record", "bind", "ask", "connected",
           "send", "review", "sent", "wait", "raise"}
Ranked == {"draft", "call", "record", "bind", "ask"}
ApprovalStatuses == {"NONE", "PENDING", "APPROVED", "REJECTED", "EXPIRED", "REVOKED", "CONSUMED"}
Locals == [pc : Places, task : Tasks \cup {Null}, at : Nat, version : Nat, answer : {"none", "CONFIRMED", "UNKNOWN"}]
Approvals == [status : ApprovalStatuses, version : Nat, overdue : BOOLEAN, asked : BOOLEAN]

\* Where a worker stands fits the task it has: places of the connector point at
\* a contact of the order, places of the sender at the draft of an email.
Placed(row) ==
  /\ row.pc # "idle" => row.task \in Tasks
  /\ row.pc \in {"capture", "draft", "bind", "ask", "raise"} => row.task = Connect
  /\ row.pc \in Ranked /\ row.task = Connect => row.at \in DOMAIN order
  /\ row.pc = "capture" => row.at = 1
  /\ row.pc \in {"send", "review", "sent", "wait"} => row.task \in Drafts
  /\ row.pc = "send" => Channel[row.task] = "EMAIL"
  /\ row.pc \in {"call", "record"} => row.version \in Versions

OutreachTypes ==
  /\ order \in Seq(Drafts)
  /\ draft \in [Drafts -> {"NONE", "READY_FOR_REVIEW", "APPROVED", "REJECTED", "SENT"}]
  /\ version \in [Drafts -> Versions]
  /\ approval \in [Drafts -> Approvals]
  /\ ledger \in [Calls -> {"NONE", "EXECUTING", "SUCCEEDED", "UNKNOWN_RESULT"}]
  /\ happened \in [Calls -> Nat]
  /\ local \in [Workers -> Locals]
  /\ \A w \in Workers : Placed(local[w])

Holds(w, c) == local[w].pc \in {"call", "record"} /\ CallOf(w) = c

CallInv ==
  \A c \in Calls :
    /\ ledger[c] = "NONE" => happened[c] = 0
    /\ ledger[c] = "SUCCEEDED" => happened[c] = 1
    /\ happened[c] \in {0, 1}
    /\ \A w \in Workers : Holds(w, c) =>
         /\ ledger[c] \in {"EXECUTING", "UNKNOWN_RESULT"}
         /\ local[w].pc = "call" => happened[c] = 0
         /\ local[w].pc = "record" /\ local[w].answer = "CONFIRMED" => happened[c] = 1
    /\ \A w, v \in Workers : Holds(w, c) /\ Holds(v, c) => w = v

SendRows ==
  \A d \in Drafts, v \in Versions : ledger[<<"SEND_EMAIL", d, v>>] # "NONE" =>
    /\ approval[d].status = "CONSUMED" /\ approval[d].version = v
    /\ Channel[d] = "EMAIL"

SendDone ==
  \A d \in Drafts : draft[d] = "SENT" => \E v \in Versions : happened[<<"SEND_EMAIL", d, v>>] = 1

OutreachInv == OutreachTypes /\ CallInv /\ SendRows /\ SendDone

-----------------------------------------------------------------------------
(* Types *)

LEMMA OutreachTypesInit == OutreachInit => OutreachTypes
<1> SUFFICES ASSUME OutreachInit PROVE OutreachTypes
  OBVIOUS
<1>1. order \in Seq(Drafts)
  BY OrdersAssumption DEF OutreachInit
<1>2. 1 \in Versions
  BY VersionAssumption DEF Versions
<1>3. QED
  BY <1>1, <1>2
     DEF OutreachInit, OutreachTypes, Placed, Approvals, ApprovalStatuses, NoApproval, Locals,
         Places,
     Idle, Ranked

\* A worker moves to a place that fits its task.
LEMMA Moves ==
  ASSUME OutreachTypes, NEW w \in Workers, NEW new \in Locals, Placed(new),
         local' = [local EXCEPT ![w] = new], UNCHANGED order
  PROVE  local' \in [Workers -> Locals] /\ \A v \in Workers : Placed(local[v])'
BY DEF OutreachTypes, Placed

\* It moves on with the task, contact and version that it has.
LEMMA GoesTo ==
  ASSUME OutreachTypes, NEW w \in Workers, NEW step \in Places,
         Placed([local[w] EXCEPT !.pc = step]), Goto(w, step), UNCHANGED order
  PROVE  local' \in [Workers -> Locals] /\ \A v \in Workers : Placed(local[v])'
<1> DEFINE new == [local[w] EXCEPT !.pc = step]
<1>1. local[w] \in Locals
  BY DEF OutreachTypes
<1>2. new \in Locals /\ local' = [local EXCEPT ![w] = new]
  BY <1>1 DEF Locals, Goto
<1>3. QED
  BY <1>2, Moves

LEMMA Leaves ==
  ASSUME OutreachTypes, NEW w \in Workers, Leave(w), UNCHANGED order
  PROVE  local' \in [Workers -> Locals] /\ \A v \in Workers : Placed(local[v])'
<1>1. Idle \in Locals /\ Placed(Idle)
  BY DEF Idle, Locals, Places, Placed, Ranked
<1>2. QED
  BY <1>1, Moves DEF Leave

LEMMA HasDraft ==
  ASSUME OutreachTypes, NEW w \in Workers,
         \/ local[w].pc \in Ranked
         \/ local[w].pc \in {"send", "review", "sent", "wait"}
  PROVE  Draft(w) \in Drafts
<1>1. local[w].task = Connect \/ local[w].task \in Drafts
  BY DraftsAssumption DEF OutreachTypes, Placed, Ranked
<1>2. CASE local[w].task = Connect
  <2>1. order \in Seq(Drafts) /\ local[w].at \in DOMAIN order
    BY <1>2, DraftsAssumption DEF OutreachTypes, Placed
  <2>2. QED
    BY <1>2, <2>1 DEF Draft
<1>3. CASE local[w].task \in Drafts
  BY <1>3, DraftsAssumption DEF Draft
<1>4. QED
  BY <1>1, <1>2, <1>3

LEMMA CallIsOne ==
  ASSUME OutreachTypes, NEW w \in Workers, local[w].pc \in {"call", "record"}
  PROVE  CallOf(w) \in Calls
<1>1. Draft(w) \in Drafts /\ local[w].version \in Versions
  BY HasDraft DEF OutreachTypes, Placed, Ranked
<1>2. QED
  BY <1>1 DEF CallOf, Calls

\* Workers, taken alone.
WorkersPlaced == local' \in [Workers -> Locals] /\ \A v \in Workers : Placed(local[v])'

LEMMA WorkersStep ==
  ASSUME OutreachTypes, [OutreachNext]_outreachVars
  PROVE  UNCHANGED order /\ WorkersPlaced
<1> USE DEF WorkersPlaced
<1>1. UNCHANGED order
  <2>1. ASSUME NEW w \in Workers,
               Work(w) \/ AttemptFails(w) \/ StopOutreach(w) \/ CrashOutreach(w)
        PROVE  UNCHANGED order
    BY <2>1, Zenon
       DEF Work, ClaimOutreach, ClaimTask, Capture, AttemptFails, StopOutreach, BeginDraft,
           CreateDraft,
       SendDraft, CallGmail, RecordDraft, BindApproval, BindManual, Bind, RequestApproval,
       CompleteConnector, BeginSend, RefuseSend, InvalidateSend, MissingDraft, SettingsRefuse,
       DraftsDisabled, RecordSend, ReviewManual,
       CompleteOutreach, WaitForHuman, FailConnector, OutreachLeaseLost, CrashOutreach
  <2>2. ASSUME RecoverOutreach \/ RecoverMail \/ DecideOutreach \/ OperatorResumes \/ Overdue \/ ContentChanges
        PROVE  UNCHANGED order
    BY <2>2, Zenon
       DEF RecoverOutreach, RecoverRow, RecoverMail, DecideOutreach, OperatorResumes, Overdue,
       ContentChanges
  <2>3. QED
    BY <2>1, <2>2 DEF OutreachNext, outreachVars
<1>2. CASE UNCHANGED local
  BY <1>1, <1>2 DEF OutreachTypes, Placed
<1>3. ASSUME NEW w \in Workers, Leave(w) PROVE WorkersPlaced
  BY <1>1, <1>3, Leaves
<1>4. ASSUME NEW w \in Workers, NEW t \in Tasks, ClaimTask(w, t) PROVE WorkersPlaced
  <2> DEFINE step == IF t = Connect THEN "capture" ELSE IF Channel[t] = "EMAIL" THEN "send" ELSE "review"
             new == [Idle EXCEPT !.task = t, !.pc = step]
  <2>1. new \in Locals /\ new.pc = step /\ new.task = t /\ new.at = 1
    BY DEF Idle, Locals, Places
  <2>2. Placed(new)
    BY <2>1, DraftsAssumption DEF Placed, Ranked
  <2>3. local' = [local EXCEPT ![w] = new]
    BY <1>4 DEF ClaimTask
  <2>4. QED
    BY <1>1, <2>1, <2>2, <2>3, Moves
<1>5. ASSUME NEW w \in Workers, NEW step \in Places, Goto(w, step), Placed([local[w] EXCEPT !.pc = step])
      PROVE  WorkersPlaced
  BY <1>1, <1>5, GoesTo
<1>6. ASSUME NEW w \in Workers, Capture(w) PROVE WorkersPlaced
  <2>1. PICK step \in {"connected", "draft"} : Goto(w, step) /\ (step = "draft" => order # <<>>)
    BY <1>6 DEF Capture
  <2>2. Placed([local[w] EXCEPT !.pc = step])
    BY <1>6, <2>1 DEF Capture, At, OutreachTypes, Locals, Placed, Ranked
  <2>3. QED
    BY <1>5, <2>1, <2>2 DEF Places
<1>7. ASSUME NEW w \in Workers, BeginDraft(w) PROVE WorkersPlaced
  <2>1. CASE \E step \in {"bind", "raise"} : Goto(w, step)
    <3>1. PICK step \in {"bind", "raise"} : Goto(w, step)
      BY <2>1
    <3>2. Placed([local[w] EXCEPT !.pc = step])
      BY <1>7 DEF BeginDraft, At, OutreachTypes, Locals, Placed, Ranked
    <3>3. QED
      BY <1>5, <3>1, <3>2 DEF Places
  <2>2. CASE local' = [local EXCEPT ![w].pc = "call", ![w].version = version[Draft(w)]]
    <3> DEFINE new == [local[w] EXCEPT !.pc = "call", !.version = version[Draft(w)]]
    <3>1. local[w].pc = "draft" /\ version[Draft(w)] \in Versions
      BY <1>7, HasDraft DEF BeginDraft, At, OutreachTypes, Ranked
    <3>2. local[w] \in Locals /\ Placed(local[w]) /\ version[Draft(w)] \in Nat
      BY <3>1, VersionAssumption DEF OutreachTypes, Versions
    <3>3. new \in Locals /\ Placed(new)
      BY <3>1, <3>2 DEF Locals, Places, Placed, Ranked
    <3>4. QED
      BY <1>1, <2>2, <3>3, Moves
  <2>3. QED
    BY <1>7, <2>1, <2>2 DEF BeginDraft
<1>8. ASSUME NEW w \in Workers, CallGmail(w) PROVE WorkersPlaced
  <2>1. PICK answer \in {"CONFIRMED", "UNKNOWN"} :
          local' = [local EXCEPT ![w].pc = "record", ![w].answer = answer]
    BY <1>8 DEF CallGmail
  <2> DEFINE new == [local[w] EXCEPT !.pc = "record", !.answer = answer]
  <2>2. local[w] \in Locals /\ Placed(local[w]) /\ local[w].pc = "call"
    BY <1>8 DEF CallGmail, At, OutreachTypes
  <2>3. new \in Locals
    BY <2>2 DEF Locals, Places
  <2>4. Placed(new)
    BY <2>2 DEF Locals, Placed, Ranked
  <2>5. QED
    BY <1>1, <2>1, <2>3, <2>4, Moves
<1>9. ASSUME NEW w \in Workers, RecordDraft(w) \/ RecordSend(w) PROVE WorkersPlaced
  <2>1. PICK step \in {"bind", "raise", "sent", "wait"} :
          /\ local' = [local EXCEPT ![w].pc = step, ![w].version = 0, ![w].answer = "none"]
          /\ local[w].pc = "record"
          /\ step \in {"bind", "raise"} => local[w].task = Connect
          /\ step \in {"sent", "wait"} => local[w].task \in Drafts
    BY <1>9 DEF RecordDraft, RecordSend, At
  <2> DEFINE new == [local[w] EXCEPT !.pc = step, !.version = 0, !.answer = "none"]
  <2>2. local[w] \in Locals /\ Placed(local[w])
    BY DEF OutreachTypes
  <2>3. new \in Locals
    BY <2>1, <2>2 DEF Locals, Places
  <2>4. Placed(new)
    BY <2>1, <2>2 DEF Locals, Placed, Ranked
  <2>5. QED
    BY <1>1, <2>1, <2>3, <2>4, Moves
<1>10. ASSUME NEW w \in Workers, BindApproval(w) \/ BindManual(w) PROVE WorkersPlaced
  <2>1. PICK step \in {"raise", "ask"} : Goto(w, step)
    BY <1>10 DEF BindApproval, BindManual, Bind
  <2>2. Placed([local[w] EXCEPT !.pc = step])
    BY <1>10, <2>1 DEF BindApproval, BindManual, At, OutreachTypes, Locals, Placed, Ranked
  <2>3. QED
    BY <1>5, <2>1, <2>2 DEF Places
<1>11. ASSUME NEW w \in Workers, RequestApproval(w) PROVE WorkersPlaced
  <2>1. /\ local[w] \in Locals /\ local[w].pc = "ask" /\ local[w].task = Connect
        /\ local[w].at \in 1 .. Len(order) /\ Len(order) \in Nat
    BY <1>11, DraftsAssumption DEF RequestApproval, At, OutreachTypes, Placed, Ranked
  <2>2. CASE local[w].at = Len(order)
    <3>1. Goto(w, "connected")
      BY <1>11, <2>2 DEF RequestApproval, Goto
    <3>2. Placed([local[w] EXCEPT !.pc = "connected"])
      BY <2>1, DraftsAssumption DEF Locals, Placed, Ranked
    <3>3. QED
      BY <1>5, <3>1, <3>2 DEF Places
  <2>3. CASE local[w].at # Len(order)
    <3> DEFINE new == [local[w] EXCEPT !.pc = "draft", !.at = @ + 1]
    <3>1. local' = [local EXCEPT ![w] = new]
      BY <1>11, <2>3 DEF RequestApproval
    <3>2. new \in Locals /\ new.at \in 1 .. Len(order) /\ new.pc = "draft" /\ new.task = Connect
      <4> DEFINE next == local[w].at + 1
      <4>1. next \in 1 .. Len(order) /\ next \in Nat
        BY <2>1, <2>3
      <4>2. new = [local[w] EXCEPT !.pc = "draft", !.at = next]
        OBVIOUS
      <4> HIDE DEF next
      <4>3. new \in Locals /\ new.at = next /\ new.pc = "draft" /\ new.task = Connect
        BY <2>1, <4>1, <4>2 DEF Locals, Places
      <4>4. QED
        BY <4>1, <4>3
    <3>3. DOMAIN order = 1 .. Len(order) /\ Connect \in Tasks
      BY DraftsAssumption DEF OutreachTypes
    <3>4. Placed(new)
      BY <3>2, <3>3 DEF Placed
    <3>5. QED
      BY <1>1, <3>1, <3>2, <3>4, Moves
  <2>4. QED
    BY <2>2, <2>3
<1>12. ASSUME NEW w \in Workers, BeginSend(w) PROVE WorkersPlaced
  <2> DEFINE new == [local[w] EXCEPT !.pc = "call", !.version = version[Draft(w)]]
  <2>1. /\ local[w].pc = "send" /\ version[Draft(w)] \in Versions
        /\ local' = [local EXCEPT ![w] = new]
    BY <1>12, HasDraft DEF BeginSend, At, OutreachTypes
  <2>2. local[w] \in Locals /\ Placed(local[w]) /\ version[Draft(w)] \in Nat
    BY <2>1, VersionAssumption DEF OutreachTypes, Versions
  <2>3. new \in Locals /\ Placed(new)
    BY <2>1, <2>2, DraftsAssumption DEF Locals, Places, Placed, Ranked
  <2>4. QED
    BY <1>1, <2>1, <2>3, Moves
<1>13. ASSUME NEW w \in Workers,
              RefuseSend(w) \/ InvalidateSend(w) \/ MissingDraft(w) \/ SettingsRefuse(w) \/ ReviewManual(w)
       PROVE  WorkersPlaced
  <2>1. PICK step \in {"sent", "wait"} : Goto(w, step)
    BY <1>13
       DEF RefuseSend, InvalidateSend, MissingDraft, SettingsRefuse, DraftsDisabled, ReviewManual
  <2>2. Placed([local[w] EXCEPT !.pc = step])
    BY <1>13, <2>1
       DEF RefuseSend, InvalidateSend, MissingDraft, SettingsRefuse, DraftsDisabled, ReviewManual,
           At, OutreachTypes,
       Locals, Placed, Ranked
  <2>3. QED
    BY <1>5, <2>1, <2>2 DEF Places
<1>17. ASSUME NEW w \in Workers, DraftsDisabled(w) PROVE WorkersPlaced
  <2>1. Placed([local[w] EXCEPT !.pc = "raise"])
    BY <1>17 DEF DraftsDisabled, At, OutreachTypes, Locals, Placed, Ranked
  <2>2. QED
    BY <1>5, <1>17, <2>1 DEF DraftsDisabled, Places
<1>14. CASE UNCHANGED outreachVars
  BY <1>2, <1>14 DEF outreachVars
<1>15. ASSUME OutreachNext PROVE WorkersPlaced
  <2>1. ASSUME NEW w \in Workers,
               Work(w) \/ AttemptFails(w) \/ StopOutreach(w) \/ CrashOutreach(w)
        PROVE  WorkersPlaced
    BY <2>1, <1>3, <1>4, <1>6, <1>7, <1>8, <1>9, <1>10, <1>11, <1>12, <1>13, <1>17
       DEF Work, ClaimOutreach, CreateDraft, SendDraft, AttemptFails, StopOutreach, CrashOutreach,
           CompleteConnector,
           CompleteOutreach, WaitForHuman, FailConnector, OutreachLeaseLost
  <2>2. ASSUME RecoverOutreach \/ RecoverMail \/ DecideOutreach \/ OperatorResumes \/ Overdue \/ ContentChanges
        PROVE  UNCHANGED local
    BY <2>2 DEF RecoverOutreach, RecoverRow, RecoverMail, DecideOutreach, OperatorResumes, Overdue,
       ContentChanges
  <2>3. QED
    BY <1>2, <1>15, <2>1, <2>2 DEF OutreachNext
<1>16. QED
  BY <1>1, <1>14, <1>15

\* The steps that change an approval, and those that change a draft's status.
Approves(w) == Bind(w) \/ RequestApproval(w) \/ BeginSend(w) \/ InvalidateSend(w) \/ ReviewManual(w)
Drafted(w) == Capture(w) \/ BeginSend(w) \/ InvalidateSend(w) \/ RecordSend(w) \/ ReviewManual(w)

LEMMA ApprovalFrame ==
  ASSUME [OutreachNext]_outreachVars, approval' # approval
  PROVE  (\E w \in Workers : Approves(w)) \/ DecideOutreach \/ Overdue
<1>1. ASSUME NEW w \in Workers,
             Work(w) \/ AttemptFails(w) \/ StopOutreach(w) \/ CrashOutreach(w), ~Approves(w)
      PROVE  UNCHANGED approval
  BY <1>1, Zenon
     DEF Approves, Work, ClaimOutreach, ClaimTask, Capture, AttemptFails, StopOutreach, BeginDraft,
     CreateDraft, SendDraft, CallGmail, RecordDraft, BindApproval, BindManual, CompleteConnector,
     RefuseSend, MissingDraft, SettingsRefuse, DraftsDisabled, RecordSend, CompleteOutreach,
     WaitForHuman, FailConnector,
     OutreachLeaseLost, CrashOutreach, draftVars
<1>2. ASSUME RecoverOutreach \/ RecoverMail \/ OperatorResumes \/ ContentChanges PROVE UNCHANGED approval
  BY <1>2, Zenon
     DEF RecoverOutreach, RecoverRow, RecoverMail, OperatorResumes, ContentChanges, draftVars
<1>3. CASE UNCHANGED outreachVars
  BY <1>3 DEF outreachVars, draftVars
<1>4. QED
  BY <1>1, <1>2, <1>3 DEF OutreachNext

LEMMA DraftFrame ==
  ASSUME [OutreachNext]_outreachVars, draft' # draft
  PROVE  \E w \in Workers : Drafted(w)
<1>1. ASSUME NEW w \in Workers,
             Work(w) \/ AttemptFails(w) \/ StopOutreach(w) \/ CrashOutreach(w), ~Drafted(w)
      PROVE  UNCHANGED draft
  BY <1>1, Zenon
     DEF Drafted, Work, ClaimOutreach, ClaimTask, AttemptFails, StopOutreach, BeginDraft,
         CreateDraft,
     SendDraft, CallGmail, RecordDraft, BindApproval, BindManual, Bind, RequestApproval,
     CompleteConnector, RefuseSend, MissingDraft, SettingsRefuse, DraftsDisabled,
     CompleteOutreach, WaitForHuman, FailConnector,
     OutreachLeaseLost, CrashOutreach, draftVars
<1>2. ASSUME RecoverOutreach \/ RecoverMail \/ DecideOutreach \/ OperatorResumes \/ Overdue \/ ContentChanges
      PROVE  UNCHANGED draft
  BY <1>2, Zenon
     DEF RecoverOutreach, RecoverRow, RecoverMail, DecideOutreach, OperatorResumes, Overdue,
     ContentChanges, draftVars
<1>3. CASE UNCHANGED outreachVars
  BY <1>3 DEF outreachVars, draftVars
<1>4. QED
  BY <1>1, <1>2, <1>3 DEF OutreachNext

LEMMA DraftsStep ==
  ASSUME OutreachTypes, [OutreachNext]_outreachVars
  PROVE  /\ draft' \in [Drafts -> {"NONE", "READY_FOR_REVIEW", "APPROVED", "REJECTED", "SENT"}]
         /\ version' \in [Drafts -> Versions]
<1>1. version' \in [Drafts -> Versions]
  <2>1. CASE ContentChanges
    BY <2>1, VersionAssumption DEF ContentChanges, OutreachTypes, Versions
  <2>2. CASE UNCHANGED version
    BY <2>2 DEF OutreachTypes
  <2>3. ASSUME NEW w \in Workers,
               Work(w) \/ AttemptFails(w) \/ StopOutreach(w) \/ CrashOutreach(w)
        PROVE  UNCHANGED version
    BY <2>3, Zenon
       DEF Work, ClaimOutreach, ClaimTask, Capture, AttemptFails, StopOutreach, BeginDraft,
           CreateDraft,
       SendDraft, CallGmail, RecordDraft, BindApproval, BindManual, Bind, RequestApproval,
       CompleteConnector, BeginSend, RefuseSend, InvalidateSend, MissingDraft, SettingsRefuse,
       DraftsDisabled, RecordSend, ReviewManual,
       CompleteOutreach, WaitForHuman, FailConnector, OutreachLeaseLost, CrashOutreach, draftVars
  <2>4. ASSUME RecoverOutreach \/ RecoverMail \/ DecideOutreach \/ OperatorResumes \/ Overdue
        PROVE  UNCHANGED version
    BY <2>4, Zenon
       DEF RecoverOutreach, RecoverRow, RecoverMail, DecideOutreach, OperatorResumes, Overdue,
       draftVars
  <2>5. QED
    BY <2>1, <2>2, <2>3, <2>4 DEF OutreachNext, outreachVars, draftVars
<1>2. draft' \in [Drafts -> {"NONE", "READY_FOR_REVIEW", "APPROVED", "REJECTED", "SENT"}]
  <2>1. ASSUME NEW w \in Workers,
               Capture(w) \/ BeginSend(w) \/ InvalidateSend(w) \/ RecordSend(w) \/ ReviewManual(w)
        PROVE  draft' \in [Drafts -> {"NONE", "READY_FOR_REVIEW", "APPROVED", "REJECTED", "SENT"}]
    BY <2>1 DEF Capture, BeginSend, InvalidateSend, RecordSend, ReviewManual, OutreachTypes
  <2>2. CASE UNCHANGED draft
    BY <2>2 DEF OutreachTypes
  <2>3. QED
    BY <2>1, <2>2, DraftFrame DEF Drafted
<1>3. QED
  BY <1>1, <1>2

LEMMA ApprovalsStep ==
  ASSUME OutreachTypes, [OutreachNext]_outreachVars
  PROVE  approval' \in [Drafts -> Approvals]
<1>1. ASSUME NEW w \in Workers, Bind(w) PROVE approval' \in [Drafts -> Approvals]
  <2>1. CASE UNCHANGED approval
    BY <2>1 DEF OutreachTypes
  <2>2. CASE Put(Draft(w))
    <3> DEFINE new == [NoApproval EXCEPT !.status = "PENDING", !.version = version[Draft(w)]]
    <3>1. Draft(w) \in Drafts
      BY <1>1, HasDraft DEF Bind, At, Ranked
    <3>2. version[Draft(w)] \in Nat
      BY <3>1, VersionAssumption DEF OutreachTypes, Versions
    <3>3. new \in Approvals
      BY <3>2 DEF NoApproval, Approvals, ApprovalStatuses
    <3>4. QED
      BY <2>2, <3>3 DEF Put, OutreachTypes
  <2>3. QED
    BY <1>1, <2>1, <2>2 DEF Bind
<1>2. ASSUME NEW w \in Workers, RequestApproval(w) PROVE approval' \in [Drafts -> Approvals]
  BY <1>2 DEF RequestApproval, OutreachTypes, Approvals
<1>3. ASSUME NEW w \in Workers, BeginSend(w) \/ InvalidateSend(w) \/ ReviewManual(w)
      PROVE  approval' \in [Drafts -> Approvals]
  <2>1. \/ UNCHANGED approval
        \/ \E d, status : /\ approval' = [approval EXCEPT ![d].status = status]
                          /\ status \in ApprovalStatuses
    BY <1>3 DEF BeginSend, InvalidateSend, ReviewManual, ApprovalStatuses
  <2>2. ASSUME NEW d, NEW status \in ApprovalStatuses, approval' = [approval EXCEPT ![d].status = status]
        PROVE  approval' \in [Drafts -> Approvals]
    <3>1. \A e \in Drafts : approval[e] \in Approvals
      BY DEF OutreachTypes
    <3>2. \A e \in Drafts : [approval[e] EXCEPT !.status = status] \in Approvals
      BY <3>1 DEF Approvals
    <3>3. QED
      BY <2>2, <3>1, <3>2 DEF OutreachTypes
  <2>3. QED
    BY <2>1, <2>2 DEF OutreachTypes
<1>4. CASE DecideOutreach
  <2>1. PICK d \in Drafts, status \in ApprovalStatuses : approval' = [approval EXCEPT ![d].status = status]
    BY <1>4 DEF DecideOutreach, ApprovalStatuses
  <2>2. \A e \in Drafts : approval[e] \in Approvals
    BY DEF OutreachTypes
  <2>3. [approval[d] EXCEPT !.status = status] \in Approvals
    BY <2>2 DEF Approvals
  <2>4. QED
    BY <2>1, <2>2, <2>3 DEF OutreachTypes
<1>5. CASE Overdue
  <2>1. PICK d \in Drafts : approval' = [approval EXCEPT ![d].overdue = TRUE]
    BY <1>5 DEF Overdue
  <2>2. \A e \in Drafts : approval[e] \in Approvals
    BY DEF OutreachTypes
  <2>3. [approval[d] EXCEPT !.overdue = TRUE] \in Approvals
    BY <2>2 DEF Approvals
  <2>4. QED
    BY <2>1, <2>2, <2>3 DEF OutreachTypes
<1>6. CASE UNCHANGED approval
  BY <1>6 DEF OutreachTypes
<1>7. QED
  BY <1>1, <1>2, <1>3, <1>4, <1>5, <1>6, ApprovalFrame DEF Approves

LEMMA MailTypesStep ==
  ASSUME OutreachTypes, [OutreachNext]_outreachVars
  PROVE  /\ ledger' \in [Calls -> {"NONE", "EXECUTING", "SUCCEEDED", "UNKNOWN_RESULT"}]
         /\ happened' \in [Calls -> Nat]
<1> DEFINE MailTypes == /\ ledger \in [Calls -> {"NONE", "EXECUTING", "SUCCEEDED", "UNKNOWN_RESULT"}]
                        /\ happened \in [Calls -> Nat]
<1> SUFFICES MailTypes'
  OBVIOUS
<1>1. MailTypes
  BY DEF OutreachTypes
<1>2. ASSUME NEW w \in Workers, CallGmail(w) PROVE MailTypes'
  BY <1>1, <1>2 DEF CallGmail
<1>3. ASSUME NEW w \in Workers, BeginDraft(w) \/ RecordDraft(w) \/ BeginSend(w) \/ RecordSend(w)
      PROVE  MailTypes'
  BY <1>1, <1>3 DEF BeginDraft, RecordDraft, BeginSend, RecordSend
<1>4. CASE RecoverMail
  BY <1>1, <1>4 DEF RecoverMail
<1>5. CASE UNCHANGED mailVars
  BY <1>1, <1>5 DEF mailVars
<1>6. QED
  BY <1>2, <1>3, <1>4, <1>5
     DEF OutreachNext, Work, ClaimOutreach, ClaimTask, Capture, AttemptFails, StopOutreach,
     CreateDraft, SendDraft, BindApproval, BindManual, Bind, RequestApproval, CompleteConnector,
     RefuseSend, InvalidateSend, MissingDraft, SettingsRefuse, DraftsDisabled, ReviewManual,
     CompleteOutreach, WaitForHuman,
     FailConnector, OutreachLeaseLost, CrashOutreach, RecoverOutreach, RecoverRow, DecideOutreach,
     OperatorResumes, Overdue, ContentChanges, outreachVars

LEMMA OutreachTypesStep ==
  ASSUME OutreachTypes, [OutreachNext]_outreachVars
  PROVE  OutreachTypes'
<1>1. order' \in Seq(Drafts)
  BY WorkersStep DEF OutreachTypes
<1>2. QED
  BY <1>1, WorkersStep, DraftsStep, ApprovalsStep, MailTypesStep DEF OutreachTypes, WorkersPlaced

-----------------------------------------------------------------------------
(* Calls *)

\* Nothing of the calls changes: a worker stays as it is or has none in hand.
LEMMA CallsQuiet ==
  ASSUME CallInv, UNCHANGED <<order, mailVars>>,
         \A v \in Workers : local'[v] = local[v] \/ local'[v].pc \notin {"call", "record"}
  PROVE  CallInv'
<1>1. \A v \in Workers, c \in Calls : Holds(v, c)' => Holds(v, c) /\ local'[v] = local[v]
  BY DEF Holds, CallOf, Draft
<1>2. ledger' = ledger /\ happened' = happened
  BY DEF mailVars
<1>3. QED
  BY <1>1, <1>2 DEF CallInv

\* Only one row of the ledger or of the world changes, and only for its holder.
LEMMA CallsOfOne ==
  ASSUME OutreachTypes, CallInv, NEW w \in Workers, NEW c \in Calls, UNCHANGED order,
         \A v \in Workers : v # w => local'[v] = local[v] /\ ~Holds(v, c),
         \A x \in Calls : x # c => ledger'[x] = ledger[x] /\ happened'[x] = happened[x],
         \A x \in Calls : Holds(w, x)' => x = c,
         ledger'[c] = "NONE" => happened'[c] = 0,
         ledger'[c] = "SUCCEEDED" => happened'[c] = 1,
         happened'[c] \in {0, 1},
         Holds(w, c)' => /\ ledger'[c] \in {"EXECUTING", "UNKNOWN_RESULT"}
                         /\ local'[w].pc = "call" => happened'[c] = 0
                         /\ local'[w].pc = "record" /\ local'[w].answer = "CONFIRMED" => happened'[c] = 1
  PROVE  CallInv'
<1>1. ASSUME NEW v \in Workers, v # w, NEW x \in Calls, Holds(v, x)'
      PROVE  Holds(v, x) /\ x # c /\ local'[v] = local[v]
  BY <1>1 DEF Holds, CallOf, Draft
<1>2. ASSUME NEW x \in Calls
      PROVE  /\ ledger'[x] = "NONE" => happened'[x] = 0
             /\ ledger'[x] = "SUCCEEDED" => happened'[x] = 1
             /\ happened'[x] \in {0, 1}
  BY DEF CallInv
<1>3. ASSUME NEW x \in Calls, NEW v \in Workers, Holds(v, x)'
      PROVE  /\ ledger'[x] \in {"EXECUTING", "UNKNOWN_RESULT"}
             /\ local'[v].pc = "call" => happened'[x] = 0
             /\ local'[v].pc = "record" /\ local'[v].answer = "CONFIRMED" => happened'[x] = 1
  BY <1>1, <1>3 DEF CallInv
<1>4. ASSUME NEW x \in Calls, NEW u \in Workers, NEW v \in Workers, Holds(u, x)', Holds(v, x)' PROVE u = v
  BY <1>1, <1>4 DEF CallInv
<1>5. QED
  BY <1>2, <1>3, <1>4 DEF CallInv

\* BeginDraft and BeginSend.
LEMMA CallBegins ==
  ASSUME OutreachTypes, CallInv, NEW w \in Workers, NEW c \in Calls, ledger[c] = "NONE",
         ledger' = [ledger EXCEPT ![c] = "EXECUTING"], UNCHANGED <<order, happened>>,
         \A v \in Workers : v # w => local'[v] = local[v],
         local'[w].pc = "call", CallOf(w)' = c
  PROVE  CallInv'
<1>1. \A v \in Workers : ~Holds(v, c)
  BY DEF CallInv
<1>2. \A x \in Calls : Holds(w, x)' => x = c
  BY DEF Holds
<1>3. ledger'[c] = "EXECUTING" /\ \A x \in Calls : x # c => ledger'[x] = ledger[x]
  BY DEF OutreachTypes
<1>4. happened'[c] = 0
  BY DEF CallInv
<1>5. QED
  BY <1>1, <1>2, <1>3, <1>4, CallsOfOne

LEMMA CallHappens ==
  ASSUME OutreachTypes, CallInv, NEW w \in Workers, CallGmail(w)
  PROVE  /\ CallInv'
         /\ CallOf(w) \in Calls /\ Holds(w, CallOf(w)) /\ happened[CallOf(w)] = 0
         /\ happened'[CallOf(w)] \in {0, 1} /\ UNCHANGED ledger
         /\ \A x \in Calls : x # CallOf(w) => happened'[x] = happened[x]
<1> DEFINE c == CallOf(w)
<1>1. /\ c \in Calls /\ Holds(w, c) /\ local[w].pc = "call"
      /\ \A v \in Workers : v # w => ~Holds(v, c)
  BY CallIsOne DEF CallGmail, At, Holds, CallInv
<1>2. happened[c] = 0 /\ ledger[c] \in {"EXECUTING", "UNKNOWN_RESULT"} /\ UNCHANGED <<order, ledger>>
  BY <1>1 DEF CallInv, CallGmail
<1>3. PICK answer \in {"CONFIRMED", "UNKNOWN"}, done \in {0, 1} :
        /\ happened' = [happened EXCEPT ![c] = @ + done]
        /\ local' = [local EXCEPT ![w].pc = "record", ![w].answer = answer]
        /\ answer = "CONFIRMED" => done = 1
  BY DEF CallGmail
<1>4. happened'[c] = done /\ \A x \in Calls : x # c => happened'[x] = happened[x]
  BY <1>1, <1>2, <1>3 DEF OutreachTypes
<1>5. /\ \A v \in Workers : v # w => local'[v] = local[v]
      /\ local'[w].pc = "record" /\ local'[w].answer = answer
      /\ local'[w].task = local[w].task /\ local'[w].at = local[w].at
      /\ local'[w].version = local[w].version
  BY <1>3 DEF OutreachTypes, Locals
<1>6. CallOf(w)' = c
  BY <1>2, <1>5 DEF CallOf, Draft
<1>7. \A x \in Calls : Holds(w, x)' => x = c
  BY <1>6 DEF Holds
<1>8. /\ ledger'[c] \in {"EXECUTING", "UNKNOWN_RESULT"} /\ happened'[c] \in {0, 1}
      /\ local'[w].answer = "CONFIRMED" => happened'[c] = 1
      /\ \A x \in Calls : x # c => ledger'[x] = ledger[x]
  BY <1>2, <1>3, <1>4, <1>5
<1>9. UNCHANGED order /\ ledger'[c] # "NONE" /\ ledger'[c] # "SUCCEEDED" /\ local'[w].pc # "call"
  BY <1>2, <1>5, <1>8
<1> HIDE DEF c
<1>10. CallInv'
  BY <1>1, <1>4, <1>5, <1>7, <1>8, <1>9, CallsOfOne
<1>11. QED
  BY <1>1, <1>2, <1>4, <1>8, <1>10 DEF c

LEMMA CallRecorded ==
  ASSUME OutreachTypes, CallInv, NEW w \in Workers, RecordDraft(w) \/ RecordSend(w)
  PROVE  /\ CallInv'
         /\ CallOf(w) \in Calls /\ Holds(w, CallOf(w)) /\ UNCHANGED happened
         /\ ledger[CallOf(w)] \in {"EXECUTING", "UNKNOWN_RESULT"}
         /\ ledger'[CallOf(w)] = IF local[w].answer = "CONFIRMED" THEN "SUCCEEDED" ELSE "UNKNOWN_RESULT"
         /\ local[w].answer = "CONFIRMED" => happened[CallOf(w)] = 1
         /\ \A x \in Calls : x # CallOf(w) => ledger'[x] = ledger[x]
<1> DEFINE c == CallOf(w)
<1>1. /\ c \in Calls /\ Holds(w, c) /\ local[w].pc = "record"
      /\ \A v \in Workers : v # w => ~Holds(v, c)
  BY CallIsOne DEF RecordDraft, RecordSend, At, Holds, CallInv
<1>2. /\ happened[c] \in {0, 1} /\ ledger[c] \in {"EXECUTING", "UNKNOWN_RESULT"}
      /\ local[w].answer = "CONFIRMED" => happened[c] = 1
      /\ UNCHANGED <<order, happened>>
  BY <1>1 DEF CallInv, RecordDraft, RecordSend
<1>3. ledger' = [ledger EXCEPT ![c] = IF local[w].answer = "CONFIRMED" THEN "SUCCEEDED" ELSE "UNKNOWN_RESULT"]
  BY DEF RecordDraft, RecordSend
<1>4. /\ ledger'[c] = IF local[w].answer = "CONFIRMED" THEN "SUCCEEDED" ELSE "UNKNOWN_RESULT"
      /\ \A x \in Calls : x # c => ledger'[x] = ledger[x]
  BY <1>1, <1>3 DEF OutreachTypes
<1>5. local'[w].pc \notin {"call", "record"} /\ \A v \in Workers : v # w => local'[v] = local[v]
  BY DEF RecordDraft, RecordSend, OutreachTypes, Locals
<1>6. \A x \in Calls : ~Holds(w, x)'
  BY <1>5 DEF Holds
<1>7. CallInv'
  BY <1>1, <1>2, <1>4, <1>5, <1>6, CallsOfOne
<1>8. QED
  BY <1>1, <1>2, <1>4, <1>7

LEMMA DraftCallBegins ==
  ASSUME OutreachTypes, NEW w \in Workers, BeginDraft(w), ~UNCHANGED ledger
  PROVE  LET c == <<"GMAIL_CREATE_DRAFT", Draft(w), version[Draft(w)]>>
         IN  /\ c \in Calls /\ ledger[c] = "NONE" /\ ledger' = [ledger EXCEPT ![c] = "EXECUTING"]
             /\ \A v \in Workers : v # w => local'[v] = local[v]
             /\ local'[w].pc = "call" /\ CallOf(w)' = c
             /\ UNCHANGED <<order, approval, draft, happened>>
<1> DEFINE c == <<"GMAIL_CREATE_DRAFT", Draft(w), version[Draft(w)]>>
<1>1. local[w].pc = "draft" /\ local[w].task = Connect
  BY DEF BeginDraft, At, OutreachTypes, Placed
<1>2. c \in Calls
  BY <1>1, HasDraft DEF Calls, OutreachTypes, Ranked
<1>3. /\ ledger[c] = "NONE" /\ ledger' = [ledger EXCEPT ![c] = "EXECUTING"]
      /\ local' = [local EXCEPT ![w].pc = "call", ![w].version = version[Draft(w)]]
      /\ UNCHANGED <<order, approval, draft, happened>>
  BY DEF BeginDraft, draftVars
<1>4. /\ \A v \in Workers : v # w => local'[v] = local[v]
      /\ local'[w] = [local[w] EXCEPT !.pc = "call", !.version = version[Draft(w)]]
  BY <1>3 DEF OutreachTypes
<1>5. /\ local'[w].pc = "call" /\ local'[w].version = version[Draft(w)]
      /\ local'[w].task = local[w].task /\ local'[w].at = local[w].at
  BY <1>4 DEF OutreachTypes, Locals
<1>6. CallOf(w)' = c
  BY <1>1, <1>3, <1>5 DEF CallOf, Draft
<1>7. QED
  BY <1>2, <1>3, <1>4, <1>5, <1>6

LEMMA SendBegins ==
  ASSUME OutreachTypes, NEW w \in Workers, BeginSend(w)
  PROVE  LET c == <<"SEND_EMAIL", Draft(w), version[Draft(w)]>>
         IN  /\ c \in Calls /\ ledger[c] = "NONE" /\ ledger' = [ledger EXCEPT ![c] = "EXECUTING"]
             /\ \A v \in Workers : v # w => local'[v] = local[v]
             /\ local'[w].pc = "call" /\ CallOf(w)' = c
             /\ Draft(w) \in Drafts /\ Channel[Draft(w)] = "EMAIL"
             /\ approval[Draft(w)].status = "APPROVED" /\ approval[Draft(w)].version = version[Draft(w)]
             /\ approval' = [approval EXCEPT ![Draft(w)].status = "CONSUMED"]
             /\ draft' = [draft EXCEPT ![Draft(w)] = "APPROVED"]
             /\ UNCHANGED <<order, happened>>
<1> DEFINE c == <<"SEND_EMAIL", Draft(w), version[Draft(w)]>>
<1>1. /\ local[w].pc = "send" /\ local[w].task \in Drafts /\ local[w].task # Connect
      /\ Channel[local[w].task] = "EMAIL"
  BY DraftsAssumption DEF BeginSend, At, OutreachTypes, Placed
<1>2. c \in Calls /\ Draft(w) = local[w].task
  BY <1>1 DEF Calls, OutreachTypes, Draft
<1>3. /\ ledger[c] = "NONE" /\ ledger' = [ledger EXCEPT ![c] = "EXECUTING"]
      /\ local' = [local EXCEPT ![w].pc = "call", ![w].version = version[Draft(w)]]
      /\ approval[Draft(w)].status = "APPROVED" /\ approval[Draft(w)].version = version[Draft(w)]
      /\ approval' = [approval EXCEPT ![Draft(w)].status = "CONSUMED"]
      /\ draft' = [draft EXCEPT ![Draft(w)] = "APPROVED"]
      /\ UNCHANGED <<order, happened>>
  BY DEF BeginSend, Changed
<1>4. /\ \A v \in Workers : v # w => local'[v] = local[v]
      /\ local'[w] = [local[w] EXCEPT !.pc = "call", !.version = version[Draft(w)]]
  BY <1>3 DEF OutreachTypes
<1>5. /\ local'[w].pc = "call" /\ local'[w].version = version[Draft(w)]
      /\ local'[w].task = local[w].task
  BY <1>4 DEF OutreachTypes, Locals
<1>6. CallOf(w)' = c
  BY <1>1, <1>2, <1>5 DEF CallOf, Draft
<1>7. QED
  BY <1>1, <1>2, <1>3, <1>4, <1>5, <1>6

LEMMA MailRecovered ==
  ASSUME OutreachTypes, RecoverMail
  PROVE  /\ UNCHANGED <<order, approval, draft, happened, local>>
         /\ \A c \in Calls : ledger'[c] = IF ledger[c] = "EXECUTING" THEN "UNKNOWN_RESULT" ELSE ledger[c]
BY DEF RecoverMail, draftVars

\* The other steps leave every call alone.
LEMMA OthersQuiet ==
  ASSUME OutreachTypes, [OutreachNext]_outreachVars,
         \A w \in Workers : ~CallGmail(w) /\ ~RecordDraft(w) /\ ~RecordSend(w) /\ ~BeginSend(w),
         \A w \in Workers : BeginDraft(w) => UNCHANGED ledger,
         ~RecoverMail
  PROVE  /\ UNCHANGED mailVars
         /\ \A v \in Workers : local'[v] = local[v] \/ local'[v].pc \notin {"call", "record"}
<1> DEFINE Quiet == \A v \in Workers : local'[v] = local[v] \/ local'[v].pc \notin {"call", "record"}
<1>1. ASSUME NEW w \in Workers, Leave(w) PROVE Quiet
  BY <1>1 DEF Leave, OutreachTypes, Idle
<1>2. ASSUME NEW w \in Workers, NEW step, step \notin {"call", "record"}, Goto(w, step) PROVE Quiet
  BY <1>2 DEF Goto, OutreachTypes, Locals
<1>3. ASSUME NEW w \in Workers, ClaimOutreach(w) PROVE Quiet
  <2>1. PICK t : local' = [local EXCEPT ![w] = [Idle EXCEPT !.task = t,
       !.pc = IF t = Connect THEN "capture" ELSE IF Channel[t] = "EMAIL" THEN "send" ELSE "review"]]
    BY <1>3 DEF ClaimOutreach, ClaimTask
  <2>2. QED
    BY <2>1 DEF OutreachTypes, Idle
<1>4. ASSUME NEW w \in Workers, RequestApproval(w) PROVE Quiet
  BY <1>4 DEF RequestApproval, OutreachTypes, Locals
<1>5. ASSUME NEW w \in Workers, BeginDraft(w) PROVE Quiet /\ UNCHANGED mailVars
  <2>1. UNCHANGED mailVars
    BY <1>5 DEF BeginDraft, mailVars
  <2>2. UNCHANGED ledger
    BY <1>5
  <2>3. \E step \in {"bind", "raise"} : Goto(w, step)
    <3> DEFINE c == <<"GMAIL_CREATE_DRAFT", Draft(w), version[Draft(w)]>>
    <3>1. CASE ledger' = [ledger EXCEPT ![c] = "EXECUTING"] /\ ledger[c] = "NONE"
      <4>1. c \in Calls
        BY <1>5, HasDraft DEF BeginDraft, At, OutreachTypes, Calls, Ranked
      <4>2. QED
        BY <2>2, <3>1, <4>1 DEF OutreachTypes
    <3>2. QED
      BY <1>5, <3>1 DEF BeginDraft
  <2>4. QED
    BY <1>2, <2>1, <2>3
<1>6. ASSUME NEW w \in Workers,
             Work(w) \/ AttemptFails(w) \/ StopOutreach(w) \/ CrashOutreach(w), ~BeginDraft(w)
      PROVE  UNCHANGED mailVars
  BY <1>6, Zenon
     DEF Work, ClaimOutreach, ClaimTask, Capture, AttemptFails, StopOutreach, CreateDraft,
     SendDraft, BindApproval, BindManual, Bind, RequestApproval, CompleteConnector,
     RefuseSend, InvalidateSend, MissingDraft, SettingsRefuse, DraftsDisabled, ReviewManual,
     CompleteOutreach, WaitForHuman,
     FailConnector, OutreachLeaseLost, CrashOutreach
<1>7. ASSUME NEW w \in Workers,
             Work(w) \/ AttemptFails(w) \/ StopOutreach(w) \/ CrashOutreach(w), ~BeginDraft(w)
      PROVE  Quiet
  <2>1. \/ Leave(w)
        \/ ClaimOutreach(w)
        \/ RequestApproval(w)
        \/ \E step : step \notin {"call", "record"} /\ Goto(w, step)
    <3>1. CASE Capture(w)
      <4>1. \E step \in {"connected", "draft"} : Goto(w, step)
        BY <3>1 DEF Capture
      <4>2. QED
        BY <4>1
    <3>2. CASE Bind(w)
      <4>1. \E step \in {"raise", "ask"} : Goto(w, step)
        BY <3>2 DEF Bind
      <4>2. QED
        BY <4>1
    <3>3. CASE RefuseSend(w) \/ InvalidateSend(w) \/ MissingDraft(w) \/ SettingsRefuse(w) \/ ReviewManual(w)
      <4>1. \E step \in {"sent", "wait"} : Goto(w, step)
        BY <3>3
           DEF RefuseSend, InvalidateSend, MissingDraft, SettingsRefuse, DraftsDisabled,
               ReviewManual
      <4>2. QED
        BY <4>1
    <3>5. DraftsDisabled(w) => Goto(w, "raise")
      BY DEF DraftsDisabled
    <3>4. QED
      BY <1>7, <3>1, <3>2, <3>3, <3>5 DEF Work, CreateDraft, SendDraft, BindApproval, BindManual,
         AttemptFails, StopOutreach, CrashOutreach, CompleteConnector, CompleteOutreach,
         WaitForHuman, FailConnector,
         OutreachLeaseLost
  <2>2. QED
    BY <1>1, <1>2, <1>3, <1>4, <2>1
<1>8. ASSUME RecoverOutreach \/ DecideOutreach \/ OperatorResumes \/ Overdue \/ ContentChanges
      PROVE  UNCHANGED <<local, mailVars>>
  BY <1>8, Zenon
     DEF RecoverOutreach, RecoverRow, DecideOutreach, OperatorResumes, Overdue, ContentChanges
<1>9. CASE UNCHANGED outreachVars
  BY <1>9 DEF outreachVars
<1>10. QED
  BY <1>5, <1>6, <1>7, <1>8, <1>9 DEF OutreachNext

LEMMA CallsStep ==
  ASSUME OutreachTypes, CallInv, [OutreachNext]_outreachVars
  PROVE  CallInv'
<1>1. ASSUME NEW w \in Workers, CallGmail(w) \/ RecordDraft(w) \/ RecordSend(w) PROVE CallInv'
  BY <1>1, CallHappens, CallRecorded
<1>2. ASSUME NEW w \in Workers, BeginDraft(w), ~UNCHANGED ledger PROVE CallInv'
  BY <1>2, DraftCallBegins, CallBegins
<1>3. ASSUME NEW w \in Workers, BeginSend(w) PROVE CallInv'
  BY <1>3, SendBegins, CallBegins
<1>4. CASE RecoverMail
  <2>1. \A w \in Workers, c \in Calls : Holds(w, c)' <=> Holds(w, c)
    BY <1>4, MailRecovered DEF Holds, CallOf, Draft
  <2>2. QED
    BY <1>4, <2>1, MailRecovered DEF CallInv
<1>5. CASE UNCHANGED <<order, mailVars>> /\ \A v \in Workers : local'[v] = local[v] \/ local'[v].pc \notin {"call", "record"}
  BY <1>5, CallsQuiet
<1>6. QED
  BY <1>1, <1>2, <1>3, <1>4, <1>5, WorkersStep, OthersQuiet

-----------------------------------------------------------------------------
(* Sends *)

\* No row appears, and no consumed approval changes.
LEMMA RowsStay ==
  ASSUME SendRows,
         \A d \in Drafts, v \in Versions :
           ledger'[<<"SEND_EMAIL", d, v>>] # "NONE" => ledger[<<"SEND_EMAIL", d, v>>] # "NONE",
         \A d \in Drafts : approval[d].status = "CONSUMED" =>
           approval'[d].status = "CONSUMED" /\ approval'[d].version = approval[d].version
  PROVE  SendRows'
BY DEF SendRows

\* A consumed approval is final.
LEMMA ConsumedIsFinal ==
  ASSUME OutreachTypes, [OutreachNext]_outreachVars, NEW d \in Drafts, approval[d].status = "CONSUMED"
  PROVE  approval'[d].status = "CONSUMED" /\ approval'[d].version = approval[d].version
<1> DEFINE Kept == approval'[d].status = "CONSUMED" /\ approval'[d].version = approval[d].version
<1>1. ASSUME NEW w \in Workers, Bind(w) PROVE Kept
  <2>1. CASE UNCHANGED approval
    BY <2>1
  <2>2. CASE ~Exists(Draft(w)) /\ Put(Draft(w))
    <3>1. d # Draft(w)
      BY <2>2 DEF Exists
    <3>2. QED
      BY <2>2, <3>1 DEF Put, OutreachTypes
  <2>3. QED
    BY <1>1, <2>1, <2>2 DEF Bind
<1>2. ASSUME NEW w \in Workers, RequestApproval(w) PROVE Kept
  BY <1>2 DEF RequestApproval, OutreachTypes, Approvals
<1>3. ASSUME NEW x, NEW status, approval' = [approval EXCEPT ![x].status = status],
             approval[x].status # "CONSUMED"
      PROVE  Kept
  BY <1>3 DEF OutreachTypes
<1>4. ASSUME NEW w \in Workers, BeginSend(w) \/ InvalidateSend(w) \/ ReviewManual(w)
      PROVE  Kept
  <2>1. \/ UNCHANGED approval
        \/ \E x, status : /\ approval' = [approval EXCEPT ![x].status = status]
                          /\ approval[x].status # "CONSUMED"
    BY <1>4 DEF BeginSend, InvalidateSend, ReviewManual
  <2>2. QED
    BY <1>3, <2>1
<1>5. CASE DecideOutreach
  <2>1. \E x, status : /\ approval' = [approval EXCEPT ![x].status = status]
                       /\ approval[x].status # "CONSUMED"
    BY <1>5 DEF DecideOutreach
  <2>2. QED
    BY <1>3, <2>1
<1>6. CASE Overdue
  BY <1>6 DEF Overdue, OutreachTypes, Approvals
<1>7. CASE UNCHANGED approval
  BY <1>7
<1>8. QED
  BY <1>1, <1>2, <1>4, <1>5, <1>6, <1>7, ApprovalFrame DEF Approves

LEMMA SendRowsStep ==
  ASSUME OutreachTypes, CallInv, SendRows, [OutreachNext]_outreachVars
  PROVE  SendRows'
<1>1. ASSUME NEW w \in Workers, BeginSend(w) PROVE SendRows'
  <2> DEFINE d == Draft(w)
             c == <<"SEND_EMAIL", d, version[d]>>
  <2>1. /\ d \in Drafts /\ Channel[d] = "EMAIL" /\ c \in Calls
        /\ approval[d].status = "APPROVED" /\ approval[d].version = version[d]
        /\ approval' = [approval EXCEPT ![d].status = "CONSUMED"]
        /\ ledger' = [ledger EXCEPT ![c] = "EXECUTING"]
    BY <1>1, SendBegins
  <2> HIDE DEF d
  <2>2. /\ approval'[d].status = "CONSUMED" /\ approval'[d].version = version[d]
        /\ \A e \in Drafts : e # d => approval'[e] = approval[e]
    BY <2>1 DEF OutreachTypes, Approvals
  <2>3. \A e \in Drafts, v \in Versions : <<"SEND_EMAIL", e, v>> \in Calls
    BY DEF Calls
  <2>4. ASSUME NEW e \in Drafts, NEW v \in Versions, ledger'[<<"SEND_EMAIL", e, v>>] # "NONE"
        PROVE  <<"SEND_EMAIL", e, v>> = c \/ ledger[<<"SEND_EMAIL", e, v>>] # "NONE"
    BY <2>1, <2>3, <2>4 DEF OutreachTypes
  <2>5. \A v \in Versions : ledger[<<"SEND_EMAIL", d, v>>] = "NONE"
    BY <2>1 DEF SendRows
  <2>6. QED
    BY <2>1, <2>2, <2>4, <2>5 DEF SendRows
<1>2. ASSUME \A d \in Drafts, v \in Versions :
               ledger'[<<"SEND_EMAIL", d, v>>] # "NONE" => ledger[<<"SEND_EMAIL", d, v>>] # "NONE"
      PROVE  SendRows'
  BY <1>2, ConsumedIsFinal, RowsStay
<1>3. ASSUME NEW w \in Workers, RecordDraft(w) \/ RecordSend(w) PROVE SendRows'
  <2>1. \A c \in Calls : ledger'[c] # "NONE" => ledger[c] # "NONE"
    BY <1>3, CallRecorded
  <2>2. QED
    BY <1>2, <2>1 DEF Calls
<1>4. ASSUME NEW w \in Workers, BeginDraft(w), ~UNCHANGED ledger PROVE SendRows'
  <2>1. PICK d, v : ledger' = [ledger EXCEPT ![<<"GMAIL_CREATE_DRAFT", d, v>>] = "EXECUTING"]
    BY <1>4, DraftCallBegins
  <2>2. \A e \in Drafts, u \in Versions : <<"SEND_EMAIL", e, u>> \in Calls
    BY DEF Calls
  <2>3. \A e \in Drafts, u \in Versions : ledger'[<<"SEND_EMAIL", e, u>>] = ledger[<<"SEND_EMAIL", e, u>>]
    BY <2>1, <2>2 DEF OutreachTypes
  <2>4. QED
    BY <1>2, <2>3
<1>5. CASE RecoverMail
  BY <1>2, <1>5, MailRecovered DEF Calls
<1>6. CASE UNCHANGED ledger
  BY <1>2, <1>6
<1>7. QED
  BY <1>1, <1>3, <1>4, <1>5, <1>6, OthersQuiet, CallHappens DEF mailVars

\* What has happened stays so.
LEMMA HappenedStays ==
  ASSUME OutreachTypes, CallInv, [OutreachNext]_outreachVars, NEW c \in Calls, happened[c] = 1
  PROVE  happened'[c] = 1
<1>1. ASSUME NEW w \in Workers, CallGmail(w) PROVE happened'[c] = 1
  BY <1>1, CallHappens
<1>2. CASE UNCHANGED happened
  BY <1>2
<1>3. ASSUME NEW w \in Workers, BeginDraft(w) \/ RecordDraft(w) \/ RecordSend(w) \/ BeginSend(w) PROVE UNCHANGED happened
  BY <1>3 DEF BeginDraft, RecordDraft, RecordSend, BeginSend
<1>4. CASE RecoverMail
  BY <1>2, <1>4, MailRecovered
<1>5. QED
  BY <1>1, <1>2, <1>3, <1>4, OthersQuiet DEF mailVars

LEMMA SendDoneStep ==
  ASSUME OutreachTypes, CallInv, SendDone, [OutreachNext]_outreachVars
  PROVE  SendDone'
<1>1. ASSUME NEW d \in Drafts, draft[d] = "SENT" PROVE \E v \in Versions : happened'[<<"SEND_EMAIL", d, v>>] = 1
  <2>1. PICK v \in Versions : happened[<<"SEND_EMAIL", d, v>>] = 1
    BY <1>1 DEF SendDone
  <2>2. QED
    BY <2>1, HappenedStays DEF Calls
<1>2. ASSUME NEW w \in Workers, RecordSend(w), NEW d \in Drafts, draft'[d] = "SENT", draft[d] # "SENT"
      PROVE  \E v \in Versions : happened'[<<"SEND_EMAIL", d, v>>] = 1
  <2>1. local[w].answer = "CONFIRMED" /\ d = Draft(w)
    BY <1>2 DEF RecordSend, OutreachTypes
  <2>2. local[w].task # Connect /\ local[w].version \in Versions
    BY <1>2, DraftsAssumption DEF RecordSend, At, OutreachTypes, Placed
  <2>3. CallOf(w) = <<"SEND_EMAIL", d, local[w].version>>
    BY <2>1, <2>2 DEF CallOf
  <2>4. happened'[CallOf(w)] = 1
    BY <1>2, <2>1, CallRecorded
  <2>5. QED
    BY <2>2, <2>3, <2>4
<1>3. ASSUME NEW d \in Drafts, draft'[d] = "SENT", \A w \in Workers : ~RecordSend(w)
      PROVE  draft[d] = "SENT"
  <2>1. ASSUME NEW w \in Workers, Capture(w) \/ BeginSend(w) \/ InvalidateSend(w) \/ ReviewManual(w)
        PROVE  draft[d] = "SENT"
    BY <1>3, <2>1 DEF Capture, BeginSend, InvalidateSend, ReviewManual, OutreachTypes
  <2>2. CASE UNCHANGED draft
    BY <1>3, <2>2
  <2>3. QED
    BY <1>3, <2>1, <2>2, DraftFrame DEF Drafted
<1>4. QED
  BY <1>1, <1>2, <1>3 DEF SendDone

-----------------------------------------------------------------------------
(* Theorems *)

\* The types, what is known of every call, and what a send's row says of its
\* approval are invariant together (outreach/actions.py, connector.py, sender.py).
THEOREM OutreachInvariance == OutreachSpec => []OutreachInv
<1>1. OutreachInit => OutreachInv
  <2> SUFFICES ASSUME OutreachInit PROVE OutreachInv
    OBVIOUS
  <2>1. \A c \in Calls : ledger[c] = "NONE" /\ happened[c] = 0
    BY DEF OutreachInit
  <2>2. CallInv
    BY <2>1 DEF OutreachInit, CallInv, Holds, Idle
  <2>3. SendRows
    BY <2>1 DEF SendRows, Calls
  <2>4. SendDone
    BY DEF OutreachInit, SendDone
  <2>5. QED
    BY <2>2, <2>3, <2>4, OutreachTypesInit DEF OutreachInv
<1>2. OutreachInv /\ [OutreachNext]_outreachVars => OutreachInv'
  BY OutreachTypesStep, CallsStep, SendRowsStep, SendDoneStep DEF OutreachInv
<1>3. QED
  BY <1>1, <1>2, PTL DEF OutreachSpec

\* Drafts, approvals, rows of the ledger and workers keep their types, and a
\* worker's place fits its task, for any contacts, versions and faults.
THEOREM OutreachTypeCorrect == OutreachSpec => []OutreachTypes
<1>1. OutreachInv => OutreachTypes
  BY DEF OutreachInv
<1>2. QED
  BY <1>1, OutreachInvariance, PTL

\* A contact is written to at most once, in exactly the words that a human
\* approved (outreach/actions.py:send).
THEOREM SentWasApproved == OutreachSpec => []SentAsApproved
<1>1. OutreachInv => SentAsApproved
  <2> SUFFICES ASSUME OutreachInv, NEW d \in Drafts
               PROVE  LET sent == {v \in Versions : happened[<<"SEND_EMAIL", d, v>>] > 0}
                      IN  /\ sent # {} => /\ sent = {approval[d].version} /\ approval[d].status = "CONSUMED"
                                          /\ happened[<<"SEND_EMAIL", d, approval[d].version>>] = 1
                                          /\ Channel[d] = "EMAIL"
                          /\ draft[d] = "SENT" => sent # {}
    BY DEF SentAsApproved
  <2> DEFINE sent == {v \in Versions : happened[<<"SEND_EMAIL", d, v>>] > 0}
  <2>1. ASSUME NEW v \in sent
        PROVE  /\ approval[d].status = "CONSUMED" /\ approval[d].version = v /\ Channel[d] = "EMAIL"
               /\ happened[<<"SEND_EMAIL", d, v>>] = 1
    <3>1. <<"SEND_EMAIL", d, v>> \in Calls /\ happened[<<"SEND_EMAIL", d, v>>] > 0
      BY DEF Calls
    <3>2. happened[<<"SEND_EMAIL", d, v>>] = 1 /\ ledger[<<"SEND_EMAIL", d, v>>] # "NONE"
      BY <3>1 DEF OutreachInv, CallInv
    <3>3. QED
      BY <3>2 DEF OutreachInv, SendRows
  <2>2. ASSUME sent # {} PROVE sent = {approval[d].version}
    BY <2>1, <2>2
  <2>3. ASSUME draft[d] = "SENT" PROVE sent # {}
    <3>1. PICK v \in Versions : happened[<<"SEND_EMAIL", d, v>>] = 1
      BY <2>3 DEF OutreachInv, SendDone
    <3>2. v \in sent
      BY <3>1
    <3>3. QED
      BY <3>2
  <2>4. QED
    BY <2>1, <2>2, <2>3
<1>2. QED
  BY <1>1, OutreachInvariance, PTL

\* Gmail calls implement ExternalEffect: each is made at most once, and the
\* ledger says nothing untrue of it (outreach/actions.py:create_draft, send, recover).
THEOREM MailRefines == OutreachSpec => MailedAtMostOnce
<1> USE DEF Mail!Stay, Mail!Plan, Mail!Begin, Mail!Perform, Mail!Conclude, Mail!Reconcile
<1>1. OutreachInit => Mail!EffectInit
  BY DEF OutreachInit, Mail!EffectInit
<1>2. ASSUME OutreachInv, OutreachInv', [OutreachNext]_outreachVars
      PROVE  [Mail!EffectNext]_(Mail!effectVars)
  <2>1. DOMAIN ledger' = Calls /\ DOMAIN happened' = Calls
    BY <1>2 DEF OutreachInv, OutreachTypes
  <2>2. ASSUME NEW w \in Workers, CallGmail(w) PROVE Mail!EffectNext
    <3>1. /\ happened[CallOf(w)] = 0 /\ happened'[CallOf(w)] \in {0, 1} /\ UNCHANGED ledger
          /\ ledger[CallOf(w)] \in {"EXECUTING", "UNKNOWN_RESULT"}
          /\ \A x \in Calls : x # CallOf(w) => happened'[x] = happened[x]
      BY <1>2, <2>2, CallHappens DEF OutreachInv, CallInv
    <3>2. QED
      BY <2>1, <3>1 DEF Mail!EffectNext
  <2>3. ASSUME NEW w \in Workers, RecordDraft(w) \/ RecordSend(w) PROVE Mail!EffectNext
    <3>1. /\ UNCHANGED happened /\ ledger[CallOf(w)] \in {"EXECUTING", "UNKNOWN_RESULT"}
          /\ \/ ledger'[CallOf(w)] = "SUCCEEDED" /\ happened[CallOf(w)] = 1
             \/ ledger'[CallOf(w)] = "UNKNOWN_RESULT"
          /\ \A x \in Calls : x # CallOf(w) => ledger'[x] = ledger[x]
      BY <1>2, <2>3, CallRecorded DEF OutreachInv
    <3>2. QED
      BY <2>1, <3>1 DEF Mail!EffectNext
  <2>4. ASSUME NEW w \in Workers, (BeginDraft(w) /\ ~UNCHANGED ledger) \/ BeginSend(w) PROVE Mail!EffectNext
    <3>1. PICK c \in Calls : /\ ledger[c] = "NONE" /\ ledger' = [ledger EXCEPT ![c] = "EXECUTING"]
                             /\ UNCHANGED happened
      BY <1>2, <2>4, DraftCallBegins, SendBegins DEF OutreachInv
    <3>2. ledger'[c] = "EXECUTING" /\ \A x \in Calls : x # c => ledger'[x] = ledger[x]
      BY <1>2, <3>1 DEF OutreachInv, OutreachTypes
    <3>3. QED
      BY <2>1, <3>1, <3>2 DEF Mail!EffectNext
  <2>5. CASE RecoverMail
    <3>1. /\ UNCHANGED happened
          /\ \A c \in Calls : ledger'[c] = IF ledger[c] = "EXECUTING" THEN "UNKNOWN_RESULT" ELSE ledger[c]
      BY <1>2, <2>5, MailRecovered DEF OutreachInv
    <3>2. ASSUME NEW c \in Calls PROVE Mail!Stay(c) \/ Mail!Conclude(c)
      BY <3>1
    <3>3. QED
      BY <2>1, <3>2 DEF Mail!EffectNext
  <2>6. CASE UNCHANGED mailVars
    BY <2>6 DEF mailVars, Mail!effectVars
  <2>7. QED
    BY <1>2, <2>2, <2>3, <2>4, <2>5, <2>6, OthersQuiet DEF OutreachInv
<1>3. QED
  BY <1>1, <1>2, OutreachInvariance, PTL DEF OutreachSpec, MailedAtMostOnce, Mail!EffectSpec

-----------------------------------------------------------------------------
(* The tasks of the connector, the senders and the reviewers                  *)

RowsMove == DOMAIN task' = Tasks /\ \A t \in Tasks : RowStep(t)

LEMMA RowMoves ==
  ASSUME DOMAIN task = Tasks, NEW t \in Tasks, NEW row, task' = [task EXCEPT ![t] = row],
         task'[t] = row => RowStep(t)
  PROVE  RowsMove
<1>1. DOMAIN task' = Tasks /\ task'[t] = row
  OBVIOUS
<1>2. \A u \in Tasks : u # t => task'[u] = task[u]
  OBVIOUS
<1> QED BY <1>1, <1>2 DEF RowsMove, RowStep

LEMMA OutreachRowsMove ==
  ASSUME OutreachTypes, DOMAIN task = Tasks, [OutreachNext]_outreachVars
  PROVE  RowsMove
<1>1. Connect \in Tasks /\ \A d \in Drafts : d \in Tasks
  BY DraftsAssumption
<1>2. CASE UNCHANGED task
  BY <1>2 DEF RowsMove, RowStep
<1>3. ASSUME NEW t \in Tasks, RecoverRow(t) PROVE RowsMove
  <2>1. CASE task[t].status = "ACTIVE" /\ task' = [task EXCEPT ![t] = Lapsed(task[t], t)]
    BY <2>1, RowMoves DEF RowStep, EndRow
  <2>2. CASE task[t].status = "WAITING_RETRY" /\ task' = [task EXCEPT ![t].status = "READY"]
    <3>1. task' = [task EXCEPT ![t] = [task[t] EXCEPT !.status = "READY"]]
      BY <2>2
    <3> QED BY <2>2, <3>1, RowMoves DEF RowStep, WakeRow
  <2> QED BY <1>3, <2>1, <2>2 DEF RecoverRow, RecoverTask
<1>4. ASSUME NEW d \in Drafts, task[d].status = "WAITING_HUMAN", task' = [task EXCEPT ![d].status = "READY"]
      PROVE  RowsMove
  <2>1. task' = [task EXCEPT ![d] = [task[d] EXCEPT !.status = "READY"]]
    BY <1>4
  <2> QED BY <1>1, <1>4, <2>1, RowMoves DEF RowStep, WakeRow
<1>5. ASSUME NEW w \in Workers, NEW t \in Tasks, ClaimTask(w, t) PROVE RowsMove
  <2>1. task' = [task EXCEPT ![t] = Granted(task[t], w, t \in continues)]
    BY <1>5 DEF ClaimTask
  <2>2. task[t].status = "READY" /\ (t \in continues \/ Claimable(t))
    BY <1>5 DEF ClaimTask
  <2>3. task'[t] = Granted(task[t], w, t \in continues) => GrantRow(t)
    <3> DEFINE free == t \in continues
    <3>1. free \in BOOLEAN /\ (free \/ Claimable(t))
      BY <2>2
    <3> HIDE DEF free
    <3>2. task'[t] = Granted(task[t], w, free) => GrantRow(t)
      BY <2>2, <3>1 DEF GrantRow
    <3> QED BY <3>2 DEF free
  <2> QED BY <2>1, <2>3, RowMoves DEF RowStep
<1>6. ASSUME NEW w \in Workers, Owns(w), NEW status \in {"SUCCEEDED", "WAITING_HUMAN"}, Ends(w, status),
             ~At(w, "idle")
      PROVE  RowsMove
  <2>1. local[w].task \in Tasks /\ task[local[w].task].status = "ACTIVE"
    BY <1>6 DEF OutreachTypes, Placed, Owns, Fence, At
  <2>2. task' = [task EXCEPT ![local[w].task] = Ended(task[local[w].task], status)]
    BY <1>6 DEF Ends
  <2> QED BY <2>1, <2>2, RowMoves DEF RowStep, EndRow
<1>7. ASSUME NEW w \in Workers, CompleteConnector(w) \/ CompleteOutreach(w) \/ WaitForHuman(w) PROVE RowsMove
  BY <1>6, <1>7 DEF CompleteConnector, CompleteOutreach, WaitForHuman, At
<1>8. ASSUME NEW w \in Workers, AttemptFails(w) \/ FailConnector(w) PROVE RowsMove
  <2>1. PICK t \in Tasks, retryable \in BOOLEAN :
          task[t].status = "ACTIVE" /\ task' = [task EXCEPT ![t] = Retried(task[t], t, retryable)]
    <3>1. CASE AttemptFails(w)
      <4>1. local[w].task \in Tasks /\ task[local[w].task].status = "ACTIVE"
        BY <3>1 DEF AttemptFails, Owns, Fence, OutreachTypes, Locals
      <4> QED BY <3>1, <4>1 DEF AttemptFails
    <3>2. CASE FailConnector(w)
      <4>1. task[Connect].status = "ACTIVE"
        BY <3>2 DEF OutreachTypes, Placed, FailConnector, Owns, Fence, At
      <4> QED BY <1>1, <3>2, <4>1 DEF FailConnector
    <3> QED BY <1>8, <3>1, <3>2
  <2> QED BY <2>1, RowMoves DEF RowStep, EndRow
<1>15. ASSUME NEW w \in Workers, StopOutreach(w) PROVE RowsMove
  <2>1. local[w].task \in Tasks /\ task[local[w].task].status = "ACTIVE"
    BY <1>15 DEF StopOutreach, Owns, Fence, OutreachTypes, Locals
  <2>2. task' = [task EXCEPT ![local[w].task] = Released(task[local[w].task])]
    BY <1>15 DEF StopOutreach
  <2> QED BY <2>1, <2>2, RowMoves DEF RowStep, EndRow
<1>9. ASSUME NEW w \in Workers, BindApproval(w) \/ BindManual(w) PROVE RowsMove
  <2>1. Draft(w) \in Drafts
    BY <1>9, HasDraft DEF BindApproval, BindManual, At, Ranked
  <2>2. CASE task[Draft(w)].status = "ABSENT" /\ Put(Draft(w))
    <3>1. task' = [task EXCEPT ![Draft(w)] = Published("WAITING_HUMAN")]
      BY <2>2 DEF Put
    <3> QED BY <1>1, <2>1, <2>2, <3>1, RowMoves DEF RowStep, PublishRow
  <2> QED BY <1>2, <1>9, <2>2 DEF BindApproval, BindManual, Bind, Exists
<1>10. CASE DecideOutreach
  BY <1>2, <1>4, <1>10 DEF DecideOutreach
<1>11. CASE OperatorResumes
  BY <1>4, <1>11 DEF OperatorResumes
<1>12. ASSUME NEW w \in Workers,
              \/ Capture(w) \/ BeginDraft(w) \/ CreateDraft(w) \/ RecordDraft(w) \/ RequestApproval(w)
              \/ BeginSend(w) \/ RefuseSend(w) \/ InvalidateSend(w) \/ MissingDraft(w) \/ SettingsRefuse(w)
              \/ DraftsDisabled(w) \/ SendDraft(w) \/ RecordSend(w) \/ ReviewManual(w) \/ OutreachLeaseLost(w) \/ CrashOutreach(w)
       PROVE  UNCHANGED task
  BY <1>12, Zenon
     DEF Capture, BeginDraft, CreateDraft, CallGmail, RecordDraft, RequestApproval, BeginSend,
     RefuseSend, InvalidateSend, MissingDraft, SettingsRefuse, DraftsDisabled, SendDraft,
     RecordSend, ReviewManual, OutreachLeaseLost,
     CrashOutreach, draftVars
<1>13. RecoverMail \/ Overdue \/ ContentChanges => UNCHANGED task
  BY Zenon DEF RecoverMail, Overdue, ContentChanges
<1>14. UNCHANGED outreachVars => UNCHANGED task
  BY DEF outreachVars
<1> QED
  BY <1>2, <1>3, <1>5, <1>7, <1>8, <1>9, <1>10, <1>11, <1>12, <1>13, <1>14, <1>15
  DEF OutreachNext, Work, ClaimOutreach, RecoverOutreach

TasksAreRows == DOMAIN task = Tasks

\* Whatever connectors, senders, reviewers, humans and recoveries do, each row of
\* their tasks moves only as one of the transactions of QueueService moves it: a
\* draft's task in particular is published once, and only its owner ends it.
THEOREM OutreachTasksConform == OutreachSpec => [][\A t \in Tasks : RowStep(t)]_outreachVars
<1>1. OutreachInit => TasksAreRows
  BY DEF OutreachInit, TasksAreRows
<1>2. ASSUME OutreachInv, TasksAreRows, [OutreachNext]_outreachVars PROVE RowsMove
  BY <1>2, OutreachRowsMove DEF OutreachInv, TasksAreRows
<1>3. /\ OutreachInv /\ TasksAreRows /\ [OutreachNext]_outreachVars => TasksAreRows'
      /\ OutreachInv /\ TasksAreRows /\ [OutreachNext]_outreachVars => [\A t \in Tasks : RowStep(t)]_outreachVars
  BY <1>2 DEF RowsMove, TasksAreRows
<1> QED BY <1>1, <1>3, OutreachInvariance, PTL DEF OutreachSpec
=============================================================================
