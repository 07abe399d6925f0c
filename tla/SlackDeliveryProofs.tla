------------------------- MODULE SlackDeliveryProofs -------------------------
(***************************************************************************)
(* Proofs about SlackDelivery, for any messages, events, listeners and     *)
(* faults: an event takes effect once, only confirmed messages are         *)
(* answered, and the outbox implements ExternalEffect.                     *)
(*                                                                         *)
(* The strengthening is what the ledger knows of a delivery that is under  *)
(* way: who has a message in hand is alone with it, has not shown it while *)
(* it is about to post, and has a receipt only if it was shown.            *)
(***************************************************************************)
EXTENDS SlackDelivery, TLAPS

SlackTypes ==
  /\ ledger \in [Messages -> [status : ActionStatuses, owner : Workers \cup {Null}]]
  /\ shown \in [Messages -> Nat]
  /\ kind \in [Messages -> Kinds]
  /\ approval \in [Messages -> {"PENDING", "APPROVED", "REJECTED", "CLOSED"}]
  /\ reply \in [Messages -> Events \cup {Unanswered, Moved}]
  /\ said \in [Events -> Sayings \cup {Unsaid}]
  /\ unacked \subseteq Events
  /\ inbox \in [Events -> {"NONE", "PENDING", "PROCESSED", "REJECTED"}]
  /\ effects \in [Events -> Nat]
  /\ pc \in [Workers -> {"loop", "post", "store", "process", "complete", "ended"}]
  /\ doing \in [Workers -> Messages \cup Events \cup {Null}]
  /\ result \in [Workers -> {"SUCCEEDED", "FAILED", "UNKNOWN_RESULT"}]
  /\ allowed \in [Workers -> SUBSET Messages]
  /\ \A w \in Workers : /\ pc[w] \in {"post", "store"} => doing[w] \in Messages
                        /\ pc[w] \in {"process", "complete"} => doing[w] \in Events

\* What was said of a message is something that its kind allows.
WellSaid ==
  \A e \in Events : said[e].about # Links => said[e].verdict \in Verdicts(said[e].about)

Has(w, m) == pc[w] \in {"post", "store"} /\ doing[w] = m

DeliveryInv ==
  \A m \in Messages :
    /\ ledger[m].status \in {"NONE", "PLANNED"} => shown[m] = 0
    /\ ledger[m].status = "SUCCEEDED" => shown[m] = 1
    /\ \A w \in Workers : Has(w, m) =>
         /\ ledger[m].status \in {"EXECUTING", "UNKNOWN_RESULT"}
         /\ pc[w] = "post" => shown[m] = 0
         /\ pc[w] = "store" /\ result[w] = "SUCCEEDED" => shown[m] = 1
    /\ \A w, v \in Workers : Has(w, m) /\ Has(v, m) => w = v

SlackInv == SlackTypes /\ WellSaid /\ DeliveryInv /\ EventEffectOnce /\ AnswersConfirmed

-----------------------------------------------------------------------------
(* Types *)

LEMMA TypesInit == SlackInit => SlackTypes
BY EventsAssumption DEF SlackInit, SlackTypes, ActionStatuses, Unanswered, Moved, Unsaid, Events

LEMMA TypesStep ==
  ASSUME SlackTypes, WellSaid, [SlackNext]_slackVars
  PROVE  SlackTypes'
<1> USE EventsAssumption DEF Unanswered, Moved, Events
<1>1. CASE UNCHANGED slackVars
  BY <1>1 DEF SlackTypes, slackVars, outboxVars, inboxVars, askedVars, listenerVars
<1>2. ASSUME NEW m \in Messages, PlanMessage(m) \/ GiveUp(m) PROVE SlackTypes'
  <2>1. ledger' \in [Messages -> [status : ActionStatuses, owner : Workers \cup {Null}]]
    <3>1. PICK status \in ActionStatuses : ledger' = [ledger EXCEPT ![m].status = status]
      BY <1>2 DEF PlanMessage, GiveUp, ActionStatuses
    <3> DEFINE Rows == [status : ActionStatuses, owner : Workers \cup {Null}]
               row == [ledger[m] EXCEPT !.status = status]
    <3>2. row \in Rows
      <4>1. ledger[m] \in Rows
        BY DEF SlackTypes
      <4>2. row = [status |-> status, owner |-> ledger[m].owner]
        BY <4>1
      <4> QED
        BY <4>1, <4>2
    <3>3. ledger' = [ledger EXCEPT ![m] = row]
      BY <3>1
    <3> HIDE DEF row, Rows
    <3>4. ledger \in [Messages -> Rows] => ledger' \in [Messages -> Rows]
      BY <3>2, <3>3
    <3> QED
      BY <3>4 DEF Rows, SlackTypes
  <2>2. UNCHANGED <<shown, kind, inboxVars, askedVars, listenerVars>>
    BY <1>2 DEF PlanMessage, GiveUp
  <2> QED
    BY <2>1, <2>2 DEF SlackTypes, inboxVars, askedVars, listenerVars
<1>3. ASSUME NEW m \in Messages, CloseApproval(m) \/ MoveOn(m) PROVE SlackTypes'
  BY <1>3 DEF SlackTypes, CloseApproval, MoveOn, outboxVars, inboxVars, listenerVars
<1>4. ASSUME NEW e \in Events, Say(e) PROVE SlackTypes'
  BY <1>4 DEF SlackTypes, Say, outboxVars, askedVars, listenerVars
<1>5. ASSUME NEW e \in Events, NEW acked \in BOOLEAN, Receive(e, acked) PROVE SlackTypes'
  BY <1>5 DEF SlackTypes, Receive, outboxVars, askedVars, listenerVars
<1>6. ASSUME NEW e \in Events, RecoverEvent(e) PROVE SlackTypes'
  BY <1>6 DEF SlackTypes, RecoverEvent, outboxVars, inboxVars, askedVars, listenerVars
<1>7. ASSUME NEW w \in Workers, StartDelivery(w) PROVE SlackTypes'
  BY <1>7 DEF SlackTypes, StartDelivery, Goto, ActionStatuses, inboxVars, askedVars
<1>8. ASSUME NEW w \in Workers, Post(w) PROVE SlackTypes'
  BY <1>8 DEF SlackTypes, Post, Goto, inboxVars, askedVars
<1>9. ASSUME NEW w \in Workers, StoreReceipt(w) PROVE SlackTypes'
  BY <1>9 DEF SlackTypes, StoreReceipt, Looping, Goto, ActionStatuses, inboxVars, askedVars
<1>10. ASSUME NEW w \in Workers, TakeEvent(w) PROVE SlackTypes'
  BY <1>10 DEF SlackTypes, TakeEvent, Goto, outboxVars, inboxVars, askedVars
<1>11. ASSUME NEW w \in Workers, Process(w) PROVE SlackTypes'
  <2>1. PICK e \in Events : /\ e = doing[w] /\ Goto(w, "complete", e)
                            /\ \/ /\ Acceptable(e) /\ Effect(e)
                                  /\ effects' = [effects EXCEPT ![e] = @ + 1]
                                  /\ inbox' = [inbox EXCEPT ![e] = "PROCESSED"]
                               \/ /\ inbox' = [inbox EXCEPT ![e] = "REJECTED"]
                                  /\ UNCHANGED <<askedVars, effects>>
                               \/ UNCHANGED <<askedVars, inbox, effects>>
                            /\ UNCHANGED <<task, outboxVars, said, unacked, result, faults>>
    BY <1>11 DEF Process, SlackTypes
  <2>2. said[e].about # Links /\ kind[said[e].about] = "approval" =>
        said[e].verdict \in {"APPROVED", "REJECTED"}
    BY DEF WellSaid, Verdicts
  <2>3. approval' \in [Messages -> {"PENDING", "APPROVED", "REJECTED", "CLOSED"}]
    <3>1. CASE UNCHANGED approval
      BY <3>1 DEF SlackTypes
    <3>2. CASE Effect(e) /\ Acceptable(e) /\ said[e].about # Links /\ kind[said[e].about] = "approval"
      BY <2>1, <2>2, <3>2 DEF SlackTypes, Effect, Acceptable
    <3> QED
      BY <2>1, <3>1, <3>2 DEF Effect, askedVars
  <2>4. reply' \in [Messages -> Events \cup {Unanswered, Moved}]
    <3>1. CASE UNCHANGED reply
      BY <3>1 DEF SlackTypes
    <3>2. CASE reply' = [reply EXCEPT ![said[e].about] = e]
      BY <2>1, <3>2 DEF SlackTypes
    <3> QED
      BY <2>1, <3>1, <3>2 DEF Effect, askedVars
  <2>5. /\ inbox' \in [Events -> {"NONE", "PENDING", "PROCESSED", "REJECTED"}]
        /\ effects' \in [Events -> Nat]
    <3>1. /\ inbox \in [Events -> {"NONE", "PENDING", "PROCESSED", "REJECTED"}]
          /\ effects \in [Events -> Nat]
      BY DEF SlackTypes
    <3>2. CASE effects' = [effects EXCEPT ![e] = @ + 1] /\ inbox' = [inbox EXCEPT ![e] = "PROCESSED"]
      BY <3>1, <3>2
    <3>3. CASE UNCHANGED effects /\ (UNCHANGED inbox \/ inbox' = [inbox EXCEPT ![e] = "REJECTED"])
      BY <3>1, <3>3
    <3> QED
      BY <2>1, <3>2, <3>3
  <2>6. /\ pc' = [pc EXCEPT ![w] = "complete"] /\ doing' = [doing EXCEPT ![w] = e]
        /\ UNCHANGED <<ledger, shown, kind, said, unacked, result, allowed>>
    BY <2>1 DEF Goto, outboxVars
  <2> QED
    BY <2>3, <2>4, <2>5, <2>6 DEF SlackTypes
<1>12. ASSUME NEW w \in Workers,
              CompleteEvent(w) \/ EventLeaseLost(w) \/ StorageError(w) \/ Die(w) \/ BarredDelivery(w) \/ StartListener(w)
       PROVE  SlackTypes'
  <2>1. UNCHANGED <<outboxVars, inboxVars, askedVars>>
    BY <1>12, Zenon
       DEF CompleteEvent, EventLeaseLost, StorageError, Die, BarredDelivery, StartListener
  <2>2. /\ \E step \in {"loop", "ended"} : pc' = [pc EXCEPT ![w] = step]
        /\ \/ UNCHANGED doing
           \/ doing' = [doing EXCEPT ![w] = Null]
        /\ \/ UNCHANGED result
           \/ result' = [result EXCEPT ![w] = "UNKNOWN_RESULT"]
        /\ \/ UNCHANGED allowed
           \/ \E messages \in SUBSET Messages : allowed' = [allowed EXCEPT ![w] = messages]
    BY <1>12
       DEF CompleteEvent, EventLeaseLost, StorageError, Die, BarredDelivery, StartListener, Looping,
       Goto
  <2>3. pc' \in [Workers -> {"loop", "post", "store", "process", "complete", "ended"}]
    <3>1. PICK step \in {"loop", "ended"} : pc' = [pc EXCEPT ![w] = step]
      BY <2>2
    <3> QED
      BY <3>1 DEF SlackTypes
  <2>6. doing' \in [Workers -> Messages \cup Events \cup {Null}]
    <3> DEFINE Things == Messages \cup Events \cup {Null}
    <3>1. doing \in [Workers -> Things] /\ Null \in Things
      BY DEF SlackTypes
    <3> HIDE DEF Things
    <3>2. doing' \in [Workers -> Things]
      BY <2>2, <3>1
    <3> QED
      BY <3>2 DEF Things
  <2>7. result' \in [Workers -> {"SUCCEEDED", "FAILED", "UNKNOWN_RESULT"}]
    BY <2>2 DEF SlackTypes
  <2>5. allowed' \in [Workers -> SUBSET Messages]
    <3>1. allowed \in [Workers -> SUBSET Messages]
      BY DEF SlackTypes
    <3> DEFINE Lists == SUBSET Messages
    <3>2. allowed \in [Workers -> Lists] /\ (UNCHANGED allowed \/ \E list \in Lists : allowed' = [allowed EXCEPT ![w] = list])
      BY <2>2, <3>1
    <3> HIDE DEF Lists
    <3>3. allowed' \in [Workers -> Lists]
      BY <3>2
    <3> QED
      BY <3>3 DEF Lists
  <2>4. \A v \in Workers : pc'[v] \in {"post", "store", "process", "complete"} =>
          pc'[v] = pc[v] /\ doing'[v] = doing[v]
    BY <2>2 DEF SlackTypes
  <2> QED
    BY <2>1, <2>3, <2>4, <2>5, <2>6, <2>7 DEF SlackTypes, outboxVars, inboxVars, askedVars
<1> QED
  BY <1>1, <1>2, <1>3, <1>4, <1>5, <1>6, <1>7, <1>8, <1>9, <1>10, <1>11, <1>12 DEF SlackNext

LEMMA StartsPlanned ==
  ASSUME SlackTypes, NEW w \in Workers, StartDelivery(w)
  PROVE  \E m \in Messages :
           /\ ledger[m].status = "PLANNED"
           /\ ledger' = [ledger EXCEPT ![m] = [status |-> "EXECUTING", owner |-> w]]
           /\ Goto(w, "post", m)
           /\ shown' = shown
<1>1. allowed[w] \subseteq Messages
  BY DEF SlackTypes
<1>2. QED
  BY <1>1 DEF StartDelivery, Oldest

LEMMA WellSaidStep ==
  ASSUME SlackTypes, WellSaid, [SlackNext]_slackVars
  PROVE  WellSaid'
<1>1. CASE UNCHANGED <<said, kind>>
  BY <1>1 DEF WellSaid, Verdicts
<1>2. ASSUME NEW e \in Events, Say(e) PROVE WellSaid'
  <2>1. PICK saying \in Sayings :
          /\ saying.about # Links => saying.verdict \in Verdicts(saying.about)
          /\ said' = [said EXCEPT ![e] = saying]
          /\ kind' = kind
    BY <1>2 DEF Say, outboxVars
  <2> QED
    BY <2>1 DEF WellSaid, Verdicts, SlackTypes
<1> QED
  BY <1>1, <1>2 DEF SlackNext, slackVars, PlanMessage, GiveUp, CloseApproval, MoveOn, Receive,
       RecoverEvent, StartDelivery, Post, StoreReceipt, TakeEvent, Process, CompleteEvent,
       EventLeaseLost, StorageError, Die, BarredDelivery, StartListener, outboxVars, inboxVars

-----------------------------------------------------------------------------
(* What is known of a delivery *)

\* A step that leaves the outbox alone and sends nobody to post or store.
LEMMA OutboxQuiet ==
  ASSUME DeliveryInv, UNCHANGED <<ledger, shown>>,
         \A w \in Workers : pc'[w] \in {"post", "store"} =>
           pc'[w] = pc[w] /\ doing'[w] = doing[w] /\ result'[w] = result[w]
  PROVE  DeliveryInv'
BY DEF DeliveryInv, Has

LEMMA DeliveryInit == SlackInit => DeliveryInv
BY DEF SlackInit, DeliveryInv, Has

\* The row of one message moves, in hand of nobody but its owner.
LEMMA DeliveryStep ==
  ASSUME SlackTypes, DeliveryInv, [SlackNext]_slackVars
  PROVE  DeliveryInv'
<1>1. CASE UNCHANGED slackVars
  BY <1>1, OutboxQuiet DEF slackVars, outboxVars, listenerVars
<1>2. ASSUME NEW m \in Messages, PlanMessage(m) PROVE DeliveryInv'
  <2>1. /\ ledger[m].status = "NONE"
        /\ \A n \in Messages : ledger'[n].status = IF n = m THEN "PLANNED" ELSE ledger[n].status
        /\ UNCHANGED <<shown, pc, doing, result>>
    BY <1>2 DEF PlanMessage, SlackTypes, listenerVars
  <2>2. QED
    BY <2>1 DEF DeliveryInv, Has
<1>3. ASSUME NEW m \in Messages, GiveUp(m) PROVE DeliveryInv'
  <2>1. /\ ledger[m].status = "EXECUTING"
        /\ \A n \in Messages : ledger'[n].status = IF n = m THEN "UNKNOWN_RESULT" ELSE ledger[n].status
        /\ UNCHANGED <<shown, pc, doing, result>>
    BY <1>3 DEF GiveUp, SlackTypes, listenerVars
  <2>2. QED
    BY <2>1 DEF DeliveryInv, Has
<1>4. ASSUME NEW m \in Messages, CloseApproval(m) \/ MoveOn(m) PROVE DeliveryInv'
  BY <1>4, OutboxQuiet DEF CloseApproval, MoveOn, outboxVars, listenerVars
<1>5. ASSUME NEW e \in Events, Say(e) \/ RecoverEvent(e) \/ \E acked \in BOOLEAN : Receive(e, acked)
      PROVE  DeliveryInv'
  BY <1>5, OutboxQuiet DEF Say, RecoverEvent, Receive, outboxVars, listenerVars
<1>6. ASSUME NEW w \in Workers, StartDelivery(w) PROVE DeliveryInv'
  <2>1. PICK m \in Messages :
          /\ ledger[m].status = "PLANNED"
          /\ ledger' = [ledger EXCEPT ![m] = [status |-> "EXECUTING", owner |-> w]]
          /\ Goto(w, "post", m)
    BY <1>6, StartsPlanned
  <2>2. \A n \in Messages : ledger'[n].status = IF n = m THEN "EXECUTING" ELSE ledger[n].status
    BY <2>1 DEF SlackTypes
  <2>3. \A v \in Workers : /\ pc'[v] = IF v = w THEN "post" ELSE pc[v]
                           /\ doing'[v] = IF v = w THEN m ELSE doing[v]
    BY <2>1 DEF Goto, SlackTypes
  <2>4. UNCHANGED <<shown, result>>
    BY <1>6 DEF StartDelivery
  <2>5. shown[m] = 0 /\ \A v \in Workers : ~Has(v, m)
    BY <2>1 DEF DeliveryInv
  <2>6. QED
    BY <2>2, <2>3, <2>4, <2>5 DEF DeliveryInv, Has
<1>7. ASSUME NEW w \in Workers, Post(w) PROVE DeliveryInv'
  <2> DEFINE m == doing[w]
  <2>1. m \in Messages /\ pc[w] = "post"
    BY <1>7 DEF Post, SlackTypes
  <2>2. PICK visible \in {0, 1}, answer \in {"SUCCEEDED", "FAILED", "UNKNOWN_RESULT"} :
          /\ answer = "SUCCEEDED" => visible = 1
          /\ shown' = [shown EXCEPT ![m] = @ + visible]
          /\ result' = [result EXCEPT ![w] = answer]
    BY <1>7 DEF Post
  <2>3. \A v \in Workers : /\ pc'[v] = IF v = w THEN "store" ELSE pc[v]
                           /\ doing'[v] = doing[v]
                           /\ result'[v] = IF v = w THEN answer ELSE result[v]
    BY <1>7, <2>2 DEF Post, Goto, SlackTypes
  <2>4. /\ shown[m] = 0
        /\ ledger[m].status \in {"EXECUTING", "UNKNOWN_RESULT"}
        /\ \A v \in Workers : Has(v, m) => v = w
    BY <2>1 DEF DeliveryInv, Has
  <2>5. ledger' = ledger /\ \A n \in Messages : shown'[n] = IF n = m THEN visible ELSE shown[n]
    BY <1>7, <2>1, <2>2, <2>4 DEF Post, SlackTypes
  <2>6. QED
    BY <2>1, <2>2, <2>3, <2>4, <2>5 DEF DeliveryInv, Has
<1>8. ASSUME NEW w \in Workers, StoreReceipt(w) PROVE DeliveryInv'
  <2> DEFINE m == doing[w]
  <2>1. m \in Messages /\ pc[w] = "store" /\ UNCHANGED shown
    BY <1>8 DEF StoreReceipt, SlackTypes
  <2>2. \/ UNCHANGED ledger
        \/ \A n \in Messages : ledger'[n].status = IF n = m THEN result[w] ELSE ledger[n].status
    BY <1>8, <2>1 DEF StoreReceipt, SlackTypes
  <2>3. \A v \in Workers : /\ pc'[v] = IF v = w THEN "loop" ELSE pc[v]
                           /\ v # w => doing'[v] = doing[v] /\ result'[v] = result[v]
    BY <1>8 DEF StoreReceipt, Looping, Goto, SlackTypes
  <2>4. /\ result[w] = "SUCCEEDED" => shown[m] = 1
        /\ \A v \in Workers : Has(v, m) => v = w
        /\ result[w] \in {"SUCCEEDED", "FAILED", "UNKNOWN_RESULT"}
    BY <2>1 DEF DeliveryInv, Has, SlackTypes
  <2>5. CASE UNCHANGED ledger
    BY <2>1, <2>3, <2>5 DEF DeliveryInv, Has
  <2>6. CASE \A n \in Messages : ledger'[n].status = IF n = m THEN result[w] ELSE ledger[n].status
    BY <2>1, <2>3, <2>4, <2>6 DEF DeliveryInv, Has
  <2>7. QED
    BY <2>2, <2>5, <2>6
<1>9. ASSUME NEW w \in Workers,
             \/ TakeEvent(w) \/ Process(w) \/ CompleteEvent(w)
             \/ EventLeaseLost(w) \/ StorageError(w) \/ Die(w) \/ BarredDelivery(w) \/ StartListener(w)
      PROVE  DeliveryInv'
  <2>1. UNCHANGED <<ledger, shown>>
    BY <1>9
       DEF TakeEvent, Process, CompleteEvent, EventLeaseLost, StorageError, Die, BarredDelivery,
           StartListener, outboxVars
  <2>2. \E step \in {"loop", "process", "complete", "ended"} : pc' = [pc EXCEPT ![w] = step]
    BY <1>9
       DEF TakeEvent, Process, CompleteEvent, EventLeaseLost, StorageError, Die, BarredDelivery,
           StartListener, Looping, Goto
  <2>3. \A v \in Workers \ {w} : doing'[v] = doing[v] /\ result'[v] = result[v]
    BY <1>9
       DEF TakeEvent, Process, CompleteEvent, EventLeaseLost, StorageError, Die, BarredDelivery,
           StartListener, Looping, Goto,
                SlackTypes
  <2>4. \A v \in Workers : pc'[v] \in {"post", "store"} =>
           pc'[v] = pc[v] /\ doing'[v] = doing[v] /\ result'[v] = result[v]
    BY <2>2, <2>3 DEF SlackTypes
  <2>5. QED
    BY <2>1, <2>4, OutboxQuiet
<1>10. QED
  BY <1>1, <1>2, <1>3, <1>4, <1>5, <1>6, <1>7, <1>8, <1>9 DEF SlackNext

-----------------------------------------------------------------------------
(* Events *)

LEMMA EffectStep ==
  ASSUME SlackTypes, EventEffectOnce, [SlackNext]_slackVars
  PROVE  EventEffectOnce'
<1>1. CASE UNCHANGED <<inbox, effects>>
  BY <1>1 DEF EventEffectOnce
<1>2. ASSUME NEW e \in Events, NEW acked \in BOOLEAN, Receive(e, acked) PROVE EventEffectOnce'
  BY <1>2 DEF Receive, EventEffectOnce, SlackTypes
<1>3. ASSUME NEW w \in Workers, Process(w) PROVE EventEffectOnce'
  <2>1. PICK e \in Events :
          \/ /\ inbox[e] = "PENDING"
             /\ effects' = [effects EXCEPT ![e] = @ + 1]
             /\ inbox' = [inbox EXCEPT ![e] = "PROCESSED"]
          \/ /\ inbox[e] = "PENDING"
             /\ inbox' = [inbox EXCEPT ![e] = "REJECTED"]
             /\ UNCHANGED effects
          \/ UNCHANGED <<inbox, effects>>
    BY <1>3 DEF Process, SlackTypes
  <2>2. QED
    BY <2>1 DEF EventEffectOnce, SlackTypes
<1>4. QED
  BY <1>1, <1>2, <1>3 DEF SlackNext, slackVars, PlanMessage, GiveUp, CloseApproval, MoveOn, Say,
       RecoverEvent, StartDelivery, Post, StoreReceipt, TakeEvent, CompleteEvent, EventLeaseLost,
       StorageError, Die, BarredDelivery, StartListener, inboxVars

\* What an answer rests on stays as it is.
LEMMA AnswersStay ==
  ASSUME SlackTypes, [SlackNext]_slackVars,
         NEW m \in Messages, NEW e \in Events,
         said[e].about = m, inbox[e] = "PROCESSED", ledger[m].status = "SUCCEEDED"
  PROVE  said'[e].about = m /\ inbox'[e] = "PROCESSED" /\ ledger'[m].status = "SUCCEEDED"
<1>1. said'[e] = said[e]
  <2>1. said[e] # Unsaid
    BY MessagesAssumption DEF Unsaid, Links, Messages
  <2>2. ASSUME NEW f \in Events, Say(f) PROVE said'[e] = said[e]
    BY <2>1, <2>2 DEF Say, SlackTypes
  <2>3. QED
    BY <2>2 DEF SlackNext, slackVars, PlanMessage, GiveUp, CloseApproval, MoveOn, Receive,
       RecoverEvent, StartDelivery, Post, StoreReceipt, TakeEvent, Process, CompleteEvent,
       EventLeaseLost, StorageError, Die, BarredDelivery, StartListener, inboxVars
<1>2. inbox'[e] = "PROCESSED"
  <2>1. ASSUME NEW f \in Events, NEW acked \in BOOLEAN, Receive(f, acked) PROVE inbox'[e] = inbox[e]
    BY <2>1 DEF Receive, SlackTypes
  <2>2. ASSUME NEW w \in Workers, Process(w) PROVE inbox'[e] = inbox[e]
    BY <2>2 DEF Process, SlackTypes
  <2>3. QED
    BY <2>1, <2>2 DEF SlackNext, slackVars, PlanMessage, GiveUp, CloseApproval, MoveOn, Say,
       RecoverEvent, StartDelivery, Post, StoreReceipt, TakeEvent, CompleteEvent, EventLeaseLost,
       StorageError, Die, BarredDelivery, StartListener, inboxVars
<1>3. ledger'[m].status = "SUCCEEDED"
  <2>1. ASSUME NEW n \in Messages, PlanMessage(n) \/ GiveUp(n) PROVE ledger'[m] = ledger[m]
    BY <2>1 DEF PlanMessage, GiveUp, SlackTypes
  <2>2. ASSUME NEW w \in Workers, StartDelivery(w) \/ StoreReceipt(w) PROVE ledger'[m] = ledger[m]
    BY <2>2, StartsPlanned DEF StoreReceipt, SlackTypes
  <2>3. QED
    BY <2>1, <2>2 DEF SlackNext, slackVars, CloseApproval, MoveOn, Say, Receive, RecoverEvent,
       Post, TakeEvent, Process, CompleteEvent, EventLeaseLost, StorageError, Die, BarredDelivery,
       StartListener, outboxVars
<1>4. QED
  BY <1>1, <1>2, <1>3

\* Only Process makes a new answer, of an event that it has in hand.
LEMMA NewAnswer ==
  ASSUME SlackTypes, [SlackNext]_slackVars, NEW m \in Messages, reply'[m] \in Events,
         reply'[m] # reply[m]
  PROVE  \E e \in Events : /\ reply'[m] = e /\ said[e].about = m /\ UNCHANGED <<said, ledger>>
                           /\ ledger[m].status = "SUCCEEDED" /\ inbox'[e] = "PROCESSED"
<1>1. PICK w \in Workers : Process(w)
  <2>1. ~UNCHANGED reply
    OBVIOUS
  <2>2. ASSUME NEW n \in Messages, MoveOn(n) PROVE FALSE
    BY <2>2, EventsAssumption DEF MoveOn, SlackTypes, Moved, Events
  <2>3. QED
    BY <2>1, <2>2 DEF SlackNext, slackVars, PlanMessage, GiveUp, CloseApproval, Say, Receive,
       RecoverEvent, StartDelivery, Post, StoreReceipt, TakeEvent, CompleteEvent, EventLeaseLost,
       StorageError, Die, BarredDelivery, StartListener, askedVars
<1> DEFINE e == doing[w]
<1>2. /\ e \in Events /\ Acceptable(e) /\ Effect(e) /\ inbox' = [inbox EXCEPT ![e] = "PROCESSED"]
      /\ UNCHANGED <<said, ledger>>
  BY <1>1 DEF Process, SlackTypes, askedVars, outboxVars
<1>3. /\ said[e].about # Links
      /\ reply' = [reply EXCEPT ![said[e].about] = e]
  BY <1>2 DEF Effect, askedVars
<1>4. m = said[e].about /\ reply'[m] = e
  BY <1>3 DEF SlackTypes
<1>5. ledger[m].status = "SUCCEEDED"
  BY <1>2, <1>3, <1>4 DEF Acceptable
<1>6. inbox'[e] = "PROCESSED"
  BY <1>2 DEF SlackTypes
<1>7. QED
  BY <1>2, <1>4, <1>5, <1>6

LEMMA AnswersStep ==
  ASSUME SlackTypes, DeliveryInv', AnswersConfirmed, [SlackNext]_slackVars
  PROVE  AnswersConfirmed'
<1> SUFFICES ASSUME NEW m \in Messages, reply'[m] \in Events
             PROVE  /\ said'[reply'[m]].about = m /\ inbox'[reply'[m]] = "PROCESSED"
                    /\ ledger'[m].status = "SUCCEEDED" /\ shown'[m] = 1
  BY DEF AnswersConfirmed, Events
<1>1. /\ said'[reply'[m]].about = m /\ inbox'[reply'[m]] = "PROCESSED"
      /\ ledger'[m].status = "SUCCEEDED"
  <2>1. CASE reply'[m] = reply[m]
    BY <2>1, AnswersStay DEF AnswersConfirmed
  <2>2. CASE reply'[m] # reply[m]
    BY <2>2, NewAnswer
  <2>3. QED
    BY <2>1, <2>2
<1>2. shown'[m] = 1
  BY <1>1 DEF DeliveryInv
<1>3. QED
  BY <1>1, <1>2

-----------------------------------------------------------------------------
(* Theorems *)

\* The types, what was said, and what is known of deliveries, events and answers
\* are invariant together (slack/actions.py, slack/control.py).
THEOREM SlackInvariance == SlackSpec => []SlackInv
<1>1. SlackInit => SlackInv
  <2> SUFFICES ASSUME SlackInit PROVE SlackInv
    OBVIOUS
  <2>1. WellSaid /\ EventEffectOnce
    BY DEF SlackInit, WellSaid, Unsaid, EventEffectOnce
  <2>2. AnswersConfirmed
    BY EventsAssumption DEF SlackInit, AnswersConfirmed, Unanswered, Events
  <2>3. QED
    BY <2>1, <2>2, TypesInit, DeliveryInit DEF SlackInv
<1>2. SlackInv /\ [SlackNext]_slackVars => SlackInv'
  BY TypesStep, WellSaidStep, DeliveryStep, EffectStep, AnswersStep DEF SlackInv
<1>3. QED
  BY <1>1, <1>2, PTL DEF SlackSpec

\* Every row of the ledger and the inbox, every listener and every decision keeps
\* its type, for any messages, events and listeners.
THEOREM SlackTypeCorrect == SlackSpec => []SlackTypes
<1>1. SlackInv => SlackTypes
  BY DEF SlackInv
<1>2. QED
  BY <1>1, SlackInvariance, PTL

\* An event takes effect once and exactly when it is PROCESSED, through
\* redeliveries, crashes, storage errors and lost leases (control.py:_process).
THEOREM OneEffect == SlackSpec => []EventEffectOnce
<1>1. SlackInv => EventEffectOnce
  BY DEF SlackInv
<1>2. QED
  BY <1>1, SlackInvariance, PTL

\* A task is resumed only by what was said about its message, which was shown
\* once and has its receipt (control.py:_process, actions.py:deliver_one).
THEOREM ConfirmedAnswers == SlackSpec => []AnswersConfirmed
<1>1. SlackInv => AnswersConfirmed
  BY DEF SlackInv
<1>2. QED
  BY <1>1, SlackInvariance, PTL

\* The outbox implements ExternalEffect: a message is posted at most once, and
\* its row says nothing untrue of it (actions.py:deliver_one, recover).
THEOREM OutboxRefines == SlackSpec => PostedAtMostOnce
<1> USE
   DEF Outbox!Stay, Outbox!Plan, Outbox!Begin, Outbox!Perform, Outbox!Conclude, Outbox!Reconcile
<1>1. SlackInit => Outbox!EffectInit
  BY DEF SlackInit, Outbox!EffectInit
<1>2. ASSUME SlackInv, SlackInv', [SlackNext]_slackVars
      PROVE  [Outbox!EffectNext]_(Outbox!effectVars)
  <2> DEFINE stage == [m \in Messages |-> ledger[m].status]
  <2>1. CASE UNCHANGED slackVars
    BY <2>1 DEF slackVars, outboxVars, Outbox!effectVars
  <2>2. CASE SlackNext
    <3>1. UNCHANGED <<ledger, shown>> => UNCHANGED Outbox!effectVars
      BY DEF Outbox!effectVars
    <3>2. DOMAIN stage' = Messages /\ DOMAIN shown' = Messages
      BY <1>2 DEF SlackInv, SlackTypes
    <3>3. ASSUME NEW m \in Messages, PlanMessage(m) \/ GiveUp(m) PROVE Outbox!EffectNext
      <4>1. /\ shown' = shown
            /\ \A n \in Messages : n # m => ledger'[n] = ledger[n]
            /\ \/ ledger[m].status = "NONE" /\ ledger'[m].status = "PLANNED"
               \/ ledger[m].status = "EXECUTING" /\ ledger'[m].status = "UNKNOWN_RESULT"
        BY <1>2, <3>3 DEF PlanMessage, GiveUp, SlackInv, SlackTypes
      <4>2. QED
        BY <3>2, <4>1 DEF Outbox!EffectNext
    <3>4. ASSUME NEW w \in Workers, StartDelivery(w) PROVE Outbox!EffectNext
      <4>1. PICK m \in Messages :
              /\ shown' = shown
              /\ \A n \in Messages : n # m => ledger'[n] = ledger[n]
              /\ ledger[m].status = "PLANNED" /\ ledger'[m].status = "EXECUTING"
        BY <1>2, <3>4, StartsPlanned DEF SlackInv, SlackTypes
      <4>2. QED
        BY <3>2, <4>1 DEF Outbox!EffectNext
    <3>5. ASSUME NEW w \in Workers, Post(w) PROVE Outbox!EffectNext
      <4> DEFINE m == doing[w]
      <4>1. /\ m \in Messages /\ ledger' = ledger /\ shown[m] = 0
            /\ ledger[m].status \in {"EXECUTING", "UNKNOWN_RESULT"}
        BY <1>2, <3>5 DEF Post, SlackInv, SlackTypes, DeliveryInv, Has
      <4>2. shown'[m] \in {0, 1} /\ \A n \in Messages : n # m => shown'[n] = shown[n]
        BY <1>2, <3>5, <4>1 DEF Post, SlackInv, SlackTypes
      <4>3. QED
        BY <3>2, <4>1, <4>2 DEF Outbox!EffectNext
    <3>6. ASSUME NEW w \in Workers, StoreReceipt(w) PROVE Outbox!EffectNext
      <4> DEFINE m == doing[w]
      <4>1. /\ m \in Messages /\ shown' = shown /\ pc[w] = "store"
            /\ \A n \in Messages : n # m => ledger'[n] = ledger[n]
            /\ \/ ledger'[m].status = ledger[m].status
               \/ ledger[m].status = "EXECUTING" /\ ledger'[m].status = result[w]
        BY <1>2, <3>6 DEF StoreReceipt, SlackInv, SlackTypes
      <4>2. /\ result[w] = "SUCCEEDED" => shown[m] = 1
            /\ result[w] \in {"SUCCEEDED", "FAILED", "UNKNOWN_RESULT"}
        BY <1>2, <4>1 DEF SlackInv, SlackTypes, DeliveryInv, Has
      <4>3. QED
        BY <3>2, <4>1, <4>2 DEF Outbox!EffectNext
    <3>7. QED
      BY <2>2, <3>1, <3>3, <3>4, <3>5, <3>6 DEF SlackNext, CloseApproval, MoveOn, Say, Receive,
         RecoverEvent, TakeEvent, Process, CompleteEvent, EventLeaseLost, StorageError, Die,
         BarredDelivery, StartListener, outboxVars
  <2>3. QED
    BY <1>2, <2>1, <2>2
<1>3. QED
  BY <1>1, <1>2, SlackInvariance, PTL DEF SlackSpec, PostedAtMostOnce, Outbox!EffectSpec

-----------------------------------------------------------------------------
(* The tasks of the events                                                    *)

\* An event that is not in the inbox has no task yet.
TasksOfEvents == DOMAIN task = Tasks /\ \A e \in Events : inbox[e] = "NONE" => task[e].status = "ABSENT"

RowsMove == DOMAIN task' = Tasks /\ \A t \in Tasks : RowStep(t)

LEMMA RowMoves ==
  ASSUME DOMAIN task = Tasks, NEW e \in Tasks, NEW row, task' = [task EXCEPT ![e] = row],
         task'[e] = row => RowStep(e)
  PROVE  RowsMove
<1>1. DOMAIN task' = Tasks /\ task'[e] = row
  OBVIOUS
<1>2. \A t \in Tasks : t # e => task'[t] = task[t]
  OBVIOUS
<1> QED BY <1>1, <1>2 DEF RowsMove, RowStep

LEMMA EventRowsMove ==
  ASSUME SlackTypes, TasksOfEvents, [SlackNext]_slackVars
  PROVE  RowsMove
<1> USE DEF TasksOfEvents
<1>1. Tasks = Events
  BY EventsAssumption
<1>2. CASE UNCHANGED task
  BY <1>2 DEF RowsMove, RowStep
<1>3. ASSUME NEW e \in Events, RecoverEvent(e) PROVE RowsMove
  <2>1. CASE task[e].status = "ACTIVE" /\ task' = [task EXCEPT ![e] = Lapsed(task[e], e)]
    BY <1>1, <2>1, RowMoves DEF RowStep, EndRow
  <2>2. CASE task[e].status = "WAITING_RETRY" /\ task' = [task EXCEPT ![e].status = "READY"]
    <3>1. task' = [task EXCEPT ![e] = [task[e] EXCEPT !.status = "READY"]]
      BY <2>2
    <3> QED BY <1>1, <2>2, <3>1, RowMoves DEF RowStep, WakeRow
  <2> QED BY <1>3, <2>1, <2>2 DEF RecoverEvent, RecoverTask
<1>4. ASSUME NEW e \in Events, NEW acked \in BOOLEAN, Receive(e, acked) PROVE RowsMove
  <2>1. CASE inbox[e] = "NONE"
    <3>1. task' = [task EXCEPT ![e] = Published("READY")]
      BY <1>4, <2>1 DEF Receive
    <3> QED BY <1>1, <2>1, <3>1, RowMoves DEF RowStep, PublishRow
  <2> QED BY <1>2, <1>4, <2>1 DEF Receive
<1>5. ASSUME NEW w \in Workers, TakeEvent(w) PROVE RowsMove
  <2>1. PICK e \in Events : Claimable(e) /\ task' = [task EXCEPT ![e] = Granted(task[e], w, FALSE)]
    BY <1>5 DEF TakeEvent
  <2>2. task'[e] = Granted(task[e], w, FALSE) => GrantRow(e)
    BY <2>1 DEF GrantRow, Claimable
  <2> QED BY <1>1, <2>1, <2>2, RowMoves DEF RowStep
<1>6. ASSUME NEW w \in Workers, CompleteEvent(w) \/ StorageError(w) PROVE RowsMove
  <2>1. doing[w] \in Events /\ task[doing[w]].status = "ACTIVE"
    BY <1>6 DEF SlackTypes, CompleteEvent, StorageError, Fence
  <2>2. PICK row \in {Ended(task[doing[w]], "SUCCEEDED"), Retried(task[doing[w]], doing[w], TRUE)} :
          task' = [task EXCEPT ![doing[w]] = row]
    BY <1>6 DEF CompleteEvent, StorageError
  <2> QED BY <1>1, <2>1, <2>2, RowMoves DEF RowStep, EndRow
<1>7. CASE UNCHANGED slackVars
  BY <1>2, <1>7 DEF slackVars
<1>8. ASSUME NEW m \in Messages, PlanMessage(m) \/ GiveUp(m) \/ CloseApproval(m) \/ MoveOn(m)
      PROVE  RowsMove
  BY <1>2, <1>8 DEF PlanMessage, GiveUp, CloseApproval, MoveOn
<1>9. ASSUME NEW e \in Events, Say(e) PROVE RowsMove
  BY <1>2, <1>9 DEF Say
<1>10. ASSUME NEW w \in Workers,
              StartDelivery(w) \/ Post(w) \/ StoreReceipt(w) \/ Process(w) \/ EventLeaseLost(w) \/ Die(w) \/ BarredDelivery(w) \/ StartListener(w)
       PROVE  RowsMove
  BY <1>2, <1>10
     DEF StartDelivery, Post, StoreReceipt, Process, EventLeaseLost, Die, BarredDelivery,
         StartListener
<1> QED BY <1>3, <1>4, <1>5, <1>6, <1>7, <1>8, <1>9, <1>10 DEF SlackNext

LEMMA TasksStay ==
  ASSUME SlackTypes, TasksOfEvents, [SlackNext]_slackVars, RowsMove
  PROVE  TasksOfEvents'
<1> SUFFICES ASSUME NEW f \in Events, inbox'[f] = "NONE" PROVE task'[f].status = "ABSENT"
  BY DEF TasksOfEvents, RowsMove
<1> USE EventsAssumption DEF TasksOfEvents
<1>1. CASE UNCHANGED inbox /\ task'[f] = task[f]
  BY <1>1
<1>2. ASSUME NEW e \in Events, RecoverEvent(e) PROVE task'[f].status = "ABSENT"
  BY <1>2 DEF RecoverEvent, RecoverTask, inboxVars
<1>3. ASSUME NEW e \in Events, NEW acked \in BOOLEAN, Receive(e, acked) PROVE task'[f].status = "ABSENT"
  BY <1>3 DEF Receive, SlackTypes
<1>4. ASSUME NEW w \in Workers, TakeEvent(w) PROVE task'[f].status = "ABSENT"
  BY <1>4 DEF TakeEvent, Claimable, inboxVars
<1>5. ASSUME NEW w \in Workers, CompleteEvent(w) \/ StorageError(w) PROVE task'[f].status = "ABSENT"
  BY <1>5 DEF CompleteEvent, StorageError, Fence, inboxVars
<1>6. ASSUME NEW w \in Workers, Process(w) PROVE task'[f].status = "ABSENT"
  BY <1>6 DEF Process, SlackTypes
<1>7. CASE UNCHANGED slackVars
  BY <1>1, <1>7 DEF slackVars, inboxVars
<1>8. ASSUME NEW m \in Messages, PlanMessage(m) \/ GiveUp(m) \/ CloseApproval(m) \/ MoveOn(m)
      PROVE  task'[f].status = "ABSENT"
  BY <1>1, <1>8 DEF PlanMessage, GiveUp, CloseApproval, MoveOn, inboxVars
<1>9. ASSUME NEW e \in Events, Say(e) PROVE task'[f].status = "ABSENT"
  BY <1>1, <1>9 DEF Say
<1>10. ASSUME NEW w \in Workers,
              StartDelivery(w) \/ Post(w) \/ StoreReceipt(w) \/ EventLeaseLost(w) \/ Die(w) \/ BarredDelivery(w) \/ StartListener(w)
       PROVE  task'[f].status = "ABSENT"
  BY <1>1, <1>10
     DEF StartDelivery, Post, StoreReceipt, EventLeaseLost, Die, BarredDelivery, StartListener,
         inboxVars
<1> QED BY <1>2, <1>3, <1>4, <1>5, <1>6, <1>7, <1>8, <1>9, <1>10 DEF SlackNext

\* Whatever listeners, deliveries and recoveries do, each row of SLACK_PROCESS_EVENT
\* moves only as one of the transactions of QueueService moves it.
THEOREM EventTasksConform == SlackSpec => [][\A t \in Tasks : RowStep(t)]_slackVars
<1>1. SlackInit => TasksOfEvents
  BY EventsAssumption DEF SlackInit, TasksOfEvents, Absent
<1>2. ASSUME SlackInv, TasksOfEvents, [SlackNext]_slackVars PROVE RowsMove /\ TasksOfEvents'
  BY <1>2, EventRowsMove, TasksStay DEF SlackInv
<1>3. /\ SlackInv /\ TasksOfEvents /\ [SlackNext]_slackVars => TasksOfEvents'
      /\ SlackInv /\ TasksOfEvents /\ [SlackNext]_slackVars => [\A t \in Tasks : RowStep(t)]_slackVars
  BY <1>2 DEF RowsMove
<1> QED BY <1>1, <1>3, SlackInvariance, PTL DEF SlackSpec
=============================================================================
