------------------------ MODULE FormPreparationProofs ------------------------
(***************************************************************************)
(* Proofs about FormPreparation, for any form, workers, humans and faults: *)
(* only approved values are filled, and a form that is ready for review    *)
(* holds what its review shows.                                            *)
(*                                                                         *)
(* A browser session is not fenced: a worker may fill a field long after   *)
(* it lost its lease.  What protects it is the domain lock, which makes    *)
(* any other attempt fail before it touches the answers, and the fact that *)
(* a human's reply is only awaited when nobody is in the browser.          *)
(***************************************************************************)
EXTENDS FormPreparation, TLAPS

Kinds == {"READY", "ACTIVE", "WAITING_HUMAN", "WAITING_RETRY", "SUCCEEDED", "FAILED"}
Rows == [status : Kinds, owner : Workers \cup {Null}, spent : Nat]
Maybe == Values \cup {Null}
FieldValues == [Fields -> Maybe]
Memories == [approval : Nat, kind : Interrupts, field : Fields \cup {Null},
             reply : Maybe \cup {Decided}, answered : FieldValues, continuation : BOOLEAN]
Approvals == [plan : UNION {[S -> Maybe] : S \in SUBSET Fields},
              status : {"PENDING", "APPROVED", "REJECTED", "REVOKED", "CONSUMED"},
              overdue : BOOLEAN, asked : BOOLEAN]
Actions == [status : {"NONE", "PLANNED", "EXECUTING", "UNKNOWN_RESULT", "SUCCEEDED"}, approval : Nat]
Answers == [value : Maybe, status : {"NONE", "NEEDS_USER", "FILLED", "VALIDATED"}]
Sessions == [holder : Workers \cup {Null}, page : Nat, shown : FieldValues]

\* The steps of an attempt: before it has a browser session, those that store or
\* look up the answers, those with a plan, those that act on one field, the rest.
Acting == {"plan", "start", "restore", "fill", "record", "reconcile", "unknown", "mark", "validate",
           "checkpoint"}
Planned == {"remember", "revalidate"} \cup Acting
Answered == {"approve"} \cup Planned
Busy == {"inspect", "resolve", "advance", "turn", "finish", "wait", "suspend"} \cup Answered
Holding == Busy \cup {"tell"}
Steps == {"idle", "reply", "forget", "open", "raise"} \cup Holding
Locals == [pc : Steps, idx : Nat \ {0}, use : Nat,
           believed : {"PENDING", "APPROVED", "REJECTED", "REVOKED", "CONSUMED"}, ask : Interrupts,
           round : Nat \ {0}]
In(w, steps) == local[w].pc \in steps

FormTypes ==
  /\ final \in FinalPages
  /\ task \in [Tasks -> Rows]
  /\ at \in 1 .. final
  /\ memory \in Memories
  /\ memory.approval <= Len(approvals)
  /\ memory.kind = "FORM_FIELD" => memory.field \in Range(Pages[at])
  /\ approvals \in Seq(Approvals)
  /\ ledger \in [Pairs -> Actions]
  /\ answers \in [Fields -> Answers]
  /\ known \in FieldValues
  /\ session \in Sessions /\ session.page \in 1 .. final
  /\ filed \in FieldValues
  /\ local \in [Workers -> Locals]

\* The domain lock: whoever works in the browser holds the session.
Lock == \A w \in Workers : In(w, Holding) => session.holder = w

\* No human is asked about a field while a worker is in the browser, and a reply
\* that is remembered is a value of its field.
AskedField == memory.kind = "FORM_FIELD"
NoReply ==
  /\ \A w \in Workers : In(w, Busy) => ~AskedField
  /\ \A w \in Workers : At(w, "open") /\ Fence(Form, w) => ~AskedField
  /\ \A w \in Workers : At(w, "forget") /\ Fence(Form, w) /\ AskedField => memory.reply \in Values
  /\ memory.reply = Null /\ AskedField => task[Form].status = "WAITING_HUMAN"

\* Where an attempt is on its page, ...
OnPage(w) ==
  /\ In(w, Busy \ {"turn"}) => session.page = at
  /\ At(w, "turn") => session.page = at + 1
  /\ In(w, Acting \cup {"resolve"}) => local[w].idx <= Len(Page)
  /\ In(w, {"wait", "suspend"}) /\ local[w].ask = "FORM_FIELD" => local[w].idx <= Len(Page)
  /\ In(w, {"approve", "remember", "revalidate"}) /\ Page = <<>> => session.page # final
  /\ At(w, "advance") => session.page # final
  /\ At(w, "finish") => session.page = final

\* ... that the values it wants are those of the plan that its approval is for, ...
HasPlan(w) ==
  /\ At(w, "resolve") => \A i \in 1 .. local[w].idx - 1 : answers[Page[i]].value \in Values
  /\ In(w, Answered) => \A i \in 1 .. Len(Page) : answers[Page[i]].value \in Values
  /\ In(w, Planned) => /\ local[w].use \in 1 .. Len(approvals)
                       /\ approvals[local[w].use].plan = PlanOf(session.page)

Row(w) == ledger[<<Field(w), Wanted(w)>>]
Begun == {"EXECUTING", "UNKNOWN_RESULT", "SUCCEEDED"}

\* ... that the row of its field is its own, ...
HasRow(w) ==
  /\ In(w, {"start", "restore", "fill", "record", "reconcile", "unknown"}) => Row(w).approval = local[w].use
  /\ At(w, "start") => Row(w).status = "PLANNED"
  /\ At(w, "restore") => Row(w).status = "SUCCEEDED"
  /\ In(w, {"fill", "record", "reconcile", "unknown"}) => Row(w).status \in {"EXECUTING", "UNKNOWN_RESULT"}

\* ... and that the fields before it are done.
ShownDone(f) ==
  /\ session.shown[f] = answers[f].value /\ answers[f].value # Null
  /\ answers[f].status = "VALIDATED"
  /\ ledger[<<f, answers[f].value>>].status = "SUCCEEDED"
HasDone(w) ==
  /\ In(w, Acting) => \A i \in 1 .. local[w].idx - 1 : ShownDone(Page[i])
  /\ In(w, {"mark", "validate"}) => session.shown[Field(w)] = Wanted(w) /\ Row(w).status = "SUCCEEDED"
  /\ At(w, "checkpoint") => ShownDone(Field(w))
  /\ In(w, {"advance", "finish"}) => \A i \in 1 .. Len(Page) : ShownDone(Page[i])

Attempts == \A w \in Workers : In(w, Busy) => OnPage(w) /\ HasPlan(w) /\ HasRow(w) /\ HasDone(w)

\* An action that began used up its approval.
BegunConsumed ==
  \A p \in Pairs : ledger[p].status \in Begun =>
    ledger[p].approval \in 1 .. Len(approvals) /\ approvals[ledger[p].approval].status = "CONSUMED"

\* The pages before the present one are done.
FiledDone(f) ==
  /\ filed[f] # Null
  /\ answers[f] = [value |-> filed[f], status |-> "VALIDATED"]
  /\ ledger[<<f, filed[f]>>].status = "SUCCEEDED"
Before(page) == \A p \in 1 .. page - 1 : \A f \in Range(Pages[p]) : FiledDone(f)
Earlier == Before(at) /\ \A w \in Workers : At(w, "turn") => Before(at + 1)

\* A form that is ready is nobody's work any more.  Its last page was filled and
\* seen, but the portal need not hold it.
Seen(f) ==
  answers[f].status = "VALIDATED" /\ answers[f].value # Null /\ ledger[<<f, answers[f].value>>].status = "SUCCEEDED"
Reviewable ==
  /\ task[Form].status = "SUCCEEDED"
  /\ \A w \in Workers : ~In(w, Holding)
  /\ Before(final) /\ \A f \in Range(Pages[final]) : Seen(f)
Ready == app = "READY_TO_REVIEW" => Reviewable

\* What the portal holds once a page was advanced.
Kept == [f \in Fields |-> IF f \in Range(Page) THEN session.shown[f] ELSE filed[f]]

FormInv == FormTypes /\ Lock /\ NoReply /\ Attempts /\ BegunConsumed /\ FillsApproved /\ Earlier /\ Ready

-----------------------------------------------------------------------------
(* Pages and fields *)

LEMMA PageOf ==
  ASSUME NEW p \in 1 .. Len(Pages)
  PROVE  /\ Pages[p] \in Seq(Fields) /\ Len(Pages[p]) \in Nat
         /\ Range(Pages[p]) \subseteq Fields
         /\ \A i \in 1 .. Len(Pages[p]) : Pages[p][i] \in Range(Pages[p]) /\ Pages[p][i] \in Fields
         /\ \A f \in Range(Pages[p]) : \E i \in 1 .. Len(Pages[p]) : f = Pages[p][i]
         /\ Pages[p] = <<>> <=> Len(Pages[p]) = 0
<1>1. Pages[p] \in Seq(Fields)
  BY PagesAssumption
<1>2. QED
  BY <1>1 DEF Range

LEMMA PageTypes ==
  ASSUME FormTypes
  PROVE  /\ final \in 1 .. Len(Pages) /\ at \in 1 .. Len(Pages) /\ session.page \in 1 .. Len(Pages)
         /\ Len(Page) \in Nat /\ Range(Page) \subseteq Fields
         /\ \A i \in 1 .. Len(Page) : Page[i] \in Range(Page) /\ Page[i] \in Fields
         /\ \A f \in Range(Page) : \E i \in 1 .. Len(Page) : f = Page[i]
         /\ Page = <<>> <=> Len(Page) = 0
<1>1. Pages \in Seq(Seq(Fields)) /\ FinalPages \subseteq 1 .. Len(Pages)
  BY PagesAssumption
<1>2. final \in 1 .. Len(Pages) /\ at \in 1 .. Len(Pages) /\ session.page \in 1 .. Len(Pages)
  BY <1>1 DEF FormTypes
<1>3. QED
  BY <1>2, PageOf DEF Page

\* No field is on two pages.
LEMMA Apart ==
  ASSUME NEW p \in 1 .. Len(Pages), NEW q \in 1 .. Len(Pages), p # q, NEW f \in Range(Pages[p])
  PROVE  f \notin Range(Pages[q])
BY PagesAssumption

LEMMA OneForm == Form \in Tasks /\ \A t \in Tasks : t = Form
BY FormAssumption

\* The field that a worker acts on, the value it wants, and its approval.
LEMMA OwnField ==
  ASSUME FormInv, NEW w \in Workers, In(w, Acting)
  PROVE  /\ session.holder = w /\ session.page = at
         /\ local[w].idx \in 1 .. Len(Page)
         /\ Field(w) \in Range(Page) /\ Field(w) \in Fields
         /\ Wanted(w) \in Values /\ <<Field(w), Wanted(w)>> \in Pairs
         /\ local[w].use \in 1 .. Len(approvals)
         /\ Field(w) \in DOMAIN approvals[local[w].use].plan
         /\ approvals[local[w].use].plan[Field(w)] = Wanted(w)
<1>1. In(w, Busy) /\ In(w, Holding) /\ In(w, Busy \ {"turn"}) /\ In(w, Answered) /\ In(w, Planned)
  BY DEF In, Acting, Planned, Answered, Busy, Holding
<1>2. session.holder = w /\ OnPage(w) /\ HasPlan(w)
  BY <1>1 DEF FormInv, Lock, Attempts
<1>3. local[w].idx \in 1 .. Len(Page) /\ session.page = at
  BY <1>1, <1>2, PageTypes DEF OnPage, In, FormInv, FormTypes, Locals
<1>4. Field(w) \in Range(Page) /\ Field(w) \in Fields
  BY <1>3, PageTypes DEF Field, FormInv
<1>5. Wanted(w) \in Values
  BY <1>1, <1>2, <1>3 DEF HasPlan, Wanted, Field
<1>6. local[w].use \in 1 .. Len(approvals) /\ approvals[local[w].use].plan = PlanOf(session.page)
  BY <1>1, <1>2 DEF HasPlan
<1>7. Field(w) \in DOMAIN PlanOf(session.page) /\ PlanOf(session.page)[Field(w)] = Wanted(w)
  BY <1>4 DEF PlanOf, Wanted, Page
<1>8. QED
  BY <1>2, <1>3, <1>4, <1>5, <1>6, <1>7 DEF Pairs

-----------------------------------------------------------------------------
(* What a step does to its worker *)

Others(w) == \A v \in Workers \ {w} : local'[v] = local[v]

LEMMA Moves ==
  ASSUME FormTypes, NEW w \in Workers, NEW new \in Locals, local' = [local EXCEPT ![w] = new]
  PROVE  local' \in [Workers -> Locals] /\ local'[w] = new /\ Others(w)
BY DEF FormTypes, Others

LEMMA Goes ==
  ASSUME FormTypes, NEW w \in Workers, NEW step \in Steps, Goto(w, step)
  PROVE  /\ local' \in [Workers -> Locals] /\ Others(w)
         /\ local'[w] = [local[w] EXCEPT !.pc = step] /\ local'[w].pc = step
<1>1. [local[w] EXCEPT !.pc = step] \in Locals /\ [local[w] EXCEPT !.pc = step].pc = step
  BY DEF FormTypes, Locals
<1>2. local' = [local EXCEPT ![w] = [local[w] EXCEPT !.pc = step]]
  BY DEF Goto
<1>3. QED
  BY <1>1, <1>2, Moves

LEMMA Asks ==
  ASSUME FormTypes, NEW w \in Workers, NEW kind \in Interrupts, Ask(w, kind)
  PROVE  /\ local' \in [Workers -> Locals] /\ Others(w)
         /\ local'[w] = [local[w] EXCEPT !.pc = "wait", !.ask = kind]
         /\ local'[w].pc = "wait" /\ local'[w].ask = kind
<1> DEFINE new == [local[w] EXCEPT !.pc = "wait", !.ask = kind]
<1>1. new \in Locals /\ new.pc = "wait" /\ new.ask = kind
  BY DEF FormTypes, Locals, Steps, Holding, Busy
<1>2. local' = [local EXCEPT ![w] = new]
  BY DEF Ask
<1>3. QED
  BY <1>1, <1>2, Moves

LEMMA Raises ==
  ASSUME FormTypes, NEW w \in Workers, Raise(w)
  PROVE  /\ local' \in [Workers -> Locals] /\ Others(w)
         /\ local'[w] = [local[w] EXCEPT !.pc = "raise"] /\ local'[w].pc = "raise"
BY Goes DEF Raise, Steps

LEMMA Leaves ==
  ASSUME FormTypes, NEW w \in Workers, Leave(w)
  PROVE  /\ local' \in [Workers -> Locals] /\ Others(w) /\ local'[w].pc = "idle"
         /\ session' = IF session.holder = w THEN Closed ELSE session
         /\ session' \in Sessions /\ session'.page \in 1 .. final
<1>1. Idle \in Locals /\ Idle.pc = "idle"
  BY DEF Idle, Locals, Steps, Interrupts
<1>2. local' \in [Workers -> Locals] /\ Others(w) /\ local'[w].pc = "idle"
  BY <1>1, Moves DEF Leave
<1>3. Closed \in Sessions /\ Closed.page = 1
  BY DEF Closed, Sessions, Blank, FieldValues, Maybe
<1>4. session' = (IF session.holder = w THEN Closed ELSE session)
  BY DEF Leave
<1>5. final \in Nat /\ 1 \in 1 .. final
  BY PageTypes DEF FormTypes
<1>6. QED
  BY <1>2, <1>3, <1>4, <1>5 DEF FormTypes

\* The steps that set more than the place of their worker.
Moved(w) == local' \in [Workers -> Locals] /\ Others(w)

LEMMA OwnLocal ==
  ASSUME FormTypes, NEW w \in Workers
  PROVE  local[w] \in Locals
BY DEF FormTypes

LEMMA InspectMoves ==
  ASSUME FormTypes, NEW w \in Workers, Inspect(w)
  PROVE  /\ Moved(w)
         /\ \/ local'[w].pc = "wait" /\ local'[w].ask = "BROWSER_CHALLENGE"
            \/ /\ local'[w].idx = 1
               /\ local'[w].pc = IF Page # <<>> THEN "resolve"
                                 ELSE IF session.page = final THEN "finish" ELSE "approve"
<1>1. CASE Ask(w, "BROWSER_CHALLENGE")
  BY <1>1, Asks DEF Interrupts, Moved
<1>2. CASE ~Ask(w, "BROWSER_CHALLENGE")
  <2> DEFINE step == IF Page # <<>> THEN "resolve"
                     ELSE IF session.page = final THEN "finish" ELSE "approve"
             new == [local[w] EXCEPT !.pc = step, !.idx = 1]
  <2>1. step \in Steps
    BY DEF Steps, Holding, Busy, Answered
  <2>2. local' = [local EXCEPT ![w].pc = step, ![w].idx = 1]
    BY <1>2 DEF Inspect
  <2> HIDE DEF step
  <2>3. new \in Locals /\ new.pc = step /\ new.idx = 1
    <3>1. local[w] \in Locals /\ 1 \in Nat \ {0}
      BY OwnLocal
    <3>2. QED
      BY <2>1, <3>1 DEF Locals
  <2>4. local' = [local EXCEPT ![w] = new]
    BY <2>2 DEF FormTypes
  <2>5. Moved(w) /\ local'[w].pc = step /\ local'[w].idx = 1
    BY <2>3, <2>4, Moves DEF Moved
  <2>6. QED
    BY <2>5 DEF step
<1>3. QED
  BY <1>1, <1>2

LEMMA NextField ==
  ASSUME FormTypes, NEW w \in Workers, NEW step \in Steps,
         local' = [local EXCEPT ![w].pc = step, ![w].idx = @ + 1]
  PROVE  /\ Moved(w) /\ local'[w].use = local[w].use
         /\ local'[w].pc = step /\ local'[w].idx = local[w].idx + 1
<1> DEFINE next == local[w].idx + 1
           new == [local[w] EXCEPT !.pc = step, !.idx = next]
<1>0. next \in Nat \ {0}
  BY OwnLocal DEF Locals
<1> HIDE DEF next
<1>1. new \in Locals /\ new.pc = step /\ new.idx = next /\ new.use = local[w].use
  <2>1. local[w] \in Locals
    BY OwnLocal
  <2>2. QED
    BY <1>0, <2>1 DEF Locals
<1>2. local' = [local EXCEPT ![w] = new]
  BY DEF FormTypes, next
<1>3. QED
  BY <1>1, <1>2, Moves DEF Moved, next

LEMMA ResolveMoves ==
  ASSUME FormTypes, NEW w \in Workers, Resolve(w)
  PROVE  /\ Moved(w)
         /\ \/ local'[w].pc = "raise" /\ UNCHANGED answers
            \/ LET f == Field(w) value == Resolved(Field(w))
               IN  /\ ~Replaces(f, value)
                   /\ answers' = Upserted(f, value, IF value = Null THEN "NEEDS_USER" ELSE "FILLED")
                   /\ \/ /\ local'[w].pc = "wait" /\ local'[w].ask = "FORM_FIELD"
                         /\ local'[w].idx = local[w].idx
                      \/ /\ value # Null /\ LastField(w) /\ local'[w].pc = "approve"
                      \/ /\ value # Null /\ ~LastField(w)
                         /\ local'[w].pc = "resolve" /\ local'[w].idx = local[w].idx + 1
<1> DEFINE f == Field(w)
           value == Resolved(Field(w))
<1>1. CASE Replaces(f, value)
  BY <1>1, Raises DEF Resolve, Moved
<1>2. CASE ~Replaces(f, value) /\ value = Null
  <2>1. Ask(w, "FORM_FIELD") /\ answers' = Upserted(f, value, "NEEDS_USER")
    BY <1>2 DEF Resolve
  <2>2. local[w] \in Locals
    BY DEF FormTypes
  <2>3. Moved(w) /\ local'[w].pc = "wait" /\ local'[w].ask = "FORM_FIELD" /\ local'[w].idx = local[w].idx
    BY <2>1, <2>2, Asks DEF Moved, Interrupts, Locals
  <2>4. QED
    BY <1>2, <2>1, <2>3
<1>3. CASE ~Replaces(f, value) /\ value # Null /\ LastField(w)
  <2>1. Goto(w, "approve") /\ answers' = Upserted(f, value, "FILLED")
    BY <1>3 DEF Resolve
  <2>2. Moved(w) /\ local'[w].pc = "approve"
    BY <2>1, Goes DEF Moved, Steps, Holding, Busy, Answered
  <2>3. QED
    BY <1>3, <2>1, <2>2
<1>4. CASE ~Replaces(f, value) /\ value # Null /\ ~LastField(w)
  <2>1. local' = [local EXCEPT ![w].idx = @ + 1] /\ answers' = Upserted(f, value, "FILLED")
    BY <1>4 DEF Resolve
  <2> DEFINE new == [local[w] EXCEPT !.idx = @ + 1]
  <2>2. new \in Locals /\ new.pc = "resolve" /\ new.idx = local[w].idx + 1
    BY OwnLocal DEF Locals, Resolve, At
  <2>3. local' = [local EXCEPT ![w] = new]
    BY <2>1 DEF FormTypes
  <2>4. Moved(w) /\ local'[w].pc = "resolve" /\ local'[w].idx = local[w].idx + 1
    BY <2>2, <2>3, Moves DEF Moved
  <2>5. QED
    BY <1>4, <2>1, <2>4
<1>5. QED
  BY <1>1, <1>2, <1>3, <1>4

\* A new approval revokes an unused one and is for the plan as it is.
NewApproval == [plan |-> PlanOf(session.page), status |-> "PENDING", overdue |-> FALSE, asked |-> FALSE]
Revoked(old) ==
  IF old # 0 /\ approvals[old].status \in {"PENDING", "APPROVED"}
  THEN [approvals EXCEPT ![old].status = "REVOKED"] ELSE approvals

LEMMA ApproveMoves ==
  ASSUME FormTypes, NEW w \in Workers, ApprovePlan(w)
  PROVE  /\ Moved(w) /\ local'[w].pc = "remember"
         /\ \/ /\ memory.approval # 0 /\ local'[w].use = memory.approval
               /\ approvals[memory.approval].plan = PlanOf(session.page) /\ UNCHANGED approvals
            \/ /\ approvals' = Append(Revoked(memory.approval), NewApproval)
               /\ Revoked(memory.approval) \in Seq(Approvals)
               /\ Len(Revoked(memory.approval)) = Len(approvals)
               /\ local'[w].use = Len(approvals) + 1
<1> DEFINE old == memory.approval
<1>0. approvals \in Seq(Approvals) /\ Len(approvals) \in Nat /\ old \in Nat /\ old <= Len(approvals)
  BY DEF FormTypes, Memories
<1>1. CASE old # 0 /\ approvals[old].plan = PlanOf(session.page)
  <2> DEFINE new == [local[w] EXCEPT !.pc = "remember", !.use = old, !.believed = approvals[old].status]
  <2>1. approvals[old] \in Approvals
    BY <1>0, <1>1
  <2>2. new \in Locals /\ new.pc = "remember" /\ new.use = old
    <3>1. local[w] \in Locals /\ "remember" \in Steps
      BY OwnLocal DEF Steps, Holding, Busy, Answered, Planned
    <3>2. approvals[old].status \in {"PENDING", "APPROVED", "REJECTED", "REVOKED", "CONSUMED"}
      BY <2>1 DEF Approvals
    <3>3. QED
      BY <1>0, <3>1, <3>2 DEF Locals
  <2>3. local' = [local EXCEPT ![w] = new] /\ UNCHANGED approvals
    BY <1>1 DEF ApprovePlan, FormTypes
  <2>4. QED
    BY <1>1, <2>2, <2>3, Moves DEF Moved
<1>2. CASE ~(old # 0 /\ approvals[old].plan = PlanOf(session.page))
  <2> DEFINE new == [local[w] EXCEPT !.pc = "remember", !.use = Len(approvals'), !.believed = "PENDING"]
  <2>1. approvals' = Append(Revoked(old), NewApproval)
        /\ local' = [local EXCEPT ![w].pc = "remember", ![w].use = Len(approvals'),
                                  ![w].believed = "PENDING"]
    BY <1>2 DEF ApprovePlan, Revoked, NewApproval
  <2>2. Revoked(old) \in Seq(Approvals) /\ Len(Revoked(old)) = Len(approvals)
    <3>1. CASE old # 0 /\ approvals[old].status \in {"PENDING", "APPROVED"}
      <4>0. approvals[old] \in Approvals
        BY <1>0, <3>1
      <4>1. [approvals[old] EXCEPT !.status = "REVOKED"] \in Approvals
        BY <4>0 DEF Approvals
      <4>2. Revoked(old) = [approvals EXCEPT ![old] = [approvals[old] EXCEPT !.status = "REVOKED"]]
        BY <3>1 DEF Revoked
      <4>3. QED
        BY <1>0, <3>1, <4>1, <4>2
    <3>2. CASE ~(old # 0 /\ approvals[old].status \in {"PENDING", "APPROVED"})
      BY <1>0, <3>2 DEF Revoked
    <3>3. QED
      BY <3>1, <3>2
  <2>3. Len(approvals') = Len(approvals) + 1
    BY <2>1, <2>2
  <2>4. new \in Locals /\ new.pc = "remember" /\ new.use = Len(approvals) + 1
    <3>1. Len(approvals') \in Nat /\ "remember" \in Steps
      BY <1>0, <2>3 DEF Steps, Holding, Busy, Answered, Planned
    <3>2. QED
      BY <2>3, <3>1, OwnLocal DEF Locals
  <2>5. local' = [local EXCEPT ![w] = new]
    BY <2>1 DEF FormTypes
  <2>6. QED
    BY <2>1, <2>2, <2>4, <2>5, Moves DEF Moved
<1>3. QED
  BY <1>1, <1>2

LEMMA RememberMoves ==
  ASSUME FormTypes, NEW w \in Workers, RememberApproval(w)
  PROVE  /\ Moved(w) /\ local'[w].use = local[w].use
         /\ \/ local'[w].pc = "wait" /\ local'[w].ask \in {"PREPARE_APPROVAL", "APPROVAL_BLOCKED"}
            \/ local'[w].pc = "revalidate"
<1>1. local[w] \in Locals
  BY DEF FormTypes
<1>2. ASSUME NEW kind \in {"PREPARE_APPROVAL", "APPROVAL_BLOCKED"}, Ask(w, kind)
      PROVE  Moved(w) /\ local'[w].use = local[w].use /\ local'[w].pc = "wait" /\ local'[w].ask = kind
  <2>1. kind \in Interrupts
    BY DEF Interrupts
  <2>2. Moved(w) /\ local'[w] = [local[w] EXCEPT !.pc = "wait", !.ask = kind]
    BY <1>2, <2>1, Asks DEF Moved
  <2>3. QED
    BY <1>1, <2>2 DEF Locals
<1>3. ASSUME Goto(w, "revalidate")
      PROVE  Moved(w) /\ local'[w].use = local[w].use /\ local'[w].pc = "revalidate"
  <2>1. "revalidate" \in Steps
    BY DEF Steps, Holding, Busy, Answered, Planned
  <2>2. Moved(w) /\ local'[w] = [local[w] EXCEPT !.pc = "revalidate"]
    BY <1>3, <2>1, Goes DEF Moved
  <2>3. QED
    BY <1>1, <2>2 DEF Locals
<1>4. Ask(w, "PREPARE_APPROVAL") \/ Ask(w, "APPROVAL_BLOCKED") \/ Goto(w, "revalidate")
  BY DEF RememberApproval
<1>5. QED
  BY <1>2, <1>3, <1>4

LEMMA RevalidateMoves ==
  ASSUME FormTypes, NEW w \in Workers, Revalidate(w)
  PROVE  /\ Moved(w)
         /\ \/ local'[w].pc = "raise"
            \/ /\ local'[w].idx = 1 /\ local'[w].use = local[w].use
               /\ local'[w].pc = IF Page = <<>> THEN "advance" ELSE "plan"
<1> DEFINE step == IF Page = <<>> THEN "advance" ELSE "plan"
           new == [local[w] EXCEPT !.pc = step, !.idx = 1]
<1>1. CASE Raise(w)
  BY <1>1, Raises DEF Moved
<1>2. CASE local' = [local EXCEPT ![w].pc = step, ![w].idx = 1]
  <2>1. step \in Steps
    BY DEF Steps, Holding, Busy, Answered, Planned, Acting
  <2> HIDE DEF step
  <2>2. new \in Locals /\ new.pc = step /\ new.idx = 1 /\ new.use = local[w].use
    <3>1. local[w] \in Locals /\ 1 \in Nat \ {0}
      BY OwnLocal
    <3>2. QED
      BY <2>1, <3>1 DEF Locals
  <2>3. local' = [local EXCEPT ![w] = new]
    BY <1>2 DEF FormTypes
  <2>4. Moved(w) /\ local'[w].idx = 1 /\ local'[w].use = local[w].use /\ local'[w].pc = step
    BY <2>2, <2>3, Moves DEF Moved
  <2>5. QED
    BY <2>4 DEF step
<1>3. QED
  BY <1>1, <1>2 DEF Revalidate

-----------------------------------------------------------------------------
(* Rows of the queue, and the memory of the task *)

LEMMA Granting ==
  ASSUME NEW row \in Rows, NEW w \in Workers, NEW continues \in BOOLEAN
  PROVE  /\ Granted(row, w, continues) \in Rows
         /\ Granted(row, w, continues).status = "ACTIVE" /\ Granted(row, w, continues).owner = w
<1>1. CASE continues
  BY <1>1 DEF Granted, Rows, Kinds
<1>2. CASE ~continues
  <2> DEFINE n == row.spent + 1
  <2>1. n \in Nat
    BY DEF Rows
  <2>2. Granted(row, w, continues) = [row EXCEPT !.status = "ACTIVE", !.owner = w, !.spent = n]
    BY <1>2 DEF Granted
  <2> HIDE DEF n
  <2>3. QED
    BY <2>1, <2>2 DEF Rows, Kinds
<1>3. QED
  BY <1>1, <1>2

LEMMA Ending ==
  ASSUME NEW row \in Rows, NEW kind \in Kinds
  PROVE  Ended(row, kind) \in Rows /\ Ended(row, kind).status = kind
BY DEF Ended, Rows

LEMMA GivingBack ==
  ASSUME NEW row \in Rows
  PROVE  /\ Released(row) \in Rows /\ Released(row).status = "READY"
         /\ \A retryable \in BOOLEAN :
              /\ Retried(row, Form, retryable) \in Rows
              /\ Retried(row, Form, retryable).status \in {"WAITING_RETRY", "FAILED"}
         /\ Lapsed(row, Form) \in Rows /\ Lapsed(row, Form).status \in {"READY", "FAILED"}
<1>1. "READY" \in Kinds /\ "FAILED" \in Kinds /\ "WAITING_RETRY" \in Kinds
  BY DEF Kinds
<1>2. CASE row.spent < MaxAttempts[Form]
  BY <1>1, <1>2, Ending DEF Released, Retried, Lapsed
<1>3. CASE ~(row.spent < MaxAttempts[Form])
  BY <1>1, <1>3, Ending DEF Released, Retried, Lapsed
<1>4. QED
  BY <1>2, <1>3

\* How a step changes the row of the form's task.
LEMMA RowChanges ==
  ASSUME FormTypes, NEW row \in Rows, task' = [task EXCEPT ![Form] = row]
  PROVE  task' \in [Tasks -> Rows] /\ task'[Form] = row
BY OneForm DEF FormTypes

LEMMA OwnRow ==
  ASSUME FormTypes
  PROVE  task[Form] \in Rows
BY OneForm DEF FormTypes

\* Recovery takes the row away from its owner or wakes it; a resume makes it ready.
LEMMA RecoverChanges ==
  ASSUME FormTypes, RecoverTask(Form)
  PROVE  /\ task' \in [Tasks -> Rows] /\ task[Form].status \in {"ACTIVE", "WAITING_RETRY"}
         /\ task'[Form].status \in {"READY", "FAILED"}
<1>1. CASE task[Form].status = "ACTIVE" /\ task' = [task EXCEPT ![Form] = Lapsed(@, Form)]
  BY <1>1, OwnRow, GivingBack, RowChanges
<1>2. CASE task[Form].status = "WAITING_RETRY" /\ task' = [task EXCEPT ![Form].status = "READY"]
  <2> DEFINE row == [task[Form] EXCEPT !.status = "READY"]
  <2>1. task[Form] \in Rows
    BY OwnRow
  <2>2. row \in Rows /\ row.status = "READY"
    BY <2>1 DEF Rows, Kinds
  <2>3. task' = [task EXCEPT ![Form] = row]
    BY <1>2
  <2> HIDE DEF row
  <2>4. QED
    BY <1>2, <2>2, <2>3, RowChanges
<1>3. QED
  BY <1>1, <1>2 DEF RecoverTask

LEMMA Resuming ==
  ASSUME FormTypes, NEW reply \in Maybe \cup {Decided}, ResumedBy(reply)
  PROVE  /\ task' \in [Tasks -> Rows] /\ task'[Form].status = "READY"
         /\ memory' \in Memories /\ memory'.reply = reply
         /\ memory'.kind = memory.kind /\ memory'.field = memory.field
         /\ memory'.approval = memory.approval /\ memory'.answered = memory.answered
<1> DEFINE row == [task[Form] EXCEPT !.status = "READY"]
<1>1. row \in Rows /\ row.status = "READY"
  BY OwnRow DEF Rows, Kinds
<1>2. task' = [task EXCEPT ![Form] = row]
  BY DEF ResumedBy
<1> HIDE DEF row
<1>3. task' \in [Tasks -> Rows] /\ task'[Form].status = "READY"
  BY <1>1, <1>2, RowChanges
<1>4. memory \in Memories /\ memory' = [memory EXCEPT !.reply = reply, !.continuation = TRUE]
  BY DEF FormTypes, ResumedBy
<1>5. QED
  BY <1>3, <1>4 DEF Memories

LEMMA Continuing ==
  ASSUME FormTypes, NEW b \in BOOLEAN, memory' = [memory EXCEPT !.continuation = b]
  PROVE  /\ memory' \in Memories /\ memory'.reply = memory.reply
         /\ memory'.kind = memory.kind /\ memory'.field = memory.field
         /\ memory'.approval = memory.approval /\ memory'.answered = memory.answered
<1>1. memory \in Memories
  BY DEF FormTypes
<1>2. QED
  BY <1>1 DEF Memories

-----------------------------------------------------------------------------
(* Types *)

LEMMA FormTypesInit == FormInit => FormTypes
<1> SUFFICES ASSUME FormInit PROVE FormTypes
  OBVIOUS
<1>1. final \in 1 .. Len(Pages) /\ final \in FinalPages
  BY PagesAssumption DEF FormInit
<1>2. 1 \in 1 .. final
  BY <1>1
<1>3. task \in [Tasks -> Rows]
  BY DEF FormInit, Published, Absent, Rows, Kinds
<1>4. Blank \in FieldValues /\ known \in FieldValues
  BY PagesAssumption DEF FormInit, Blank, FieldValues, Maybe
<1>5. memory \in Memories /\ memory.approval = 0 /\ memory.kind = "nothing"
  BY <1>4 DEF FormInit, Memories, Interrupts, Maybe
<1>6. approvals \in Seq(Approvals) /\ Len(approvals) = 0
  BY DEF FormInit
<1>7. ledger \in [Pairs -> Actions]
  BY DEF FormInit, NoAction, Actions
<1>8. answers \in [Fields -> Answers]
  BY DEF FormInit, Answers, Maybe
<1>9. session \in Sessions /\ session.page = 1
  BY <1>4 DEF FormInit, Closed, Sessions
<1>10. local \in [Workers -> Locals]
  BY DEF FormInit, Idle, Locals, Steps, Interrupts
<1>11. at = 1 /\ filed \in FieldValues
  BY <1>4 DEF FormInit
<1>12. QED
  BY <1>1, <1>2, <1>3, <1>4, <1>5, <1>6, <1>7, <1>8, <1>9, <1>10, <1>11 DEF FormTypes

\* Steps that leave the data alone.
LEMMA StillTypes ==
  ASSUME FormTypes, local' \in [Workers -> Locals], task' \in [Tasks -> Rows],
         session' \in Sessions, session'.page \in 1 .. final,
         UNCHANGED <<final, at, memory, approvals, ledger, answers, known, filed>>
  PROVE  FormTypes'
BY DEF FormTypes

LEMMA ClaimTypes ==
  ASSUME FormTypes, NEW w \in Workers, ClaimForm(w)
  PROVE  /\ FormTypes' /\ Moved(w) /\ local'[w].pc = "reply"
         /\ task'[Form].status = "ACTIVE" /\ task'[Form].owner = w
         /\ memory'.reply = memory.reply /\ memory'.kind = memory.kind
<1>1. memory.continuation \in BOOLEAN /\ memory \in Memories
  BY DEF FormTypes, Memories
<1>2. Granted(task[Form], w, memory.continuation) \in Rows
      /\ Granted(task[Form], w, memory.continuation).status = "ACTIVE"
      /\ Granted(task[Form], w, memory.continuation).owner = w
  BY <1>1, OwnRow, Granting
<1>3. task' = [task EXCEPT ![Form] = Granted(task[Form], w, memory.continuation)]
  BY DEF ClaimForm
<1>4. task' \in [Tasks -> Rows] /\ task'[Form].status = "ACTIVE" /\ task'[Form].owner = w
  BY <1>2, <1>3, RowChanges
<1>5. memory' \in Memories /\ memory'.reply = memory.reply
      /\ memory'.kind = memory.kind /\ memory'.field = memory.field
      /\ memory'.approval = memory.approval
  BY Continuing DEF ClaimForm
<1>6. Moved(w) /\ local'[w].pc = "reply"
  BY Goes DEF ClaimForm, Moved, Steps
<1>7. UNCHANGED <<final, at, approvals, ledger, answers, known, session, filed>>
  BY DEF ClaimForm, browserVars, humanVars
<1>8. QED
  BY <1>4, <1>5, <1>6, <1>7 DEF FormTypes, Moved

LEMMA Upserting ==
  ASSUME FormTypes, NEW f \in Fields, NEW value \in Maybe,
         NEW kind \in {"NONE", "NEEDS_USER", "FILLED", "VALIDATED"}, answers' = Upserted(f, value, kind)
  PROVE  /\ answers' \in [Fields -> Answers]
         /\ answers'[f].value = value /\ answers'[f].status = kind
         /\ \A g \in Fields \ {f} : answers'[g] = answers[g]
BY DEF FormTypes, Upserted, Answers

LEMMA ReplyTypes ==
  ASSUME FormTypes, NEW w \in Workers, TakeReply(w)
  PROVE  /\ FormTypes' /\ Moved(w)
         /\ local'[w].pc \in {"open", "raise", "forget"}
         /\ local'[w].pc = "open" => memory.reply = Null
         /\ local'[w].pc = "forget" /\ AskedField => memory.reply \in Values
         /\ UNCHANGED answers
              \/ (/\ AskedField /\ memory.field \in Range(Pages[at])
                  /\ \A g \in Fields \ {memory.field} : answers'[g] = answers[g])
<1>0. memory.reply \in Maybe \cup {Decided}
  BY DEF FormTypes, Memories
<1> DEFINE step == IF memory.reply = Null THEN "open"
                   ELSE IF memory.reply = Decided /\ memory.kind = "FORM_FIELD" THEN "raise" ELSE "forget"
<1>1. Moved(w) /\ local'[w].pc = step
  <2>1. step \in Steps /\ Goto(w, step)
    BY DEF TakeReply, Steps
  <2> HIDE DEF step
  <2>2. QED
    BY <2>1, Goes DEF Moved
<1>2. UNCHANGED <<final, task, at, memory, approvals, ledger, session, filed>>
  BY DEF TakeReply, browserVars
<1>3. /\ step \in {"open", "raise", "forget"}
      /\ step = "open" => memory.reply = Null
      /\ step = "forget" /\ AskedField => memory.reply \in Values
  BY <1>0 DEF AskedField, Maybe
<1> HIDE DEF step
<1>4. CASE memory.reply \notin {Null, Decided} /\ AskedField
  <2>1. memory.field \in Range(Pages[at]) /\ memory.field \in Fields /\ memory.reply \in Maybe
    BY <1>0, <1>4, PageTypes, PageOf DEF FormTypes, AskedField
  <2>2. answers' = Upserted(memory.field, memory.reply, "FILLED")
    BY <1>4 DEF TakeReply, AskedField
  <2>3. answers' \in [Fields -> Answers] /\ \A g \in Fields \ {memory.field} : answers'[g] = answers[g]
    BY <2>1, <2>2, Upserting
  <2>4. known' = known \/ known' = [known EXCEPT ![memory.field] = memory.reply]
    BY <1>4 DEF TakeReply, AskedField
  <2>5. known' \in FieldValues
    BY <2>1, <2>4 DEF FormTypes, FieldValues
  <2>6. FormTypes'
    BY <1>1, <1>2, <2>3, <2>5 DEF FormTypes, Moved
  <2>7. QED
    BY <1>1, <1>3, <1>4, <2>1, <2>3, <2>6
<1>5. CASE ~(memory.reply \notin {Null, Decided} /\ AskedField)
  <2>1. UNCHANGED <<answers, known>>
    BY <1>5 DEF TakeReply, AskedField
  <2>2. FormTypes'
    BY <1>1, <1>2, <2>1 DEF FormTypes, Moved
  <2>3. QED
    BY <1>1, <1>3, <2>1, <2>2
<1>6. QED
  BY <1>4, <1>5

LEMMA ForgetTypes ==
  ASSUME FormInv, NEW w \in Workers, ForgetReply(w)
  PROVE  /\ FormTypes' /\ Moved(w) /\ local'[w].pc = "open"
         /\ memory'.reply = Null /\ memory'.kind = "nothing"
<1>0. FormTypes
  BY DEF FormInv
<1>1. Moved(w) /\ local'[w].pc = "open"
  BY <1>0, Goes DEF ForgetReply, Steps, Moved
<1>2. UNCHANGED <<final, task, at, approvals, ledger, answers, known, session, filed>>
  BY DEF ForgetReply, browserVars, humanVars
<1> DEFINE kept == IF memory.kind = "FORM_FIELD"
                   THEN [memory.answered EXCEPT ![memory.field] = memory.reply] ELSE memory.answered
<1>3. memory \in Memories /\ memory.answered \in FieldValues
  BY <1>0 DEF FormTypes, Memories
<1>4. memory.kind = "FORM_FIELD" => memory.reply \in Maybe
  BY DEF FormInv, NoReply, AskedField, ForgetReply, Maybe
<1>5. kept \in FieldValues
  BY <1>3, <1>4 DEF FieldValues
<1>6. memory' = [memory EXCEPT !.answered = kept, !.kind = "nothing", !.field = Null, !.reply = Null]
  BY DEF ForgetReply
<1> HIDE DEF kept
<1>7. memory' \in Memories /\ memory'.reply = Null /\ memory'.kind = "nothing"
      /\ memory'.approval = memory.approval
  BY <1>3, <1>5, <1>6 DEF Memories, Interrupts, Maybe
<1>8. QED
  BY <1>0, <1>1, <1>2, <1>7 DEF FormTypes, Moved

LEMMA OpenTypes ==
  ASSUME FormTypes, NEW w \in Workers, OpenSession(w)
  PROVE  /\ FormTypes' /\ Moved(w)
         /\ \/ /\ session.holder = Null /\ local'[w].pc = "inspect"
               /\ session'.holder = w /\ session'.page = at /\ session'.shown = Blank
            \/ local'[w].pc = "raise" /\ UNCHANGED session
<1>1. UNCHANGED <<final, task, at, memory, approvals, ledger, answers, known, filed>>
  BY DEF OpenSession, humanVars
<1>2. CASE session.holder = Null
  <2>1. session' = [holder |-> w, page |-> at, shown |-> Blank] /\ Goto(w, "inspect")
    BY <1>2 DEF OpenSession
  <2>2. session' \in Sessions /\ session'.page \in 1 .. final
    BY <2>1, PageTypes DEF FormTypes, Sessions, Blank, FieldValues, Maybe
  <2>3. Moved(w) /\ local'[w].pc = "inspect"
    BY <2>1, Goes DEF Moved, Steps, Holding, Busy
  <2>4. QED
    BY <1>1, <1>2, <2>1, <2>2, <2>3 DEF FormTypes, Moved
<1>3. CASE session.holder # Null
  <2>1. UNCHANGED session /\ Raise(w)
    BY <1>3 DEF OpenSession
  <2>2. QED
    BY <1>1, <2>1, Raises DEF FormTypes, Moved
<1>4. QED
  BY <1>2, <1>3

LEMMA InspectTypes ==
  ASSUME FormInv, NEW w \in Workers, Inspect(w)
  PROVE  FormTypes'
<1>1. FormTypes /\ In(w, Busy)
  BY DEF FormInv, Inspect, At, In, Busy
<1>2. memory.kind # "FORM_FIELD"
  BY <1>1 DEF FormInv, NoReply, AskedField
<1>3. at' = session.page /\ Moved(w)
      /\ UNCHANGED <<final, task, memory, approvals, ledger, answers, known, session, filed>>
  BY <1>1, InspectMoves DEF Inspect, browserVars, humanVars
<1>4. QED
  BY <1>1, <1>2, <1>3 DEF FormTypes, Moved

LEMMA ResolveField ==
  ASSUME FormInv, NEW w \in Workers, At(w, "resolve")
  PROVE  /\ session.holder = w /\ session.page = at
         /\ local[w].idx \in 1 .. Len(Page)
         /\ Field(w) \in Range(Page) /\ Field(w) \in Fields /\ Resolved(Field(w)) \in Maybe
<1>1. FormTypes /\ In(w, Busy) /\ In(w, Holding) /\ In(w, Busy \ {"turn"}) /\ In(w, Acting \cup {"resolve"})
  BY DEF FormInv, At, In, Busy, Holding
<1>2. OnPage(w) /\ session.holder = w
  BY <1>1 DEF FormInv, Attempts, Lock
<1>3. session.page = at /\ local[w].idx \in 1 .. Len(Page)
  BY <1>1, <1>2, PageTypes, OwnLocal DEF OnPage, Locals
<1>4. Field(w) \in Range(Page) /\ Field(w) \in Fields
  BY <1>1, <1>3, PageTypes DEF Field
<1>5. memory.answered \in FieldValues /\ known \in FieldValues
  BY <1>1 DEF FormTypes, Memories
<1>6. QED
  BY <1>2, <1>3, <1>4, <1>5 DEF Resolved, FieldValues

LEMMA ResolveTypes ==
  ASSUME FormInv, NEW w \in Workers, Resolve(w)
  PROVE  FormTypes'
<1>1. FormTypes /\ Field(w) \in Fields /\ Resolved(Field(w)) \in Maybe
  BY ResolveField DEF FormInv, Resolve
<1>2. Moved(w)
  BY <1>1, ResolveMoves
<1>3. UNCHANGED <<final, task, at, memory, approvals, ledger, known, session, filed>>
  BY DEF Resolve, browserVars, humanVars
<1>4. UNCHANGED answers \/ \E kind \in {"NEEDS_USER", "FILLED"} :
                              answers' = Upserted(Field(w), Resolved(Field(w)), kind)
  BY DEF Resolve
<1>5. answers' \in [Fields -> Answers]
  BY <1>1, <1>4, Upserting DEF FormTypes
<1>6. QED
  BY <1>1, <1>2, <1>3, <1>5 DEF FormTypes, Moved

LEMMA ApproveTypes ==
  ASSUME FormInv, NEW w \in Workers, ApprovePlan(w)
  PROVE  FormTypes'
<1>1. FormTypes /\ Moved(w)
  BY ApproveMoves DEF FormInv
<1>2. UNCHANGED <<final, task, at, memory, ledger, answers, known, session, filed>>
  BY DEF ApprovePlan, browserVars, humanVars
<1>3. NewApproval \in Approvals
  <2>1. Range(Page) \in SUBSET Fields
    BY <1>1, PageTypes
  <2>2. PlanOf(session.page) \in [Range(Page) -> Maybe]
    BY <1>1, <2>1 DEF PlanOf, Page, FormTypes, Answers
  <2>3. QED
    BY <2>1, <2>2 DEF NewApproval, Approvals
<1>4. approvals' \in Seq(Approvals) /\ memory.approval <= Len(approvals')
  <2>1. CASE UNCHANGED approvals
    BY <1>1, <2>1 DEF FormTypes
  <2>2. CASE /\ approvals' = Append(Revoked(memory.approval), NewApproval)
             /\ Revoked(memory.approval) \in Seq(Approvals)
             /\ Len(Revoked(memory.approval)) = Len(approvals)
    BY <1>1, <1>3, <2>2 DEF FormTypes, Memories
  <2>3. QED
    BY <1>1, <2>1, <2>2, ApproveMoves
<1>5. QED
  BY <1>1, <1>2, <1>4 DEF FormTypes, Moved

LEMMA RememberTypes ==
  ASSUME FormInv, NEW w \in Workers, RememberApproval(w)
  PROVE  /\ FormTypes'
         /\ memory'.kind = memory.kind /\ memory'.reply = memory.reply
<1>1. FormTypes /\ Moved(w) /\ In(w, Busy) /\ In(w, Planned)
  BY RememberMoves DEF FormInv, RememberApproval, At, In, Busy, Answered, Planned
<1>2. local[w].use \in 1 .. Len(approvals)
  BY <1>1 DEF FormInv, Attempts, HasPlan
<1>3. UNCHANGED <<final, task, at, approvals, ledger, answers, known, session, filed>>
  BY DEF RememberApproval, browserVars, humanVars
<1>4. memory \in Memories /\ memory' = [memory EXCEPT !.approval = local[w].use]
  BY <1>1 DEF FormTypes, RememberApproval
<1>5. memory' \in Memories /\ memory'.approval = local[w].use /\ memory'.kind = memory.kind
      /\ memory'.field = memory.field /\ memory'.reply = memory.reply
  BY <1>2, <1>4 DEF Memories
<1>6. QED
  BY <1>1, <1>2, <1>3, <1>5 DEF FormTypes, Moved

LEMMA LedgerChanges ==
  ASSUME FormTypes, NEW row \in Pairs, NEW new \in Actions, ledger' = [ledger EXCEPT ![row] = new]
  PROVE  /\ ledger' \in [Pairs -> Actions] /\ ledger'[row] = new
         /\ \A p \in Pairs \ {row} : ledger'[p] = ledger[p]
BY DEF FormTypes

ActionStatuses == {"NONE", "PLANNED", "EXECUTING", "UNKNOWN_RESULT", "SUCCEEDED"}

LEMMA LedgerGoes ==
  ASSUME FormTypes, NEW row \in Pairs, NEW kind \in ActionStatuses,
         ledger' = [ledger EXCEPT ![row].status = kind]
  PROVE  /\ ledger' \in [Pairs -> Actions]
         /\ ledger'[row].status = kind /\ ledger'[row].approval = ledger[row].approval
         /\ \A p \in Pairs \ {row} : ledger'[p] = ledger[p]
<1> DEFINE new == [ledger[row] EXCEPT !.status = kind]
<1>1. ledger[row] \in Actions
  BY DEF FormTypes
<1>2. new \in Actions /\ new.status = kind /\ new.approval = ledger[row].approval
  BY <1>1 DEF Actions, ActionStatuses
<1>3. ledger' = [ledger EXCEPT ![row] = new]
  OBVIOUS
<1> HIDE DEF new
<1>4. QED
  BY <1>2, <1>3, LedgerChanges

\* What a step does with the row of its field.
OtherRows(w) == \A p \in Pairs \ {<<Field(w), Wanted(w)>>} : ledger'[p] = ledger[p]

LEMMA GoesOn ==
  ASSUME FormTypes, NEW w \in Workers, NEW step \in Steps, Goto(w, step)
  PROVE  /\ Moved(w) /\ local'[w].pc = step
         /\ local'[w].idx = local[w].idx /\ local'[w].use = local[w].use /\ local'[w].ask = local[w].ask
<1>1. local[w] \in Locals /\ local'[w] = [local[w] EXCEPT !.pc = step]
  BY OwnLocal, Goes
<1>2. Moved(w) /\ local'[w].pc = step
  BY Goes DEF Moved
<1>3. QED
  BY <1>1, <1>2 DEF Locals

LEMMA PlanActionTypes ==
  ASSUME FormInv, NEW w \in Workers, PlanAction(w)
  PROVE  /\ FormTypes' /\ Moved(w) /\ OtherRows(w)
         /\ local'[w].idx = local[w].idx /\ local'[w].use = local[w].use
         /\ LET new == ledger'[<<Field(w), Wanted(w)>>]
            IN  \/ local'[w].pc = "raise" /\ UNCHANGED ledger
                \/ /\ local'[w].pc = "start" /\ new = [status |-> "PLANNED", approval |-> local[w].use]
                   /\ Row(w).status \in {"NONE", "PLANNED"}
                \/ /\ local'[w].pc = "restore" /\ UNCHANGED ledger
                   /\ new.status = "SUCCEEDED" /\ new.approval = local[w].use
                \/ /\ local'[w].pc = "reconcile" /\ UNCHANGED ledger
                   /\ new.status \in {"EXECUTING", "UNKNOWN_RESULT"} /\ new.approval = local[w].use
<1> DEFINE row == <<Field(w), Wanted(w)>>
           a == local[w].use
<1>1. FormTypes /\ In(w, Acting) /\ local[w] \in Locals
  BY OwnLocal DEF FormInv, PlanAction, At, In, Acting
<1>2. row \in Pairs /\ ledger[row] \in Actions /\ a \in Nat
  BY <1>1, OwnField DEF FormTypes, Locals
<1>3. UNCHANGED <<final, task, at, memory, approvals, answers, known, session, filed>>
  BY DEF PlanAction, browserVars, humanVars
<1>4. \A step \in Steps : Goto(w, step) =>
        /\ Moved(w) /\ local'[w].pc = step
        /\ local'[w].idx = local[w].idx /\ local'[w].use = local[w].use
  BY <1>1, GoesOn
<1>5. {"raise", "start", "restore", "reconcile"} \subseteq Steps
  BY DEF Steps, Holding, Busy, Answered, Planned, Acting
<1>6. UNCHANGED ledger => ledger' \in [Pairs -> Actions] /\ OtherRows(w)
  BY <1>1 DEF FormTypes, OtherRows
<1>7. CASE Raise(w) /\ UNCHANGED ledger
  <2>1. Moved(w) /\ local'[w].pc = "raise" /\ local'[w].idx = local[w].idx /\ local'[w].use = local[w].use
    BY <1>4, <1>5, <1>7 DEF Raise
  <2>2. FormTypes'
    BY <1>1, <1>3, <1>6, <1>7, <2>1 DEF FormTypes, Moved
  <2>3. QED
    BY <1>6, <1>7, <2>1, <2>2
<1>8. CASE Valid(a) /\ ~(ledger[row].status # "NONE" /\ ledger[row].approval # a)
  <2>1. CASE ledger[row].status \in {"NONE", "PLANNED"}
    <3> DEFINE new == [status |-> "PLANNED", approval |-> a]
    <3>1. ledger' = [ledger EXCEPT ![row] = new] /\ Goto(w, "start")
      BY <1>8, <2>1 DEF PlanAction
    <3>2. new \in Actions
      BY <1>2 DEF Actions
    <3>3. ledger' \in [Pairs -> Actions] /\ ledger'[row] = new /\ OtherRows(w)
      BY <1>1, <1>2, <3>1, <3>2, LedgerChanges DEF OtherRows
    <3>4. Moved(w) /\ local'[w].pc = "start" /\ local'[w].idx = local[w].idx /\ local'[w].use = local[w].use
      BY <1>4, <1>5, <3>1
    <3>5. FormTypes'
      BY <1>1, <1>3, <3>3, <3>4 DEF FormTypes, Moved
    <3>6. QED
      BY <2>1, <3>3, <3>4, <3>5 DEF Row
  <2>2. CASE ledger[row].status = "SUCCEEDED"
    <3>1. UNCHANGED ledger /\ Goto(w, "restore") /\ ledger[row].approval = a
      BY <1>8, <2>2 DEF PlanAction
    <3>2. Moved(w) /\ local'[w].pc = "restore" /\ local'[w].idx = local[w].idx
          /\ local'[w].use = local[w].use
      BY <1>4, <1>5, <3>1
    <3>3. FormTypes'
      BY <1>1, <1>3, <1>6, <3>1, <3>2 DEF FormTypes, Moved
    <3>4. QED
      BY <1>6, <2>2, <3>1, <3>2, <3>3
  <2>3. CASE ledger[row].status \in {"EXECUTING", "UNKNOWN_RESULT"}
    <3>1. UNCHANGED ledger /\ Goto(w, "reconcile") /\ ledger[row].approval = a
      BY <1>8, <2>3 DEF PlanAction
    <3>2. Moved(w) /\ local'[w].pc = "reconcile" /\ local'[w].idx = local[w].idx
          /\ local'[w].use = local[w].use
      BY <1>4, <1>5, <3>1
    <3>3. FormTypes'
      BY <1>1, <1>3, <1>6, <3>1, <3>2 DEF FormTypes, Moved
    <3>4. QED
      BY <1>6, <2>3, <3>1, <3>2, <3>3
  <2>4. QED
    BY <1>2, <2>1, <2>2, <2>3 DEF Actions
<1>9. QED
  BY <1>7, <1>8 DEF PlanAction

LEMMA ApprovalChanges ==
  ASSUME FormTypes, NEW a \in 1 .. Len(approvals), NEW new \in Approvals,
         approvals' = [approvals EXCEPT ![a] = new]
  PROVE  /\ approvals' \in Seq(Approvals) /\ Len(approvals') = Len(approvals)
         /\ approvals'[a] = new /\ \A b \in 1 .. Len(approvals) : b # a => approvals'[b] = approvals[b]
BY DEF FormTypes

LEMMA StartTypes ==
  ASSUME FormInv, NEW w \in Workers, Start(w)
  PROVE  /\ FormTypes' /\ Moved(w) /\ OtherRows(w) /\ Len(approvals') = Len(approvals)
         /\ local'[w].idx = local[w].idx /\ local'[w].use = local[w].use
         /\ LET new == ledger'[<<Field(w), Wanted(w)>>]
            IN  \/ local'[w].pc = "raise" /\ UNCHANGED <<ledger, approvals>>
                \/ /\ local'[w].pc = "fill" /\ Row(w).status = "PLANNED"
                   /\ new.status = "EXECUTING" /\ new.approval = Row(w).approval
                   /\ approvals'[local[w].use] = [approvals[local[w].use] EXCEPT !.status = "CONSUMED"]
                   /\ \A b \in 1 .. Len(approvals) : b # local[w].use => approvals'[b] = approvals[b]
<1> DEFINE row == <<Field(w), Wanted(w)>>
           a == local[w].use
<1>1. FormTypes /\ In(w, Acting) /\ local[w] \in Locals
  BY OwnLocal DEF FormInv, Start, At, In, Acting
<1>2. row \in Pairs /\ a \in 1 .. Len(approvals) /\ approvals[a] \in Approvals
  BY <1>1, OwnField DEF FormTypes
<1>3. UNCHANGED <<final, task, at, memory, answers, known, session, filed>>
  BY DEF Start, browserVars, humanVars
<1>4. \A step \in Steps : Goto(w, step) =>
        /\ Moved(w) /\ local'[w].pc = step
        /\ local'[w].idx = local[w].idx /\ local'[w].use = local[w].use
  BY <1>1, GoesOn
<1>5. {"raise", "fill"} \subseteq Steps
  BY DEF Steps, Holding, Busy, Answered, Planned, Acting
<1>6. CASE UNCHANGED <<approvals, ledger>> /\ Raise(w)
  <2>1. Moved(w) /\ local'[w].pc = "raise" /\ local'[w].idx = local[w].idx /\ local'[w].use = local[w].use
    BY <1>4, <1>5, <1>6 DEF Raise
  <2>2. FormTypes' /\ OtherRows(w)
    BY <1>1, <1>3, <1>6, <2>1 DEF FormTypes, Moved, OtherRows
  <2>3. QED
    BY <1>6, <2>1, <2>2
<1>7. CASE /\ ledger[row].status = "PLANNED" /\ Goto(w, "fill")
           /\ approvals' = [approvals EXCEPT ![a].status = "CONSUMED"]
           /\ ledger' = [ledger EXCEPT ![row].status = "EXECUTING"]
  <2> DEFINE used == [approvals[a] EXCEPT !.status = "CONSUMED"]
  <2>1. used \in Approvals
    BY <1>2 DEF Approvals
  <2>2. approvals' = [approvals EXCEPT ![a] = used]
    BY <1>7
  <2>3. /\ approvals' \in Seq(Approvals) /\ Len(approvals') = Len(approvals)
        /\ approvals'[a] = used /\ \A b \in 1 .. Len(approvals) : b # a => approvals'[b] = approvals[b]
    BY <1>1, <1>2, <2>1, <2>2, ApprovalChanges
  <2>4. /\ ledger' \in [Pairs -> Actions] /\ OtherRows(w)
        /\ ledger'[row].status = "EXECUTING" /\ ledger'[row].approval = ledger[row].approval
    BY <1>1, <1>2, <1>7, LedgerGoes DEF OtherRows, ActionStatuses
  <2>5. Moved(w) /\ local'[w].pc = "fill" /\ local'[w].idx = local[w].idx /\ local'[w].use = local[w].use
    BY <1>4, <1>5, <1>7
  <2>6. FormTypes'
    BY <1>1, <1>3, <2>3, <2>4, <2>5 DEF FormTypes, Moved
  <2>7. QED
    BY <1>7, <2>3, <2>4, <2>5, <2>6 DEF Row
<1>8. QED
  BY <1>6, <1>7 DEF Start

LEMMA RestoreTypes ==
  ASSUME FormInv, NEW w \in Workers, Restore(w)
  PROVE  /\ FormTypes' /\ Moved(w) /\ OtherRows(w)
         /\ local'[w].idx = local[w].idx /\ local'[w].use = local[w].use
         /\ LET new == ledger'[<<Field(w), Wanted(w)>>]
            IN  \/ local'[w].pc = "raise" /\ UNCHANGED ledger
                \/ /\ local'[w].pc = "mark" /\ UNCHANGED ledger
                   /\ session.shown[Field(w)] = Wanted(w)
                \/ /\ local'[w].pc = "fill" /\ session.shown[Field(w)] # Wanted(w)
                   /\ new.status = "EXECUTING" /\ new.approval = Row(w).approval
<1> DEFINE row == <<Field(w), Wanted(w)>>
<1>1. FormTypes /\ In(w, Acting)
  BY DEF FormInv, Restore, At, In, Acting
<1>2. row \in Pairs
  BY <1>1, OwnField
<1>3. UNCHANGED <<final, task, at, memory, approvals, answers, known, session, filed>>
  BY DEF Restore, browserVars, humanVars
<1>4. \A step \in Steps : Goto(w, step) =>
        /\ Moved(w) /\ local'[w].pc = step
        /\ local'[w].idx = local[w].idx /\ local'[w].use = local[w].use
  BY <1>1, GoesOn
<1>5. {"raise", "mark", "fill"} \subseteq Steps
  BY DEF Steps, Holding, Busy, Answered, Planned, Acting
<1>6. ASSUME NEW step \in {"raise", "mark"}, UNCHANGED ledger, Goto(w, step)
      PROVE  /\ FormTypes' /\ OtherRows(w) /\ Moved(w) /\ local'[w].pc = step
             /\ local'[w].idx = local[w].idx /\ local'[w].use = local[w].use
  <2>1. /\ Moved(w) /\ local'[w].pc = step
        /\ local'[w].idx = local[w].idx /\ local'[w].use = local[w].use
    BY <1>4, <1>5, <1>6
  <2>2. FormTypes' /\ OtherRows(w)
    BY <1>1, <1>3, <1>6, <2>1 DEF FormTypes, Moved, OtherRows
  <2>3. QED
    BY <2>1, <2>2
<1>7. CASE /\ ledger' = [ledger EXCEPT ![row].status = "EXECUTING"] /\ Goto(w, "fill")
           /\ session.shown[Field(w)] # Wanted(w)
  <2>1. /\ ledger' \in [Pairs -> Actions] /\ OtherRows(w)
        /\ ledger'[row].status = "EXECUTING" /\ ledger'[row].approval = ledger[row].approval
    BY <1>1, <1>2, <1>7, LedgerGoes DEF OtherRows, ActionStatuses
  <2>2. Moved(w) /\ local'[w].pc = "fill" /\ local'[w].idx = local[w].idx /\ local'[w].use = local[w].use
    BY <1>4, <1>5, <1>7
  <2>3. FormTypes'
    BY <1>1, <1>3, <2>1, <2>2 DEF FormTypes, Moved
  <2>4. QED
    BY <1>7, <2>1, <2>2, <2>3 DEF Row
<1>8. CASE UNCHANGED ledger /\ Goto(w, "mark") /\ session.shown[Field(w)] = Wanted(w)
  BY <1>6, <1>8
<1>9. CASE UNCHANGED ledger /\ Raise(w)
  BY <1>6, <1>9 DEF Raise
<1>10. QED
  BY <1>7, <1>8, <1>9 DEF Restore

\* Only the field of the worker is touched.
LEMMA FillTypes ==
  ASSUME FormInv, NEW w \in Workers, Fill(w)
  PROVE  /\ FormTypes' /\ Moved(w) /\ local'[w].pc \in {"record", "unknown"}
         /\ local'[w].idx = local[w].idx /\ local'[w].use = local[w].use
         /\ session'.page = session.page /\ session'.holder = session.holder
         /\ \A f \in Fields \ {Field(w)} : session'.shown[f] = session.shown[f]
         /\ session'.shown[Field(w)] \in {session.shown[Field(w)], Wanted(w)}
<1>1. FormTypes /\ In(w, Acting)
  BY DEF FormInv, Fill, At, In, Acting
<1>2. Field(w) \in Fields /\ Wanted(w) \in Maybe
  BY <1>1, OwnField DEF Maybe
<1>3. UNCHANGED <<final, task, at, memory, approvals, ledger, answers, known, filed>>
  BY DEF Fill, humanVars
<1>4. {"record", "unknown"} \subseteq Steps
  BY DEF Steps, Holding, Busy, Answered, Planned, Acting
<1>5. /\ Moved(w) /\ local'[w].pc \in {"record", "unknown"}
      /\ local'[w].idx = local[w].idx /\ local'[w].use = local[w].use
  BY <1>1, <1>4, GoesOn DEF Fill
<1>6. session \in Sessions /\ session.shown \in FieldValues
  BY <1>1 DEF FormTypes, Sessions
<1>7. CASE UNCHANGED session
  <2>1. FormTypes'
    BY <1>1, <1>3, <1>5, <1>7 DEF FormTypes, Moved
  <2>2. QED
    BY <1>5, <1>7, <2>1
<1>8. CASE session' = [session EXCEPT !.shown[Field(w)] = Wanted(w)]
  <2> DEFINE new == [session.shown EXCEPT ![Field(w)] = Wanted(w)]
  <2>1. new \in FieldValues /\ new[Field(w)] = Wanted(w)
        /\ \A f \in Fields \ {Field(w)} : new[f] = session.shown[f]
    BY <1>2, <1>6 DEF FieldValues
  <2>2. session' = [session EXCEPT !.shown = new]
    BY <1>8
  <2> HIDE DEF new
  <2>3. session' \in Sessions /\ session'.shown = new
        /\ session'.page = session.page /\ session'.holder = session.holder
    BY <1>6, <2>1, <2>2 DEF Sessions
  <2>4. FormTypes'
    BY <1>1, <1>3, <1>5, <2>3 DEF FormTypes, Moved
  <2>5. QED
    BY <1>5, <2>1, <2>3, <2>4
<1>9. QED
  BY <1>7, <1>8 DEF Fill

LEMMA RecordTypes ==
  ASSUME FormInv, NEW w \in Workers, Record(w)
  PROVE  /\ FormTypes' /\ Moved(w) /\ OtherRows(w)
         /\ local'[w].idx = local[w].idx /\ local'[w].use = local[w].use
         /\ LET new == ledger'[<<Field(w), Wanted(w)>>]
            IN  /\ new.approval = Row(w).approval
                /\ \/ local'[w].pc = "raise" /\ new.status = "UNKNOWN_RESULT"
                   \/ /\ local'[w].pc = "mark" /\ new.status = "SUCCEEDED"
                      /\ session.shown[Field(w)] = Wanted(w)
<1> DEFINE row == <<Field(w), Wanted(w)>>
<1>1. FormTypes /\ In(w, Acting)
  BY DEF FormInv, Record, In, Acting
<1>2. row \in Pairs
  BY <1>1, OwnField
<1>3. UNCHANGED <<final, task, at, memory, approvals, answers, known, session, filed>>
  BY DEF Record, browserVars, humanVars
<1>4. \A step \in Steps : Goto(w, step) =>
        /\ Moved(w) /\ local'[w].pc = step
        /\ local'[w].idx = local[w].idx /\ local'[w].use = local[w].use
  BY <1>1, GoesOn
<1>5. {"raise", "mark"} \subseteq Steps
  BY DEF Steps, Holding, Busy, Answered, Planned, Acting
<1>6. ASSUME NEW step \in {"raise", "mark"}, NEW kind \in {"SUCCEEDED", "UNKNOWN_RESULT"},
             Goto(w, step), ledger' = [ledger EXCEPT ![row].status = kind]
      PROVE  /\ FormTypes' /\ OtherRows(w) /\ Moved(w) /\ local'[w].pc = step
             /\ local'[w].idx = local[w].idx /\ local'[w].use = local[w].use
             /\ ledger'[row].status = kind /\ ledger'[row].approval = ledger[row].approval
  <2>1. /\ Moved(w) /\ local'[w].pc = step
        /\ local'[w].idx = local[w].idx /\ local'[w].use = local[w].use
    BY <1>4, <1>5, <1>6
  <2>2. /\ ledger' \in [Pairs -> Actions] /\ OtherRows(w)
        /\ ledger'[row].status = kind /\ ledger'[row].approval = ledger[row].approval
    BY <1>1, <1>2, <1>6, LedgerGoes DEF OtherRows, ActionStatuses
  <2>3. FormTypes'
    BY <1>1, <1>3, <2>1, <2>2 DEF FormTypes, Moved
  <2>4. QED
    BY <2>1, <2>2, <2>3
<1>7. CASE ~At(w, "unknown") /\ session.shown[Field(w)] = Wanted(w)
  <2>1. ledger' = [ledger EXCEPT ![row].status = "SUCCEEDED"] /\ Goto(w, "mark")
    BY <1>7 DEF Record
  <2>2. QED
    BY <1>6, <1>7, <2>1 DEF Row
<1>8. CASE ~(~At(w, "unknown") /\ session.shown[Field(w)] = Wanted(w))
  <2>1. ledger' = [ledger EXCEPT ![row].status = "UNKNOWN_RESULT"] /\ Goto(w, "raise")
    BY <1>8 DEF Record
  <2>2. QED
    BY <1>6, <2>1 DEF Row
<1>9. QED
  BY <1>7, <1>8

LEMMA MarkTypes ==
  ASSUME FormInv, NEW w \in Workers, MarkStarted(w)
  PROVE  /\ FormTypes' /\ Moved(w) /\ local'[w].pc = "validate"
         /\ local'[w].idx = local[w].idx /\ local'[w].use = local[w].use /\ UNCHANGED answers
<1>1. FormTypes
  BY DEF FormInv
<1>2. UNCHANGED <<final, task, at, memory, approvals, ledger, answers, known, session, filed>>
  BY DEF MarkStarted, browserVars, humanVars
<1>3. "validate" \in Steps
  BY DEF Steps, Holding, Busy, Answered, Planned, Acting
<1>4. /\ Moved(w) /\ local'[w].pc = "validate"
      /\ local'[w].idx = local[w].idx /\ local'[w].use = local[w].use
  BY <1>1, <1>3, GoesOn DEF MarkStarted
<1>5. QED
  BY <1>1, <1>2, <1>4 DEF FormTypes, Moved

LEMMA ValidateTypes ==
  ASSUME FormInv, NEW w \in Workers, Validate(w)
  PROVE  /\ FormTypes' /\ Moved(w) /\ local'[w].pc = "checkpoint"
         /\ local'[w].idx = local[w].idx /\ local'[w].use = local[w].use
         /\ answers'[Field(w)].status = "VALIDATED"
         /\ \A f \in Fields : answers'[f].value = answers[f].value
         /\ \A f \in Fields \ {Field(w)} : answers'[f] = answers[f]
<1>1. FormTypes /\ In(w, Acting) /\ In(w, Busy)
  BY DEF FormInv, Validate, At, In, Acting, Busy, Answered, Planned
<1>2. Field(w) \in Fields
  BY <1>1, OwnField
<1>3. UNCHANGED <<final, task, at, memory, approvals, ledger, known, session, filed>>
  BY DEF MarkStarted, Validate, Checkpoint, browserVars, humanVars
<1>4. /\ Moved(w) /\ local'[w].pc = "checkpoint"
      /\ local'[w].idx = local[w].idx /\ local'[w].use = local[w].use
  <2>1. "checkpoint" \in Steps
    BY DEF Steps, Holding, Busy, Answered, Planned, Acting
  <2>2. QED
    BY <1>1, <2>1, GoesOn DEF Validate
<1> DEFINE new == [answers[Field(w)] EXCEPT !.status = "VALIDATED"]
<1>5. answers \in [Fields -> Answers] /\ answers[Field(w)] \in Answers
  BY <1>1, <1>2 DEF FormTypes
<1>6. new \in Answers /\ new.status = "VALIDATED" /\ new.value = answers[Field(w)].value
  BY <1>5 DEF Answers
<1>7. answers' = [answers EXCEPT ![Field(w)] = new]
  BY DEF Validate
<1> HIDE DEF new
<1>8. /\ answers' \in [Fields -> Answers] /\ answers'[Field(w)].status = "VALIDATED"
      /\ \A f \in Fields : answers'[f].value = answers[f].value
      /\ \A f \in Fields \ {Field(w)} : answers'[f] = answers[f]
  BY <1>2, <1>5, <1>6, <1>7
<1>9. FormTypes'
  BY <1>1, <1>3, <1>4, <1>8 DEF FormTypes, Moved
<1>10. QED
  BY <1>4, <1>8, <1>9

LEMMA CheckpointTypes ==
  ASSUME FormInv, NEW w \in Workers, Checkpoint(w)
  PROVE  /\ FormTypes' /\ Moved(w) /\ local'[w].use = local[w].use /\ UNCHANGED answers
         /\ local'[w].pc \in {"plan", "finish", "advance"}
         /\ \/ /\ local[w].idx # Len(Page)
               /\ local'[w].pc = "plan" /\ local'[w].idx = local[w].idx + 1
            \/ /\ local[w].idx = Len(Page)
               /\ local'[w].pc = IF session.page = final THEN "finish" ELSE "advance"
<1>1. FormTypes /\ In(w, Acting) /\ In(w, Busy)
  BY DEF FormInv, Checkpoint, At, In, Acting, Busy, Answered, Planned
<1>2. session.page = at
  BY <1>1, OwnField
<1>3. /\ UNCHANGED <<final, task, memory, approvals, ledger, answers, known, session, filed>>
      /\ at' = session.page
  BY DEF Checkpoint, browserVars, humanVars
<1>4. {"plan", "finish", "advance"} \subseteq Steps
  BY DEF Steps, Holding, Busy, Answered, Planned, Acting
<1>5. CASE ~LastField(w)
  <2>1. local' = [local EXCEPT ![w].pc = "plan", ![w].idx = @ + 1]
    BY <1>5 DEF Checkpoint
  <2>2. Moved(w) /\ local'[w].pc = "plan" /\ local'[w].idx = local[w].idx + 1
        /\ local'[w].use = local[w].use
    BY <1>1, <1>4, <2>1, NextField
  <2>3. FormTypes'
    BY <1>1, <1>2, <1>3, <2>2 DEF FormTypes, Moved
  <2>4. QED
    BY <1>3, <1>5, <2>2, <2>3 DEF LastField
<1>6. CASE LastField(w)
  <2> DEFINE step == IF session.page = final THEN "finish" ELSE "advance"
  <2>1. Goto(w, step) /\ step \in Steps /\ step \in {"finish", "advance"}
    BY <1>4, <1>6 DEF Checkpoint
  <2>2. Moved(w) /\ local'[w].pc = step /\ local'[w].use = local[w].use
    BY <1>1, <2>1, GoesOn
  <2>3. FormTypes'
    BY <1>1, <1>2, <1>3, <2>2 DEF FormTypes, Moved
  <2>4. QED
    BY <1>3, <1>6, <2>1, <2>2, <2>3 DEF LastField
<1>7. QED
  BY <1>5, <1>6

\* What the portal keeps of a page.
LEMMA Keeping ==
  ASSUME FormTypes
  PROVE  /\ Kept \in FieldValues
         /\ \A f \in Fields : Kept[f] = IF f \in Range(Page) THEN session.shown[f] ELSE filed[f]
BY DEF FormTypes, Kept, FieldValues, Sessions

LEMMA AdvanceTypes ==
  ASSUME FormInv, NEW w \in Workers, Advance(w)
  PROVE  /\ FormTypes' /\ Moved(w) /\ session'.holder = w
         /\ \/ /\ local'[w].pc = "turn" /\ filed' = Kept
               /\ session'.page = session.page + 1 /\ session'.shown = Blank
            \/ /\ local'[w].pc = "wait" /\ local'[w].ask = "NO_SAFE_ADVANCE"
               /\ UNCHANGED <<session, filed>>
<1>1. FormTypes /\ In(w, Busy) /\ In(w, Holding)
  BY DEF FormInv, Advance, At, In, Busy, Holding
<1>2. session.page # final /\ session.holder = w
  BY <1>1 DEF FormInv, Attempts, OnPage, Advance, Lock
<1>3. UNCHANGED <<final, task, at, memory, approvals, ledger, answers, known>>
  BY DEF Advance, humanVars
<1>4. CASE filed' = Kept /\ session' = [session EXCEPT !.page = @ + 1, !.shown = Blank] /\ Goto(w, "turn")
  <2>1. Moved(w) /\ local'[w].pc = "turn"
    BY <1>1, <1>4, Goes DEF Moved, Steps, Holding, Busy
  <2> DEFINE next == session.page + 1
  <2>2. next \in 1 .. final /\ next \in Nat
    BY <1>1, <1>2, PageTypes DEF FormTypes
  <2>3. session \in Sessions /\ Blank \in FieldValues /\ session' = [session EXCEPT !.page = next, !.shown = Blank]
    BY <1>1, <1>4 DEF FormTypes, Blank, FieldValues, Maybe
  <2>4. session' \in Sessions /\ session'.page = next /\ session'.shown = Blank
        /\ session'.holder = session.holder
    <3> HIDE DEF next
    <3>1. QED
      BY <2>2, <2>3 DEF Sessions
  <2>5. FormTypes'
    BY <1>1, <1>3, <1>4, <2>1, <2>2, <2>4, Keeping DEF FormTypes, Moved
  <2>6. QED
    BY <1>2, <1>4, <2>1, <2>4, <2>5
<1>5. CASE Ask(w, "NO_SAFE_ADVANCE") /\ UNCHANGED browserVars
  <2>1. Moved(w) /\ local'[w].pc = "wait" /\ local'[w].ask = "NO_SAFE_ADVANCE"
    BY <1>1, <1>5, Asks DEF Moved, Interrupts
  <2>2. UNCHANGED <<session, filed>>
    BY <1>5 DEF browserVars
  <2>3. FormTypes'
    BY <1>1, <1>3, <2>1, <2>2 DEF FormTypes, Moved
  <2>4. QED
    BY <1>2, <2>1, <2>2, <2>3
<1>6. QED
  BY <1>4, <1>5 DEF Advance, Kept

LEMMA TurnMoves ==
  ASSUME FormTypes, NEW w \in Workers, Turn(w)
  PROVE  Moved(w) /\ local'[w].pc \in {"inspect", "raise"}
<1>1. CASE local[w].round < MaxPages
  <2> DEFINE next == local[w].round + 1
             new == [local[w] EXCEPT !.pc = "inspect", !.round = next]
  <2>1. local[w] \in Locals /\ next \in Nat \ {0}
    BY OwnLocal DEF Locals
  <2>2. local' = [local EXCEPT ![w].pc = "inspect", ![w].round = @ + 1]
    BY <1>1 DEF Turn
  <2>3. local' = [local EXCEPT ![w] = new]
    BY <2>2 DEF FormTypes
  <2> HIDE DEF next
  <2>4. new \in Locals /\ new.pc = "inspect"
    BY <2>1 DEF Locals, Steps, Holding, Busy
  <2>5. QED
    BY <2>3, <2>4, Moves DEF Moved
<1>2. CASE ~(local[w].round < MaxPages)
  BY <1>2, Raises DEF Turn, Moved
<1>3. QED
  BY <1>1, <1>2

LEMMA TurnTypes ==
  ASSUME FormInv, NEW w \in Workers, Turn(w)
  PROVE  FormTypes' /\ Moved(w) /\ local'[w].pc \in {"inspect", "raise"}
<1>1. FormTypes /\ In(w, Busy)
  BY DEF FormInv, Turn, At, In, Busy
<1>2. memory.kind # "FORM_FIELD"
  BY <1>1 DEF FormInv, NoReply, AskedField
<1>3. at' = session.page
      /\ UNCHANGED <<final, task, memory, approvals, ledger, answers, known, session, filed>>
  BY DEF Turn, browserVars, humanVars
<1>4. Moved(w) /\ local'[w].pc \in {"inspect", "raise"}
  BY <1>1, TurnMoves
<1>5. QED
  BY <1>1, <1>2, <1>3, <1>4 DEF FormTypes, Moved

LEMMA FinishTypes ==
  ASSUME FormInv, NEW w \in Workers, Finish(w)
  PROVE  /\ FormTypes' /\ task'[Form].status = "SUCCEEDED"
         /\ memory'.kind = "nothing" /\ memory'.reply = Null
<1>1. FormTypes
  BY DEF FormInv
<1>2. task' \in [Tasks -> Rows] /\ task'[Form].status = "SUCCEEDED"
  <2>1. Ended(task[Form], "SUCCEEDED") \in Rows /\ Ended(task[Form], "SUCCEEDED").status = "SUCCEEDED"
    BY <1>1, OwnRow, Ending DEF Kinds
  <2>2. QED
    BY <1>1, <2>1, RowChanges DEF Finish
<1>3. memory \in Memories /\ memory' = [memory EXCEPT !.kind = "nothing", !.field = Null, !.reply = Null]
  BY <1>1 DEF FormTypes, Finish
<1>4. memory' \in Memories /\ memory'.kind = "nothing" /\ memory'.reply = Null
      /\ memory'.approval = memory.approval
  BY <1>3 DEF Memories, Interrupts, Maybe
<1>5. /\ local' \in [Workers -> Locals] /\ session' \in Sessions /\ session'.page \in 1 .. final
  BY <1>1, Leaves DEF Finish
<1>6. UNCHANGED <<final, at, approvals, ledger, answers, known, filed>>
  BY DEF Finish, humanVars
<1>7. QED
  BY <1>1, <1>2, <1>4, <1>5, <1>6 DEF FormTypes

LEMMA WaitTypes ==
  ASSUME FormInv, NEW w \in Workers, Wait(w)
  PROVE  /\ FormTypes' /\ Moved(w) /\ local'[w].pc = "suspend"
         /\ local'[w].idx = local[w].idx /\ local'[w].ask = local[w].ask
<1>1. FormTypes
  BY DEF FormInv
<1>2. UNCHANGED <<final, task, at, memory, approvals, ledger, answers, known, session, filed>>
  BY DEF Wait, browserVars, humanVars
<1>3. "suspend" \in Steps
  BY DEF Steps, Holding, Busy
<1>4. Moved(w) /\ local'[w].pc = "suspend"
      /\ local'[w].idx = local[w].idx /\ local'[w].ask = local[w].ask
  BY <1>1, <1>3, GoesOn DEF Wait
<1>5. QED
  BY <1>1, <1>2, <1>4 DEF FormTypes, Moved

\* The question that a worker leaves behind is about a field of its page.
LEMMA SuspendTypes ==
  ASSUME FormInv, NEW w \in Workers, Suspend(w)
  PROVE  FormTypes' /\ Moved(w) /\ local'[w].pc = "tell" /\ task'[Form].status = "WAITING_HUMAN"
<1>1. FormTypes /\ In(w, Busy) /\ In(w, Busy \ {"turn"}) /\ In(w, {"wait", "suspend"})
      /\ local[w] \in Locals
  BY OwnLocal DEF FormInv, Suspend, At, In, Busy
<1>2. session.page = at /\ (local[w].ask = "FORM_FIELD" => local[w].idx \in 1 .. Len(Page))
  BY <1>1, PageTypes DEF FormInv, Attempts, OnPage, Locals
<1>3. UNCHANGED <<final, at, approvals, ledger, answers, known, session, filed>>
  BY DEF Suspend, browserVars, humanVars
<1>4. task' \in [Tasks -> Rows] /\ task'[Form].status = "WAITING_HUMAN"
  <2>1. Ended(task[Form], "WAITING_HUMAN") \in Rows
        /\ Ended(task[Form], "WAITING_HUMAN").status = "WAITING_HUMAN"
    BY <1>1, OwnRow, Ending DEF Kinds
  <2>2. QED
    BY <1>1, <2>1, RowChanges DEF Suspend
<1> DEFINE about == IF local[w].ask = "FORM_FIELD" THEN Field(w) ELSE Null
<1>5. about \in Fields \cup {Null} /\ (local[w].ask = "FORM_FIELD" => about \in Range(Pages[at]))
  BY <1>1, <1>2, PageTypes DEF Field, Page
<1>6. memory \in Memories /\ local[w].ask \in Interrupts
      /\ memory' = [memory EXCEPT !.kind = local[w].ask, !.reply = Null, !.field = about]
  BY <1>1 DEF FormTypes, Suspend, Locals
<1> HIDE DEF about
<1>7. memory' \in Memories /\ memory'.kind = local[w].ask /\ memory'.field = about
      /\ memory'.reply = Null /\ memory'.approval = memory.approval
  BY <1>5, <1>6 DEF Memories, Maybe
<1>8. Moved(w) /\ local'[w].pc = "tell"
  BY <1>1, Goes DEF Suspend, Moved, Steps, Holding
<1>9. QED
  BY <1>1, <1>3, <1>4, <1>5, <1>7, <1>8 DEF FormTypes, Moved, Maybe

LEMMA TellTypes ==
  ASSUME FormInv, NEW w \in Workers, Tell(w)
  PROVE  FormTypes'
<1>1. FormTypes /\ memory.approval <= Len(approvals)
  BY DEF FormInv, FormTypes
<1>2. UNCHANGED <<final, task, at, memory, ledger, answers, known, filed>>
  BY DEF Tell, humanVars
<1>3. local' \in [Workers -> Locals] /\ session' \in Sessions /\ session'.page \in 1 .. final
  BY <1>1, Leaves DEF Tell
<1>4. approvals' \in Seq(Approvals) /\ Len(approvals') = Len(approvals)
  <2>1. CASE UNCHANGED approvals
    BY <1>1, <2>1 DEF FormTypes
  <2>2. CASE approvals' = [approvals EXCEPT ![local[w].use].asked = TRUE]
    <3>1. approvals \in Seq(Approvals)
      BY <1>1 DEF FormTypes
    <3>2. CASE local[w].use \in 1 .. Len(approvals)
      <4> DEFINE new == [approvals[local[w].use] EXCEPT !.asked = TRUE]
      <4>1. approvals[local[w].use] \in Approvals
        BY <3>1, <3>2
      <4>2. new \in Approvals
        BY <4>1 DEF Approvals
      <4>3. approvals' = [approvals EXCEPT ![local[w].use] = new]
        BY <2>2
      <4> HIDE DEF new
      <4>4. QED
        BY <1>1, <3>2, <4>2, <4>3, ApprovalChanges
    <3>3. CASE local[w].use \notin 1 .. Len(approvals)
      <4>1. approvals \in [1 .. Len(approvals) -> Approvals] /\ DOMAIN approvals = 1 .. Len(approvals)
        BY <3>1
      <4>2. approvals' = approvals
        BY <2>2, <3>3, <4>1
      <4>3. QED
        BY <3>1, <4>2
    <3>4. QED
      BY <3>2, <3>3
  <2>3. QED
    BY <2>1, <2>2 DEF Tell
<1>5. QED
  BY <1>1, <1>2, <1>3, <1>4 DEF FormTypes

\* A login that has expired is asked of a human.
LEMMA LoginTypes ==
  ASSUME FormInv, NEW w \in Workers, LoginExpired(w)
  PROVE  /\ FormTypes' /\ task'[Form].status = "WAITING_HUMAN" /\ Leave(w)
         /\ memory'.kind = "EXPIRED_BROWSER_LOGIN" /\ memory'.reply = Null
         /\ UNCHANGED <<final, app, at, approvals, ledger, answers, known, filed>>
<1>1. FormTypes /\ Leave(w) /\ UNCHANGED <<final, app, at, approvals, ledger, answers, known, filed>>
  BY DEF FormInv, LoginExpired, humanVars
<1>2. task' \in [Tasks -> Rows] /\ task'[Form].status = "WAITING_HUMAN"
  <2>1. Ended(task[Form], "WAITING_HUMAN") \in Rows
        /\ Ended(task[Form], "WAITING_HUMAN").status = "WAITING_HUMAN"
    BY <1>1, OwnRow, Ending DEF Kinds
  <2>2. QED
    BY <1>1, <2>1, RowChanges DEF LoginExpired
<1>3. memory \in Memories
      /\ memory' = [memory EXCEPT !.kind = "EXPIRED_BROWSER_LOGIN", !.reply = Null, !.field = Null]
  BY <1>1 DEF FormTypes, LoginExpired
<1>4. memory' \in Memories /\ memory'.kind = "EXPIRED_BROWSER_LOGIN" /\ memory'.reply = Null
      /\ memory'.approval = memory.approval
  BY <1>3 DEF Memories, Interrupts, Maybe
<1>5. local' \in [Workers -> Locals] /\ session' \in Sessions /\ session'.page \in 1 .. final
  BY <1>1, Leaves
<1>6. QED
  BY <1>1, <1>2, <1>4, <1>5 DEF FormTypes

\* An attempt that ends in any other way.
LEMMA LeaveTypes ==
  ASSUME FormInv, NEW w \in Workers,
         FormLeaseLost(w) \/ FailForm(w) \/ AttemptFails(w) \/ CrashForm(w) \/ StopForm(w)
  PROVE  /\ FormTypes' /\ Leave(w) /\ memory'.reply = memory.reply /\ memory'.kind = memory.kind
         /\ UNCHANGED <<final, app, at, approvals, ledger, answers, filed>>
         /\ \/ UNCHANGED task
            \/ task[Form].status = "ACTIVE" /\ task'[Form].status \in {"READY", "WAITING_RETRY", "FAILED"}
<1>1. FormTypes /\ Leave(w) /\ UNCHANGED <<final, app, at, approvals, ledger, answers, known, filed>>
  BY DEF FormInv, FormLeaseLost, FailForm, AttemptFails, CrashForm, StopForm, humanVars
<1>2. local' \in [Workers -> Locals] /\ session' \in Sessions /\ session'.page \in 1 .. final
  BY <1>1, Leaves
<1>3. /\ memory' \in Memories /\ memory'.reply = memory.reply /\ memory'.kind = memory.kind
      /\ memory'.field = memory.field /\ memory'.approval = memory.approval
  <2>1. CASE UNCHANGED memory
    BY <1>1, <2>1 DEF FormTypes
  <2>2. CASE memory' = [memory EXCEPT !.continuation = TRUE]
    BY <1>1, <2>2, Continuing
  <2>3. QED
    BY <2>1, <2>2 DEF FormLeaseLost, FailForm, AttemptFails, CrashForm, StopForm
<1>4. /\ task' \in [Tasks -> Rows]
      /\ \/ UNCHANGED task
         \/ task[Form].status = "ACTIVE" /\ task'[Form].status \in {"READY", "WAITING_RETRY", "FAILED"}
  <2>1. CASE UNCHANGED task
    BY <1>1, <2>1 DEF FormTypes
  <2>2. CASE task[Form].status = "ACTIVE" /\ task' = [task EXCEPT ![Form] = Released(@)]
    BY <1>1, <2>2, OwnRow, GivingBack, RowChanges
  <2>3. ASSUME task[Form].status = "ACTIVE", NEW retryable \in BOOLEAN,
               task' = [task EXCEPT ![Form] = Retried(@, Form, retryable)]
        PROVE  /\ task' \in [Tasks -> Rows]
               /\ task'[Form].status \in {"READY", "WAITING_RETRY", "FAILED"}
    BY <1>1, <2>3, OwnRow, GivingBack, RowChanges
  <2>4. QED
    BY <2>1, <2>2, <2>3 DEF FormLeaseLost, FailForm, AttemptFails, CrashForm, StopForm, Fence
<1>5. QED
  BY <1>1, <1>2, <1>3, <1>4 DEF FormTypes

-----------------------------------------------------------------------------
(* Recovery and humans *)

LEMMA RecoverActionsTypes ==
  ASSUME FormTypes, RecoverActions
  PROVE  /\ FormTypes'
         /\ \A p \in Pairs : /\ ledger'[p].approval = ledger[p].approval
                             /\ ledger'[p].status = IF ledger[p].status = "EXECUTING" THEN "UNKNOWN_RESULT"
                                                    ELSE ledger[p].status
<1>1. \A p \in Pairs :
        /\ ledger'[p] \in Actions /\ ledger'[p].approval = ledger[p].approval
        /\ ledger'[p].status = IF ledger[p].status = "EXECUTING" THEN "UNKNOWN_RESULT"
                               ELSE ledger[p].status
  <2> SUFFICES ASSUME NEW p \in Pairs
               PROVE  /\ ledger'[p] \in Actions /\ ledger'[p].approval = ledger[p].approval
                      /\ ledger'[p].status = IF ledger[p].status = "EXECUTING" THEN "UNKNOWN_RESULT"
                                             ELSE ledger[p].status
    OBVIOUS
  <2>1. ledger[p] \in Actions
    BY DEF FormTypes
  <2>2. ledger'[p] = IF ledger[p].status = "EXECUTING"
                     THEN [ledger[p] EXCEPT !.status = "UNKNOWN_RESULT"] ELSE ledger[p]
    BY DEF RecoverActions
  <2>3. QED
    BY <2>1, <2>2 DEF Actions
<1>2. ledger' \in [Pairs -> Actions]
  BY <1>1 DEF RecoverActions
<1>3. UNCHANGED <<final, task, at, memory, approvals, answers, known, session, filed, local>>
  BY DEF RecoverActions, browserVars, humanVars
<1>4. FormTypes'
  BY <1>2, <1>3 DEF FormTypes
<1>5. QED
  BY <1>1, <1>4

\* The steps of humans and of the recovery that leave the workers alone.
Outside == RecoverForm \/ AnswerField \/ OperatorResumes \/ Decide \/ Overdue \/ EditKnowledge

LEMMA OutsideTypes ==
  ASSUME FormTypes, Outside
  PROVE  /\ FormTypes' /\ memory'.kind = memory.kind
         /\ UNCHANGED <<final, app, at, ledger, answers, session, filed, local>>
         /\ \/ UNCHANGED task /\ memory'.reply = memory.reply
            \/ /\ task[Form].status \in {"ACTIVE", "WAITING_RETRY"}
               /\ task'[Form].status \in {"READY", "FAILED"} /\ memory'.reply = memory.reply
            \/ /\ task[Form].status = "WAITING_HUMAN" /\ task'[Form].status = "READY"
               /\ memory'.reply # Null
<1>0. UNCHANGED <<final, app, at, ledger, answers, session, filed, local>>
  BY DEF Outside, RecoverForm, AnswerField, OperatorResumes, Decide, Overdue, EditKnowledge,
     browserVars
<1>1. ASSUME NEW reply \in Maybe \cup {Decided}, ResumedBy(reply), reply # Null,
             UNCHANGED known,
             approvals' \in Seq(Approvals), Len(approvals') = Len(approvals)
      PROVE  FormTypes' /\ memory'.kind = memory.kind /\ task'[Form].status = "READY"
             /\ memory'.reply # Null
  <2>1. /\ task' \in [Tasks -> Rows] /\ task'[Form].status = "READY"
        /\ memory' \in Memories /\ memory'.reply = reply
        /\ memory'.kind = memory.kind /\ memory'.field = memory.field
        /\ memory'.approval = memory.approval
    BY <1>1, Resuming
  <2>2. QED
    BY <1>0, <1>1, <2>1 DEF FormTypes
<1>9. DOMAIN approvals = 1 .. Len(approvals)
  BY DEF FormTypes
<1>2. CASE RecoverForm
  <2>1. task' \in [Tasks -> Rows] /\ task[Form].status \in {"ACTIVE", "WAITING_RETRY"}
        /\ task'[Form].status \in {"READY", "FAILED"}
    BY <1>2, RecoverChanges DEF RecoverForm
  <2>2. UNCHANGED <<memory, approvals, known>>
    BY <1>2 DEF RecoverForm, humanVars
  <2>3. FormTypes'
    BY <1>0, <2>1, <2>2 DEF FormTypes
  <2>4. QED
    BY <1>0, <2>1, <2>2, <2>3
<1>3. CASE AnswerField
  <2>1. PICK v \in Offers[memory.field] : ResumedBy(v)
    BY <1>3 DEF AnswerField
  <2>2. v \in Values /\ v # Null
    <3>1. memory.field \in Fields
      BY <1>3, PageTypes, PageOf DEF FormTypes, AnswerField
    <3>2. QED
      BY <2>1, <3>1, OffersAssumption, FormAssumption
  <2>3. UNCHANGED <<approvals, known>> /\ task[Form].status = "WAITING_HUMAN"
    BY <1>3 DEF AnswerField, humanVars
  <2>4. QED
    BY <1>0, <1>1, <2>1, <2>2, <2>3 DEF Maybe, FormTypes
<1>4. CASE OperatorResumes
  <2>1. ResumedBy(Decided) /\ task[Form].status = "WAITING_HUMAN"
        /\ UNCHANGED <<approvals, known>>
    BY <1>4 DEF OperatorResumes, humanVars
  <2>2. Decided # Null
    BY DecidedAssumption
  <2>3. QED
    BY <1>0, <1>1, <2>1, <2>2 DEF FormTypes
<1>5. CASE Decide
  <2>1. PICK a \in 1 .. Len(approvals), verdict \in {"APPROVED", "REJECTED"} :
          /\ approvals' = [approvals EXCEPT ![a].status = verdict]
          /\ IF memory.kind = "PREPARE_APPROVAL" /\ memory.approval = a
             THEN task[Form].status = "WAITING_HUMAN" /\ ResumedBy(Decided)
             ELSE UNCHANGED <<task, memory>>
    BY <1>5, <1>9 DEF Decide
  <2> DEFINE new == [approvals[a] EXCEPT !.status = verdict]
  <2>2. approvals[a] \in Approvals
    BY DEF FormTypes
  <2>3. new \in Approvals
    BY <2>2 DEF Approvals
  <2>4. approvals' = [approvals EXCEPT ![a] = new]
    BY <2>1
  <2> HIDE DEF new
  <2>5. approvals' \in Seq(Approvals) /\ Len(approvals') = Len(approvals)
    BY <2>3, <2>4, ApprovalChanges
  <2>6. UNCHANGED known
    BY <1>5 DEF Decide, humanVars
  <2>7. CASE memory.kind = "PREPARE_APPROVAL" /\ memory.approval = a
    <3>1. task[Form].status = "WAITING_HUMAN" /\ ResumedBy(Decided) /\ Decided # Null
      BY <2>1, <2>7, DecidedAssumption
    <3>2. QED
      BY <1>0, <1>1, <2>5, <2>6, <2>7, <3>1
  <2>8. CASE UNCHANGED <<task, memory>>
    BY <1>0, <2>5, <2>6, <2>8 DEF FormTypes
  <2>9. QED
    BY <2>1, <2>7, <2>8
<1>6. CASE Overdue
  <2>1. PICK a \in 1 .. Len(approvals) : approvals' = [approvals EXCEPT ![a].overdue = TRUE]
    BY <1>6, <1>9 DEF Overdue
  <2> DEFINE new == [approvals[a] EXCEPT !.overdue = TRUE]
  <2>2. approvals[a] \in Approvals
    BY DEF FormTypes
  <2>3. new \in Approvals
    BY <2>2 DEF Approvals
  <2>4. approvals' = [approvals EXCEPT ![a] = new]
    BY <2>1
  <2> HIDE DEF new
  <2>5. approvals' \in Seq(Approvals) /\ Len(approvals') = Len(approvals)
    BY <2>3, <2>4, ApprovalChanges
  <2>6. UNCHANGED <<task, memory, known>>
    BY <1>6 DEF Overdue, humanVars
  <2>7. QED
    BY <1>0, <2>5, <2>6 DEF FormTypes
<1>7. CASE EditKnowledge
  <2>1. PICK f \in Fields : \E v \in Offers[f] : known' = [known EXCEPT ![f] = v]
    BY <1>7 DEF EditKnowledge
  <2>2. known' \in FieldValues
    BY <2>1, OffersAssumption DEF FormTypes, FieldValues, Maybe
  <2>3. UNCHANGED <<task, memory, approvals>>
    BY <1>7 DEF EditKnowledge
  <2>4. QED
    BY <1>0, <2>2, <2>3 DEF FormTypes
<1>8. QED
  BY <1>2, <1>3, <1>4, <1>5, <1>6, <1>7 DEF Outside

-----------------------------------------------------------------------------
(* The lock, and the replies of humans *)

\* The steps of a worker that keeps its browser session.
Work(w) ==
  \/ Inspect(w) \/ Resolve(w) \/ ApprovePlan(w) \/ RememberApproval(w) \/ Revalidate(w)
  \/ PlanAction(w) \/ Start(w) \/ Restore(w) \/ Fill(w) \/ Record(w)
  \/ MarkStarted(w) \/ Validate(w) \/ Checkpoint(w)
  \/ Advance(w) \/ Turn(w) \/ Wait(w)

LEMMA WorkMoves ==
  ASSUME FormInv, NEW w \in Workers, Work(w)
  PROVE  /\ FormTypes' /\ Moved(w) /\ In(w, Busy) /\ session.holder = w /\ session'.holder = w
         /\ local'[w].pc \notin {"open", "forget"}
         /\ UNCHANGED task /\ memory'.reply = memory.reply /\ memory'.kind = memory.kind
<1>0. FormTypes
  BY DEF FormInv
<1>1. In(w, Busy)
  BY DEF Work, Inspect, Resolve, ApprovePlan, RememberApproval, Revalidate, PlanAction, Start,
     Restore,
         Fill, Record, MarkStarted, Validate, Checkpoint, Advance, Turn, Wait, At, In, Busy,
         Answered, Planned, Acting
<1>2. session.holder = w
  BY <1>1 DEF FormInv, Lock, In, Holding
<1>3. UNCHANGED task
  BY DEF Work, Inspect, Resolve, ApprovePlan, RememberApproval, Revalidate, PlanAction, Start,
     Restore,
         Fill, Record, MarkStarted, Validate, Checkpoint, Advance, Turn, Wait
<1>4. memory'.reply = memory.reply /\ memory'.kind = memory.kind
  <2>1. CASE RememberApproval(w)
    BY <2>1, RememberTypes
  <2>2. CASE ~RememberApproval(w)
    BY <2>2 DEF Work, Inspect, Resolve, ApprovePlan, Revalidate, PlanAction, Start, Restore,
         Fill, Record, MarkStarted, Validate, Checkpoint, Advance, Turn, Wait
  <2>3. QED
    BY <2>1, <2>2
<1>5. CASE Inspect(w)
  <2>1. UNCHANGED session
    BY <1>5 DEF Inspect, browserVars
  <2>2. QED
    BY <1>0, <1>1, <1>2, <1>3, <1>4, <1>5, <2>1, InspectTypes, InspectMoves
<1>6. CASE Resolve(w)
  <2>1. UNCHANGED session
    BY <1>6 DEF Resolve, browserVars
  <2>2. local'[w].pc \in {"raise", "wait", "approve", "resolve"} /\ Moved(w)
    BY <1>0, <1>6, ResolveMoves
  <2>3. QED
    BY <1>0, <1>1, <1>2, <1>3, <1>4, <1>6, <2>1, <2>2, ResolveTypes
<1>7. CASE ApprovePlan(w)
  <2>1. UNCHANGED session
    BY <1>7 DEF ApprovePlan, browserVars
  <2>2. QED
    BY <1>0, <1>1, <1>2, <1>3, <1>4, <1>7, <2>1, ApproveTypes, ApproveMoves
<1>8. CASE RememberApproval(w)
  <2>1. UNCHANGED session
    BY <1>8 DEF RememberApproval, browserVars
  <2>2. QED
    BY <1>0, <1>1, <1>2, <1>3, <1>4, <1>8, <2>1, RememberTypes, RememberMoves
<1>9. CASE Revalidate(w)
  <2>1. UNCHANGED <<session, final, at, memory, approvals, ledger, answers, known, filed>>
    BY <1>9 DEF Revalidate, browserVars, humanVars
  <2>2. Moved(w) /\ local'[w].pc \notin {"open", "forget"}
    BY <1>0, <1>9, RevalidateMoves
  <2>3. FormTypes'
    BY <1>0, <1>3, <2>1, <2>2 DEF FormTypes, Moved
  <2>4. QED
    BY <1>1, <1>2, <1>3, <1>4, <2>1, <2>2, <2>3
<1>10. CASE PlanAction(w)
  <2>1. UNCHANGED session
    BY <1>10 DEF PlanAction, browserVars
  <2>2. QED
    BY <1>1, <1>2, <1>3, <1>4, <1>10, <2>1, PlanActionTypes
<1>11. CASE Start(w)
  <2>1. UNCHANGED session
    BY <1>11 DEF Start, browserVars
  <2>2. QED
    BY <1>1, <1>2, <1>3, <1>4, <1>11, <2>1, StartTypes
<1>12. CASE Restore(w)
  <2>1. UNCHANGED session
    BY <1>12 DEF Restore, browserVars
  <2>2. QED
    BY <1>1, <1>2, <1>3, <1>4, <1>12, <2>1, RestoreTypes
<1>13. CASE Fill(w)
  BY <1>1, <1>2, <1>3, <1>4, <1>13, FillTypes
<1>14. CASE Record(w)
  <2>1. UNCHANGED session
    BY <1>14 DEF Record, browserVars
  <2>2. QED
    BY <1>1, <1>2, <1>3, <1>4, <1>14, <2>1, RecordTypes
<1>15. CASE MarkStarted(w) \/ Validate(w) \/ Checkpoint(w)
  <2>1. UNCHANGED session
    BY <1>15 DEF MarkStarted, Validate, Checkpoint, browserVars
  <2>2. FormTypes' /\ Moved(w) /\ local'[w].pc \notin {"open", "forget"}
    BY <1>15, MarkTypes, ValidateTypes, CheckpointTypes
  <2>3. QED
    BY <1>1, <1>2, <1>3, <1>4, <2>1, <2>2
<1>16. CASE Advance(w)
  BY <1>1, <1>2, <1>3, <1>4, <1>16, AdvanceTypes
<1>17. CASE Turn(w)
  <2>1. UNCHANGED session
    BY <1>17 DEF Turn, browserVars
  <2>2. QED
    BY <1>1, <1>2, <1>3, <1>4, <1>17, <2>1, TurnTypes
<1>18. CASE Wait(w)
  <2>1. UNCHANGED session
    BY <1>18 DEF Wait, browserVars
  <2>2. QED
    BY <1>1, <1>2, <1>3, <1>4, <1>18, <2>1, WaitTypes
<1>19. QED
  BY <1>5, <1>6, <1>7, <1>8, <1>9, <1>10, <1>11, <1>12, <1>13, <1>14, <1>15, <1>16, <1>17, <1>18
     DEF Work

\* The steps by which an attempt ends.
Ends(w) ==
  \/ Finish(w) \/ Tell(w) \/ LoginExpired(w) \/ FormLeaseLost(w) \/ FailForm(w) \/ AttemptFails(w)
  \/ CrashForm(w) \/ StopForm(w)

LEMMA Steppings ==
  ASSUME [FormNext]_formVars
  PROVE  \/ UNCHANGED formVars \/ Outside \/ RecoverActions
         \/ \E w \in Workers : \/ Work(w) \/ Suspend(w) \/ Ends(w)
                               \/ ClaimForm(w) \/ TakeReply(w) \/ ForgetReply(w) \/ OpenSession(w)
BY Zenon DEF FormNext, Attempt, Work, Ends, Outside

LEMMA FormTypesStep ==
  ASSUME FormInv, [FormNext]_formVars
  PROVE  FormTypes'
<1>0. FormTypes
  BY DEF FormInv
<1>1. CASE UNCHANGED formVars
  BY <1>0, <1>1 DEF formVars, browserVars, humanVars, FormTypes
<1>2. CASE Outside
  BY <1>0, <1>2, OutsideTypes
<1>3. CASE RecoverActions
  BY <1>0, <1>3, RecoverActionsTypes
<1>4. ASSUME NEW w \in Workers, Work(w)
      PROVE  FormTypes'
  BY <1>4, WorkMoves
<1>5. ASSUME NEW w \in Workers, Ends(w)
      PROVE  FormTypes'
  BY <1>5, FinishTypes, TellTypes, LoginTypes, LeaveTypes DEF Ends
<1>6. ASSUME NEW w \in Workers,
             ClaimForm(w) \/ TakeReply(w) \/ ForgetReply(w) \/ OpenSession(w) \/ Suspend(w)
      PROVE  FormTypes'
  BY <1>0, <1>6, ClaimTypes, ReplyTypes, ForgetTypes, OpenTypes, SuspendTypes
<1>7. QED
  BY <1>1, <1>2, <1>3, <1>4, <1>5, <1>6, Steppings

\* Whoever is in the browser afterwards was there before, or has just opened
\* the session; an attempt that ends closes only its own.
LEMMA Ended1 ==
  ASSUME FormInv, NEW w \in Workers, Ends(w)
  PROVE  /\ Moved(w) /\ local'[w].pc = "idle"
         /\ session' = IF session.holder = w THEN Closed ELSE session
         /\ \A v \in Workers : In(v, Holding)' => In(v, Holding) /\ v # w /\ UNCHANGED session
<1>1. FormTypes /\ Leave(w)
  BY DEF FormInv, Ends, Finish, Tell, LoginExpired, FormLeaseLost, FailForm, AttemptFails,
     CrashForm, StopForm
<1>2. Moved(w) /\ local'[w].pc = "idle" /\ session' = IF session.holder = w THEN Closed ELSE session
  BY <1>1, Leaves DEF Moved
<1>3. ASSUME NEW v \in Workers, In(v, Holding)'
      PROVE  In(v, Holding) /\ v # w /\ UNCHANGED session
  <2>1. v # w
    BY <1>2, <1>3 DEF In, Holding, Busy, Answered, Planned, Acting
  <2>2. In(v, Holding)
    BY <1>2, <1>3, <2>1 DEF In, Moved, Others
  <2>3. session.holder = v
    BY <2>2 DEF FormInv, Lock
  <2>4. QED
    BY <1>2, <2>1, <2>2, <2>3
<1>4. QED
  BY <1>2, <1>3

LEMMA LockStep ==
  ASSUME FormInv, [FormNext]_formVars
  PROVE  Lock'
<1>0. FormTypes /\ Lock
  BY DEF FormInv
<1>1. CASE UNCHANGED <<local, session>>
  BY <1>0, <1>1 DEF Lock, In
<1>2. ASSUME NEW w \in Workers, Moved(w), session'.holder = session.holder,
             local'[w].pc \in Holding => session.holder = w
      PROVE  Lock'
  BY <1>0, <1>2 DEF Lock, In, Moved, Others
<1>3. ASSUME NEW w \in Workers, Ends(w)
      PROVE  Lock'
  BY <1>0, <1>3, Ended1 DEF Lock
<1>4. ASSUME NEW w \in Workers, OpenSession(w)
      PROVE  Lock'
  <2>1. CASE local'[w].pc = "raise" /\ UNCHANGED session
    BY <1>0, <1>2, <1>4, <2>1, OpenTypes DEF Holding, Busy, Answered, Planned, Acting
  <2>2. CASE session.holder = Null /\ session'.holder = w
    <3>1. \A v \in Workers : ~In(v, Holding)
      BY <1>0, <2>2, NobodyAssumption DEF Lock
    <3>2. Moved(w)
      BY <1>0, <1>4, OpenTypes
    <3>3. QED
      BY <2>2, <3>1, <3>2 DEF Lock, In, Moved, Others
  <2>3. QED
    BY <1>0, <1>4, <2>1, <2>2, OpenTypes
<1>5. ASSUME NEW w \in Workers, ClaimForm(w) \/ TakeReply(w) \/ ForgetReply(w)
      PROVE  Lock'
  <2>1. UNCHANGED session
    BY <1>5 DEF ClaimForm, TakeReply, ForgetReply, browserVars
  <2>2. Moved(w) /\ local'[w].pc \in {"reply", "forget", "open", "raise"}
    BY <1>0, <1>5, ClaimTypes, ReplyTypes, ForgetTypes
  <2>3. QED
    BY <1>2, <2>1, <2>2 DEF Holding, Busy, Answered, Planned, Acting
<1>6. ASSUME NEW w \in Workers, Suspend(w)
      PROVE  Lock'
  <2>1. UNCHANGED session /\ Moved(w) /\ In(w, Holding)
    BY <1>6, SuspendTypes DEF Suspend, browserVars, At, In, Holding, Busy
  <2>2. QED
    BY <1>0, <1>2, <2>1 DEF Lock
<1>7. ASSUME NEW w \in Workers, Work(w)
      PROVE  Lock'
  BY <1>2, <1>7, WorkMoves
<1>8. CASE Outside
  BY <1>0, <1>1, <1>8, OutsideTypes
<1>9. CASE RecoverActions
  BY <1>1, <1>9 DEF RecoverActions, browserVars
<1>10. CASE UNCHANGED formVars
  BY <1>1, <1>10 DEF formVars, browserVars
<1>11. QED
  BY <1>3, <1>4, <1>5, <1>6, <1>7, <1>8, <1>9, <1>10, Steppings

\* One worker at a time is in the browser.
LEMMA Alone ==
  ASSUME FormInv, NEW v \in Workers, NEW w \in Workers, In(v, Holding), In(w, Holding)
  PROVE  v = w
BY DEF FormInv, Lock

LEMMA NoReplyStep ==
  ASSUME FormInv, [FormNext]_formVars
  PROVE  NoReply'
<1>0. FormTypes /\ NoReply
  BY DEF FormInv
<1>1. CASE UNCHANGED <<local, task>> /\ memory'.reply = memory.reply /\ memory'.kind = memory.kind
  BY <1>0, <1>1 DEF NoReply, AskedField, In, At, Fence
<1>2. ASSUME NEW w \in Workers, Moved(w), UNCHANGED task,
             memory'.reply = memory.reply, memory'.kind = memory.kind,
             local'[w].pc \notin {"open", "forget"}, local'[w].pc \in Busy => In(w, Busy)
      PROVE  NoReply'
  BY <1>0, <1>2 DEF NoReply, AskedField, In, At, Fence, Moved, Others
<1>3. ASSUME NEW w \in Workers, Work(w)
      PROVE  NoReply'
  BY <1>2, <1>3, WorkMoves
<1>4. ASSUME NEW w \in Workers, Suspend(w)
      PROVE  NoReply'
  <2>1. Moved(w) /\ local'[w].pc = "tell" /\ task'[Form].status = "WAITING_HUMAN" /\ In(w, Holding)
    BY <1>4, SuspendTypes DEF Suspend, At, In, Holding, Busy
  <2>2. \A v \in Workers : ~In(v, Busy)'
    <3> SUFFICES ASSUME NEW v \in Workers, In(v, Busy)' PROVE FALSE
      OBVIOUS
    <3>1. v # w
      BY <2>1 DEF In, Busy, Answered, Planned, Acting
    <3>2. In(v, Holding)
      BY <2>1, <3>1 DEF In, Moved, Others, Holding
    <3>3. QED
      BY <2>1, <3>1, <3>2, Alone
  <2>3. QED
    BY <2>1, <2>2 DEF NoReply, Fence
<1>5. ASSUME NEW w \in Workers, ClaimForm(w)
      PROVE  NoReply'
  <2>1. /\ Moved(w) /\ local'[w].pc = "reply"
        /\ task'[Form].status = "ACTIVE" /\ task'[Form].owner = w
        /\ memory'.reply = memory.reply /\ memory'.kind = memory.kind
    BY <1>0, <1>5, ClaimTypes
  <2>2. task[Form].status = "READY"
    BY <1>5 DEF ClaimForm
  <2>3. QED
    BY <1>0, <2>1, <2>2
       DEF NoReply, AskedField, In, At, Fence, Moved, Others, Busy, Answered, Planned, Acting
<1>6. ASSUME NEW w \in Workers, TakeReply(w)
      PROVE  NoReply'
  <2>1. /\ Moved(w) /\ local'[w].pc \in {"open", "raise", "forget"}
        /\ local'[w].pc = "open" => memory.reply = Null
        /\ local'[w].pc = "forget" /\ AskedField => memory.reply \in Values
    BY <1>0, <1>6, ReplyTypes
  <2>2. UNCHANGED <<task, memory>> /\ task[Form].status = "ACTIVE"
    BY <1>6 DEF TakeReply, Fence
  <2>3. QED
    BY <1>0, <2>1, <2>2
       DEF NoReply, AskedField, In, At, Fence, Moved, Others, Busy, Answered, Planned, Acting
<1>7. ASSUME NEW w \in Workers, ForgetReply(w)
      PROVE  NoReply'
  BY <1>7, ForgetTypes DEF NoReply, AskedField
<1>8. ASSUME NEW w \in Workers, OpenSession(w)
      PROVE  NoReply'
  <2>1. Moved(w) /\ local'[w].pc \in {"inspect", "raise"}
    BY <1>0, <1>8, OpenTypes
  <2>2. UNCHANGED <<task, memory>> /\ ~AskedField
    BY <1>0, <1>8 DEF OpenSession, NoReply
  <2>3. QED
    BY <1>0, <2>1, <2>2 DEF NoReply, AskedField, In, At, Fence, Moved, Others
<1>9. ASSUME NEW w \in Workers, Ends(w)
      PROVE  NoReply'
  <2>1. Moved(w) /\ local'[w].pc = "idle"
    BY <1>9, Ended1
  <2>2. CASE Finish(w) \/ LoginExpired(w)
    BY <2>2, FinishTypes, LoginTypes DEF NoReply, AskedField
  <2>3. CASE Tell(w)
    <3>1. UNCHANGED <<task, memory>>
      BY <2>3 DEF Tell
    <3>2. QED
      BY <1>2, <2>1, <3>1 DEF Busy, Answered, Planned, Acting
  <2>4. CASE FormLeaseLost(w) \/ FailForm(w) \/ AttemptFails(w) \/ CrashForm(w) \/ StopForm(w)
    <3>1. memory'.reply = memory.reply /\ memory'.kind = memory.kind
      BY <2>4, LeaveTypes
    <3>2. CASE UNCHANGED task
      BY <1>2, <2>1, <3>1, <3>2 DEF Busy, Answered, Planned, Acting
    <3>3. CASE task[Form].status = "ACTIVE" /\ task'[Form].status \in {"READY", "WAITING_RETRY", "FAILED"}
      BY <1>0, <2>1, <3>1, <3>3
         DEF NoReply, AskedField, In, At, Fence, Moved, Others, Busy, Answered, Planned, Acting
    <3>4. QED
      BY <2>4, <3>2, <3>3, LeaveTypes
  <2>5. QED
    BY <1>9, <2>2, <2>3, <2>4 DEF Ends
<1>10. CASE Outside
  <2>1. UNCHANGED local /\ memory'.kind = memory.kind
    BY <1>0, <1>10, OutsideTypes
  <2>2. CASE UNCHANGED task /\ memory'.reply = memory.reply
    BY <1>1, <2>1, <2>2
  <2>3. CASE /\ task[Form].status \in {"ACTIVE", "WAITING_RETRY"}
             /\ task'[Form].status \in {"READY", "FAILED"} /\ memory'.reply = memory.reply
    BY <1>0, <2>1, <2>3 DEF NoReply, AskedField, In, At, Fence
  <2>4. CASE task[Form].status = "WAITING_HUMAN" /\ task'[Form].status = "READY" /\ memory'.reply # Null
    BY <1>0, <2>1, <2>4 DEF NoReply, AskedField, In, At, Fence
  <2>5. QED
    BY <1>0, <1>10, <2>2, <2>3, <2>4, OutsideTypes
<1>11. CASE RecoverActions
  BY <1>1, <1>11 DEF RecoverActions
<1>12. CASE UNCHANGED formVars
  BY <1>1, <1>12 DEF formVars
<1>13. QED
  BY <1>3, <1>4, <1>5, <1>6, <1>7, <1>8, <1>9, <1>10, <1>11, <1>12, Steppings

-----------------------------------------------------------------------------
(* Approvals *)

\* An approval keeps its plan, and one that is used up stays so.
ApprovalsKeep ==
  \A a \in 1 .. Len(approvals) :
    /\ a \in 1 .. Len(approvals') /\ approvals'[a].plan = approvals[a].plan
    /\ approvals[a].status = "CONSUMED" => approvals'[a].status = "CONSUMED"

LEMMA OneChanges ==
  ASSUME FormTypes, NEW a \in 1 .. Len(approvals), NEW new, approvals' = [approvals EXCEPT ![a] = new],
         new.plan = approvals[a].plan,
         approvals[a].status = "CONSUMED" => new.status = "CONSUMED"
  PROVE  ApprovalsKeep
BY DEF FormTypes, ApprovalsKeep

LEMMA KeepApprovals ==
  ASSUME FormInv, [FormNext]_formVars
  PROVE  ApprovalsKeep
<1>0. FormTypes /\ approvals \in Seq(Approvals) /\ DOMAIN approvals = 1 .. Len(approvals)
  BY DEF FormInv, FormTypes
<1>1. CASE UNCHANGED approvals
  BY <1>1 DEF ApprovalsKeep
<1>2. ASSUME NEW w \in Workers, ApprovePlan(w)
      PROVE  ApprovalsKeep
  <2> DEFINE old == memory.approval
  <2>1. CASE /\ approvals' = Append(Revoked(old), NewApproval)
             /\ Revoked(old) \in Seq(Approvals) /\ Len(Revoked(old)) = Len(approvals)
    <3>1. \A a \in 1 .. Len(approvals) : a \in 1 .. Len(approvals') /\ approvals'[a] = Revoked(old)[a]
      BY <1>0, <2>1
    <3>2. ASSUME NEW a \in 1 .. Len(approvals)
          PROVE  /\ Revoked(old)[a].plan = approvals[a].plan
                 /\ approvals[a].status = "CONSUMED" => Revoked(old)[a].status = "CONSUMED"
      <4>1. approvals[a] \in Approvals
        BY <1>0
      <4>2. CASE old = a /\ approvals[a].status \in {"PENDING", "APPROVED"}
        <5>1. Revoked(old)[a] = [approvals[a] EXCEPT !.status = "REVOKED"]
          BY <1>0, <4>2 DEF Revoked
        <5>2. QED
          BY <4>1, <4>2, <5>1 DEF Approvals
      <4>3. CASE ~(old = a /\ approvals[a].status \in {"PENDING", "APPROVED"})
        BY <1>0, <4>3 DEF Revoked
      <4>4. QED
        BY <4>2, <4>3
    <3>3. QED
      BY <3>1, <3>2 DEF ApprovalsKeep
  <2>2. QED
    BY <1>0, <1>1, <1>2, <2>1, ApproveMoves
<1>3. ASSUME NEW w \in Workers, Start(w)
      PROVE  ApprovalsKeep
  <2> DEFINE a == local[w].use
  <2>1. CASE approvals' = [approvals EXCEPT ![a].status = "CONSUMED"]
    <3>1. a \in 1 .. Len(approvals) /\ approvals[a] \in Approvals
      BY <1>0, <1>3, OwnField DEF Start, At, In, Acting
    <3> DEFINE new == [approvals[a] EXCEPT !.status = "CONSUMED"]
    <3>2. new.plan = approvals[a].plan /\ new.status = "CONSUMED"
      BY <3>1 DEF Approvals
    <3>3. approvals' = [approvals EXCEPT ![a] = new]
      BY <2>1
    <3> HIDE DEF new
    <3>4. QED
      BY <1>0, <3>1, <3>2, <3>3, OneChanges
  <2>2. QED
    BY <1>1, <1>3, <2>1 DEF Start
<1>4. ASSUME NEW w \in Workers, Tell(w)
      PROVE  ApprovalsKeep
  <2> DEFINE a == local[w].use
  <2>1. CASE a \in 1 .. Len(approvals) /\ approvals' = [approvals EXCEPT ![a].asked = TRUE]
    <3> DEFINE new == [approvals[a] EXCEPT !.asked = TRUE]
    <3>1. approvals[a] \in Approvals
      BY <1>0, <2>1
    <3>2. new.plan = approvals[a].plan /\ new.status = approvals[a].status
      BY <3>1 DEF Approvals
    <3>3. approvals' = [approvals EXCEPT ![a] = new]
      BY <2>1
    <3> HIDE DEF new
    <3>4. QED
      BY <1>0, <2>1, <3>2, <3>3, OneChanges
  <2>2. CASE a \notin 1 .. Len(approvals) /\ approvals' = [approvals EXCEPT ![a].asked = TRUE]
    <3>1. \A b \in 1 .. Len(approvals) : approvals'[b] = approvals[b]
      BY <1>0, <2>2
    <3>2. DOMAIN approvals' = 1 .. Len(approvals) /\ Len(approvals') = Len(approvals)
      <4>1. approvals \in [1 .. Len(approvals) -> Approvals]
        BY <1>0
      <4>2. approvals' = approvals
        BY <2>2, <4>1
      <4>3. QED
        BY <1>0, <4>2
    <3>3. QED
      BY <3>1, <3>2 DEF ApprovalsKeep
  <2>3. QED
    BY <1>1, <1>4, <2>1, <2>2 DEF Tell
<1>5. CASE Decide
  <2>1. PICK a \in 1 .. Len(approvals), verdict \in {"APPROVED", "REJECTED"} :
          /\ approvals[a].status = "PENDING"
          /\ approvals' = [approvals EXCEPT ![a].status = verdict]
    BY <1>0, <1>5 DEF Decide
  <2> DEFINE new == [approvals[a] EXCEPT !.status = verdict]
  <2>2. approvals[a] \in Approvals
    BY <1>0
  <2>3. new.plan = approvals[a].plan
    BY <2>2 DEF Approvals
  <2>4. approvals' = [approvals EXCEPT ![a] = new]
    BY <2>1
  <2> HIDE DEF new
  <2>5. QED
    BY <1>0, <2>1, <2>3, <2>4, OneChanges
<1>6. CASE Overdue
  <2>1. PICK a \in 1 .. Len(approvals) : approvals' = [approvals EXCEPT ![a].overdue = TRUE]
    BY <1>0, <1>6 DEF Overdue
  <2> DEFINE new == [approvals[a] EXCEPT !.overdue = TRUE]
  <2>2. approvals[a] \in Approvals
    BY <1>0
  <2>3. new.plan = approvals[a].plan /\ new.status = approvals[a].status
    BY <2>2 DEF Approvals
  <2>4. approvals' = [approvals EXCEPT ![a] = new]
    BY <2>1
  <2> HIDE DEF new
  <2>5. QED
    BY <1>0, <2>3, <2>4, OneChanges
<1>7. ASSUME NEW w \in Workers, Work(w), ~ApprovePlan(w), ~Start(w)
      PROVE  UNCHANGED approvals
  BY <1>7
     DEF Work, Inspect, Resolve, RememberApproval, Revalidate, PlanAction, Restore, Fill, Record,
              MarkStarted, Validate, Checkpoint, Advance, Turn, Wait
<1>8. ASSUME NEW w \in Workers, Ends(w), ~Tell(w)
      PROVE  UNCHANGED approvals
  BY <1>8 DEF Ends, Finish, LoginExpired, FormLeaseLost, FailForm, AttemptFails, CrashForm, StopForm
<1>9. ASSUME NEW w \in Workers,
             Suspend(w) \/ ClaimForm(w) \/ TakeReply(w) \/ ForgetReply(w) \/ OpenSession(w)
      PROVE  UNCHANGED approvals
  BY <1>9 DEF Suspend, ClaimForm, TakeReply, ForgetReply, OpenSession
<1>10. CASE RecoverForm \/ AnswerField \/ OperatorResumes \/ EditKnowledge \/ RecoverActions
            \/ UNCHANGED formVars
  <2>1. UNCHANGED approvals
    BY <1>10 DEF RecoverForm, AnswerField, OperatorResumes, EditKnowledge, RecoverActions, formVars
  <2>2. QED
    BY <1>1, <2>1
<1>11. QED
  BY <1>1, <1>2, <1>3, <1>4, <1>5, <1>6, <1>7, <1>8, <1>9, <1>10, Steppings DEF Outside

\* How the ledger changes.
LEMMA LedgerSteps ==
  ASSUME FormInv, [FormNext]_formVars
  PROVE  \/ UNCHANGED ledger \/ RecoverActions
         \/ \E w \in Workers : PlanAction(w) \/ Start(w) \/ Restore(w) \/ Record(w)
<1>1. ASSUME NEW w \in Workers, Work(w), ~PlanAction(w), ~Start(w), ~Restore(w), ~Record(w)
      PROVE  UNCHANGED ledger
  BY <1>1 DEF Work, Inspect, Resolve, ApprovePlan, RememberApproval, Revalidate, Fill,
              MarkStarted, Validate, Checkpoint, Advance, Turn, Wait
<1>2. ASSUME NEW w \in Workers,
             Ends(w) \/ Suspend(w) \/ ClaimForm(w) \/ TakeReply(w) \/ ForgetReply(w) \/ OpenSession(w)
      PROVE  UNCHANGED ledger
  BY <1>2
     DEF Ends, Finish, Tell, LoginExpired, FormLeaseLost, FailForm, AttemptFails, CrashForm,
         StopForm, Suspend, ClaimForm,
              TakeReply, ForgetReply, OpenSession
<1>3. CASE Outside \/ UNCHANGED formVars
  BY <1>3, OutsideTypes DEF FormInv, formVars
<1>4. QED
  BY <1>1, <1>2, <1>3, Steppings

LEMMA BegunConsumedStep ==
  ASSUME FormInv, [FormNext]_formVars
  PROVE  BegunConsumed'
<1>0. FormTypes /\ BegunConsumed /\ ApprovalsKeep
  BY KeepApprovals DEF FormInv
\* A row that is begun afterwards was begun before, under the same approval.
<1>1. ASSUME NEW p \in Pairs, ledger[p].status \in Begun, ledger'[p].approval = ledger[p].approval
      PROVE  /\ ledger'[p].approval \in 1 .. Len(approvals')
             /\ approvals'[ledger'[p].approval].status = "CONSUMED"
  BY <1>0, <1>1 DEF BegunConsumed, ApprovalsKeep
<1>2. CASE UNCHANGED ledger
  BY <1>1, <1>2 DEF BegunConsumed
<1>3. CASE RecoverActions
  <2>1. \A p \in Pairs : /\ ledger'[p].approval = ledger[p].approval
                         /\ ledger'[p].status \in Begun => ledger[p].status \in Begun
    BY <1>0, <1>3, RecoverActionsTypes DEF Begun
  <2>2. QED
    BY <1>1, <2>1 DEF BegunConsumed
<1>4. ASSUME NEW w \in Workers, OtherRows(w),
             LET p == <<Field(w), Wanted(w)>>
             IN  ledger'[p].status \in Begun => /\ ledger'[p].approval \in 1 .. Len(approvals')
                                                /\ approvals'[ledger'[p].approval].status = "CONSUMED"
      PROVE  BegunConsumed'
  BY <1>1, <1>4 DEF BegunConsumed, OtherRows
<1>5. ASSUME NEW w \in Workers, PlanAction(w)
      PROVE  BegunConsumed'
  <2>1. CASE UNCHANGED ledger
    BY <1>2, <2>1
  <2>2. CASE OtherRows(w) /\ ledger'[<<Field(w), Wanted(w)>>].status = "PLANNED"
    BY <1>4, <2>2 DEF Begun
  <2>3. CASE OtherRows(w)
             /\ ledger'[<<Field(w), Wanted(w)>>] = [status |-> "PLANNED", approval |-> local[w].use]
    BY <2>2, <2>3
  <2>4. QED
    BY <1>5, <2>1, <2>3, PlanActionTypes
<1>6. ASSUME NEW w \in Workers, Start(w)
      PROVE  BegunConsumed'
  <2>1. CASE UNCHANGED ledger
    BY <1>2, <2>1
  <2>2. CASE /\ OtherRows(w) /\ Len(approvals') = Len(approvals)
             /\ ledger'[<<Field(w), Wanted(w)>>].approval = Row(w).approval
             /\ approvals'[local[w].use] = [approvals[local[w].use] EXCEPT !.status = "CONSUMED"]
    <3>1. In(w, Acting) /\ In(w, Busy) /\ At(w, "start")
      BY <1>6 DEF Start, At, In, Acting, Busy, Answered, Planned
    <3>2. Row(w).approval = local[w].use /\ local[w].use \in 1 .. Len(approvals)
      BY <3>1, OwnField DEF FormInv, Attempts, HasRow, In, At
    <3>3. approvals[local[w].use] \in Approvals
      BY <1>0, <3>2 DEF FormTypes
    <3>4. approvals'[local[w].use].status = "CONSUMED"
      BY <2>2, <3>3 DEF Approvals
    <3>5. QED
      BY <1>4, <2>2, <3>2, <3>4
  <2>3. QED
    BY <1>6, <2>1, <2>2, StartTypes
<1>7. ASSUME NEW w \in Workers, Restore(w) \/ Record(w)
      PROVE  BegunConsumed'
  <2>1. CASE UNCHANGED ledger
    BY <1>2, <2>1
  <2>2. CASE OtherRows(w) /\ ledger'[<<Field(w), Wanted(w)>>].approval = Row(w).approval
    <3>1. In(w, Acting) /\ In(w, Busy) /\ In(w, {"restore", "record", "reconcile", "unknown"})
      BY <1>7 DEF Restore, Record, At, In, Acting, Busy, Answered, Planned
    <3>2. Row(w).status \in Begun /\ <<Field(w), Wanted(w)>> \in Pairs
      BY <3>1, OwnField DEF FormInv, Attempts, HasRow, In, At, Begun
    <3>3. QED
      BY <1>1, <1>4, <2>2, <3>2 DEF Row
  <2>3. QED
    BY <1>7, <2>1, <2>2, RestoreTypes, RecordTypes
<1>8. QED
  BY <1>2, <1>3, <1>5, <1>6, <1>7, LedgerSteps

LEMMA FillsApprovedStep ==
  ASSUME FormInv, [FormNext]_formVars
  PROVE  FillsApproved'
<1>0. FormTypes /\ FillsApproved /\ ApprovalsKeep /\ DOMAIN approvals = 1 .. Len(approvals)
      /\ DOMAIN approvals' = 1 .. Len(approvals')
  BY KeepApprovals, FormTypesStep DEF FormInv, FormTypes
<1> DEFINE Covered(f, v) == \E a \in 1 .. Len(approvals) :
                              /\ approvals[a].status = "CONSUMED"
                              /\ f \in DOMAIN approvals[a].plan /\ approvals[a].plan[f] = v
<1>1. ASSUME NEW f \in Fields, NEW v, Covered(f, v)
      PROVE  \E a \in DOMAIN approvals' :
               /\ approvals'[a].status = "CONSUMED"
               /\ f \in DOMAIN approvals'[a].plan /\ approvals'[a].plan[f] = v
  BY <1>0, <1>1 DEF ApprovalsKeep
<1>2. \A f \in Fields : \A v \in {session.shown[f], filed[f]} \ {Null} : Covered(f, v)
  BY <1>0 DEF FillsApproved
<1> HIDE DEF Covered
<1>3. SUFFICES \A f \in Fields : \A v \in {session'.shown[f], filed'[f]} \ {Null} : Covered(f, v)
  BY <1>1 DEF FillsApproved
<1>4. CASE UNCHANGED <<session, filed>>
  BY <1>2, <1>4
<1>5. ASSUME NEW w \in Workers, Fill(w)
      PROVE  \A f \in Fields : \A v \in {session'.shown[f], filed'[f]} \ {Null} : Covered(f, v)
  <2>1. In(w, Acting) /\ In(w, Busy) /\ At(w, "fill") /\ UNCHANGED filed
    BY <1>5 DEF Fill, At, In, Acting, Busy, Answered, Planned
  <2>2. Row(w).approval = local[w].use /\ Row(w).status \in Begun
    BY <2>1 DEF FormInv, Attempts, HasRow, In, At, Begun
  <2>3. approvals[local[w].use].status = "CONSUMED"
    BY <2>1, <2>2, OwnField DEF FormInv, BegunConsumed, Row
  <2>4. Covered(Field(w), Wanted(w))
    BY <2>1, <2>3, OwnField DEF Covered
  <2>5. QED
    BY <1>2, <1>5, <2>1, <2>4, FillTypes
<1>6. ASSUME NEW w \in Workers, Advance(w)
      PROVE  \A f \in Fields : \A v \in {session'.shown[f], filed'[f]} \ {Null} : Covered(f, v)
  <2>1. CASE filed' = Kept /\ session'.shown = Blank
    BY <1>0, <1>2, <2>1, Keeping DEF Blank
  <2>2. QED
    BY <1>4, <1>6, <2>1, AdvanceTypes
<1>7. ASSUME NEW w \in Workers, OpenSession(w)
      PROVE  \A f \in Fields : \A v \in {session'.shown[f], filed'[f]} \ {Null} : Covered(f, v)
  <2>1. UNCHANGED filed
    BY <1>7 DEF OpenSession
  <2>2. CASE session'.shown = Blank
    BY <1>2, <2>1, <2>2 DEF Blank
  <2>3. QED
    BY <1>0, <1>4, <1>7, <2>1, <2>2, OpenTypes
<1>8. ASSUME NEW w \in Workers, Ends(w)
      PROVE  \A f \in Fields : \A v \in {session'.shown[f], filed'[f]} \ {Null} : Covered(f, v)
  <2>1. session' = session \/ session'.shown = Blank
    BY <1>8, Ended1 DEF Closed
  <2>2. filed' = filed
    BY <1>8
       DEF Ends, Finish, Tell, LoginExpired, FormLeaseLost, FailForm, AttemptFails, CrashForm,
           StopForm
  <2>3. QED
    BY <1>0, <1>2, <2>1, <2>2 DEF Blank
<1>9. ASSUME NEW w \in Workers, Work(w), ~Fill(w), ~Advance(w)
      PROVE  UNCHANGED <<session, filed>>
  BY <1>9 DEF Work, Inspect, Resolve, ApprovePlan, RememberApproval, Revalidate, PlanAction, Start,
              Restore, Record, MarkStarted, Validate, Checkpoint, Turn, Wait, browserVars
<1>10. ASSUME NEW w \in Workers, Suspend(w) \/ ClaimForm(w) \/ TakeReply(w) \/ ForgetReply(w)
       PROVE  UNCHANGED <<session, filed>>
  BY <1>10 DEF Suspend, ClaimForm, TakeReply, ForgetReply, browserVars
<1>11. CASE RecoverActions \/ Outside \/ UNCHANGED formVars
  <2>1. UNCHANGED <<session, filed>>
    BY <1>0, <1>11, OutsideTypes DEF RecoverActions, formVars, browserVars
  <2>2. QED
    BY <1>4, <2>1
<1>12. QED
  BY <1>4, <1>5, <1>6, <1>7, <1>8, <1>9, <1>10, <1>11, Steppings

-----------------------------------------------------------------------------
(* Where an attempt stands *)

Fine(w) == OnPage(w) /\ HasPlan(w) /\ HasRow(w) /\ HasDone(w)

LEMMA OneAttempt ==
  ASSUME FormInv, NEW w \in Workers, Moved(w), In(w, Holding), In(w, Busy)' => Fine(w)'
  PROVE  Attempts'
<1> SUFFICES ASSUME NEW v \in Workers, In(v, Busy)'
             PROVE  Fine(v)'
  BY DEF Attempts, Fine
<1>1. v # w => In(v, Holding)
  BY DEF In, Moved, Others, Holding
<1>2. v = w
  BY <1>1, Alone
<1>3. QED
  BY <1>2

LEMMA FineKept ==
  ASSUME FormInv, NEW w \in Workers, In(w, Busy), local'[w] = local[w], ApprovalsKeep,
         UNCHANGED <<session, answers, at, final, ledger>>
  PROVE  Fine(w)'
<1>1. Fine(w)
  BY DEF FormInv, Attempts, Fine
<1>2. OnPage(w)'
  BY <1>1 DEF Fine, OnPage, In, At, Page
<1>3. HasPlan(w)'
  <2>1. In(w, Planned) => /\ local[w].use \in 1 .. Len(approvals')
                          /\ approvals'[local[w].use].plan = PlanOf(session.page)
    BY <1>1 DEF Fine, HasPlan, ApprovalsKeep
  <2>2. QED
    BY <1>1, <2>1 DEF Fine, HasPlan, In, At, Page, PlanOf
<1>4. HasRow(w)' /\ HasDone(w)'
  BY <1>1 DEF Fine, HasRow, HasDone, In, At, Row, Field, Wanted, Page, ShownDone
<1>5. QED
  BY <1>2, <1>3, <1>4 DEF Fine

LEMMA KeptAttempts ==
  ASSUME FormInv, ApprovalsKeep,
         \A w \in Workers : In(w, Busy)' => In(w, Busy) /\ local'[w] = local[w]
                                             /\ UNCHANGED <<session, answers, at, final, ledger>>
  PROVE  Attempts'
BY FineKept DEF Attempts, Fine

LEMMA ReadFine ==
  ASSUME FormInv, NEW w \in Workers, Inspect(w) \/ Turn(w) \/ Wait(w), In(w, Busy)'
  PROVE  Fine(w)'
<1>1. FormTypes /\ In(w, Busy) /\ Fine(w)
  BY WorkMoves DEF FormInv, Attempts, Fine, Work
<1>2. UNCHANGED <<session, final>>
  BY DEF Inspect, Turn, Wait, browserVars
<1>3. CASE Inspect(w)
  <2>1. at' = session.page
    BY <1>3 DEF Inspect
  <2>2. CASE local'[w].pc = "wait" /\ local'[w].ask = "BROWSER_CHALLENGE"
    BY <1>2, <2>1, <2>2
       DEF Fine, OnPage, HasPlan, HasRow, HasDone, In, At, Busy, Answered, Planned, Acting
  <2>3. CASE local'[w].pc = "resolve" /\ local'[w].idx = 1 /\ Page # <<>>
    <3>1. 1 <= Len(Page) /\ Page' = Page
      BY <1>1, <1>2, <2>3, PageTypes DEF Page
    <3>2. \A i \in 1 .. local'[w].idx - 1 : FALSE
      BY <2>3
    <3>3. QED
      BY <1>2, <2>1, <2>3, <3>1, <3>2
         DEF Fine, OnPage, HasPlan, HasRow, HasDone, In, At, Busy, Answered, Planned, Acting
  <2>4. CASE /\ Page = <<>>
             /\ local'[w].pc = IF session.page = final THEN "finish" ELSE "approve"
    <3>1. Page' = Page /\ \A i \in 1 .. Len(Page) : FALSE
      BY <1>1, <1>2, <2>4, PageTypes DEF Page
    <3>2. QED
      BY <1>2, <2>1, <2>4, <3>1
         DEF Fine, OnPage, HasPlan, HasRow, HasDone, In, At, Busy, Answered, Planned, Acting
  <2>5. QED
    BY <1>1, <1>3, <2>2, <2>3, <2>4, InspectMoves
<1>4. CASE Turn(w)
  <2>1. at' = session.page /\ local'[w].pc = "inspect"
    <3>1. at' = session.page /\ local'[w].pc \in {"inspect", "raise"}
      BY <1>1, <1>4, TurnTypes DEF Turn
    <3>2. local'[w].pc # "raise"
      BY DEF In, Busy, Answered, Planned, Acting
    <3>3. QED
      BY <3>1, <3>2
  <2>2. QED
    BY <1>2, <2>1
       DEF Fine, OnPage, HasPlan, HasRow, HasDone, In, At, Busy, Answered, Planned, Acting
<1>5. CASE Wait(w)
  <2>1. /\ local'[w].pc = "suspend" /\ local'[w].idx = local[w].idx /\ local'[w].ask = local[w].ask
        /\ UNCHANGED at /\ At(w, "wait")
    BY <1>5, WaitTypes DEF Wait
  <2>2. QED
    BY <1>1, <1>2, <2>1
       DEF Fine, OnPage, HasPlan, HasRow, HasDone, In, At, Busy, Answered, Planned, Acting, Page
<1>6. QED
  BY <1>3, <1>4, <1>5

LEMMA ResolveFine ==
  ASSUME FormInv, NEW w \in Workers, Resolve(w), In(w, Busy)'
  PROVE  Fine(w)'
<1> DEFINE f == Field(w)
           value == Resolved(Field(w))
<1>1. FormTypes /\ At(w, "resolve") /\ In(w, Busy) /\ Fine(w)
  BY DEF FormInv, Attempts, Fine, Resolve, At, In, Busy
<1>2. UNCHANGED <<session, final, at>> /\ Page' = Page
  BY DEF Resolve, browserVars, Page
<1>3. /\ session.page = at /\ local[w].idx \in 1 .. Len(Page) /\ Len(Page) \in Nat
      /\ f \in Fields /\ value \in Maybe
  BY <1>1, ResolveField, PageTypes
<1>4. PICK kind \in {"NEEDS_USER", "FILLED"} : answers' = Upserted(f, value, kind)
  BY <1>1, ResolveMoves DEF In, Busy, Answered, Planned, Acting
<1>5. answers'[f].value = value /\ \A g \in Fields \ {f} : answers'[g] = answers[g]
  BY <1>1, <1>3, <1>4, Upserting
\* The fields up to this one have a value when this one has.
<1>6. ASSUME value # Null, NEW i \in 1 .. local[w].idx
      PROVE  answers'[Page[i]].value \in Values
  <2>1. Page[i] \in Fields
    BY <1>1, <1>3, PageTypes
  <2>2. CASE i = local[w].idx
    BY <1>3, <1>5, <1>6, <2>2 DEF Field, Maybe
  <2>3. CASE i \in 1 .. local[w].idx - 1
    <3>1. answers[Page[i]].value \in Values
      BY <1>1, <2>3 DEF Fine, HasPlan
    <3>2. QED
      BY <1>3, <1>5, <1>6, <2>1, <3>1 DEF Maybe
  <2>4. QED
    BY <1>3, <2>2, <2>3
<1>7. CASE local'[w].pc = "wait" /\ local'[w].ask = "FORM_FIELD" /\ local'[w].idx = local[w].idx
  BY <1>2, <1>3, <1>7
     DEF Fine, OnPage, HasPlan, HasRow, HasDone, In, At, Busy, Answered, Planned, Acting
<1>8. CASE value # Null /\ LastField(w) /\ local'[w].pc = "approve"
  <2>1. \A i \in 1 .. Len(Page) : answers'[Page[i]].value \in Values
    BY <1>6, <1>8 DEF LastField
  <2>2. Page # <<>>
    BY <1>1, <1>3, PageTypes
  <2>3. QED
    BY <1>2, <1>3, <1>8, <2>1, <2>2
       DEF Fine, OnPage, HasPlan, HasRow, HasDone, In, At, Busy, Answered, Planned, Acting
<1>9. CASE /\ value # Null /\ ~LastField(w)
           /\ local'[w].pc = "resolve" /\ local'[w].idx = local[w].idx + 1
  <2>1. local'[w].idx <= Len(Page)
    BY <1>3, <1>9 DEF LastField
  <2>2. \A i \in 1 .. local'[w].idx - 1 : answers'[Page[i]].value \in Values
    BY <1>3, <1>6, <1>9
  <2>3. QED
    BY <1>2, <1>3, <1>9, <2>1, <2>2
       DEF Fine, OnPage, HasPlan, HasRow, HasDone, In, At, Busy, Answered, Planned, Acting
<1>10. QED
  BY <1>1, <1>7, <1>8, <1>9, ResolveMoves DEF In, Busy, Answered, Planned, Acting

LEMMA ApproveFine ==
  ASSUME FormInv, NEW w \in Workers, ApprovePlan(w)
  PROVE  Fine(w)'
<1>1. FormTypes /\ At(w, "approve") /\ In(w, Busy) /\ Fine(w)
  BY DEF FormInv, Attempts, Fine, ApprovePlan, At, In, Busy, Answered
<1>2. UNCHANGED <<session, final, at, answers>> /\ Page' = Page /\ PlanOf(session.page)' = PlanOf(session.page)
  BY DEF ApprovePlan, browserVars, Page, PlanOf
<1>3. local'[w].pc = "remember" /\ memory.approval \in Nat /\ memory.approval <= Len(approvals)
      /\ Len(approvals) \in Nat
  BY <1>1, ApproveMoves DEF FormTypes, Memories
<1>4. local'[w].use \in 1 .. Len(approvals') /\ approvals'[local'[w].use].plan = PlanOf(session.page)
  <2>1. CASE /\ memory.approval # 0 /\ local'[w].use = memory.approval
             /\ approvals[memory.approval].plan = PlanOf(session.page) /\ UNCHANGED approvals
    BY <1>3, <2>1
  <2>2. CASE /\ approvals' = Append(Revoked(memory.approval), NewApproval)
             /\ Revoked(memory.approval) \in Seq(Approvals)
             /\ Len(Revoked(memory.approval)) = Len(approvals)
             /\ local'[w].use = Len(approvals) + 1
    <3>1. Len(approvals') = Len(approvals) + 1 /\ approvals'[Len(approvals) + 1] = NewApproval
      BY <2>2
    <3>2. QED
      BY <1>3, <2>2, <3>1 DEF NewApproval
  <2>3. QED
    BY <1>1, <2>1, <2>2, ApproveMoves
<1>5. OnPage(w)'
  BY <1>1, <1>2, <1>3 DEF Fine, OnPage, In, At, Busy, Answered, Planned, Acting
<1>6. HasPlan(w)'
  <2>1. \A i \in 1 .. Len(Page) : answers[Page[i]].value \in Values
    BY <1>1 DEF Fine, HasPlan, In, At, Answered
  <2>2. QED
    BY <1>2, <1>3, <1>4, <2>1 DEF HasPlan, In, At
<1>7. HasRow(w)' /\ HasDone(w)'
  BY <1>3 DEF HasRow, HasDone, In, At, Acting
<1>8. QED
  BY <1>5, <1>6, <1>7 DEF Fine

LEMMA ApprovedFine ==
  ASSUME FormInv, NEW w \in Workers, RememberApproval(w) \/ Revalidate(w), In(w, Busy)'
  PROVE  Fine(w)'
<1>1. FormTypes /\ In(w, {"remember", "revalidate"}) /\ In(w, Busy) /\ In(w, Planned) /\ In(w, Answered)
      /\ Fine(w)
  BY DEF FormInv, Attempts, Fine, RememberApproval, Revalidate, At, In, Busy, Answered, Planned
<1>2. UNCHANGED <<session, final, at, answers, approvals>> /\ Page' = Page
      /\ PlanOf(session.page)' = PlanOf(session.page)
  BY DEF RememberApproval, Revalidate, browserVars, Page, PlanOf
<1>3. /\ session.page = at /\ (Page = <<>> => session.page # final)
      /\ \A i \in 1 .. Len(Page) : answers[Page[i]].value \in Values
      /\ local[w].use \in 1 .. Len(approvals) /\ approvals[local[w].use].plan = PlanOf(session.page)
  BY <1>1 DEF Fine, OnPage, HasPlan, In, At
<1>4. CASE RememberApproval(w)
  <2>1. CASE local'[w].pc = "wait" /\ local'[w].ask \in {"PREPARE_APPROVAL", "APPROVAL_BLOCKED"}
    BY <1>2, <1>3, <2>1
       DEF Fine, OnPage, HasPlan, HasRow, HasDone, In, At, Busy, Answered, Planned, Acting
  <2>2. CASE local'[w].pc = "revalidate" /\ local'[w].use = local[w].use
    <3>1. OnPage(w)' /\ HasRow(w)' /\ HasDone(w)'
      BY <1>2, <1>3, <2>2
         DEF OnPage, HasRow, HasDone, In, At, Busy, Answered, Planned, Acting
    <3>2. HasPlan(w)'
      BY <1>2, <1>3, <2>2 DEF HasPlan, In, At
    <3>3. QED
      BY <3>1, <3>2 DEF Fine
  <2>3. QED
    BY <1>1, <1>4, <2>1, <2>2, RememberMoves
<1>5. CASE Revalidate(w)
  <2>1. CASE local'[w].pc = "advance" /\ Page = <<>>
    <3>1. \A i \in 1 .. Len(Page) : FALSE
      BY <1>1, <2>1, PageTypes
    <3>2. QED
      BY <1>2, <1>3, <2>1, <3>1
         DEF Fine, OnPage, HasPlan, HasRow, HasDone, In, At, Busy, Answered, Planned, Acting
  <2>2. CASE local'[w].pc = "plan" /\ Page # <<>> /\ local'[w].idx = 1 /\ local'[w].use = local[w].use
    <3>1. 1 <= Len(Page)
      BY <1>1, <2>2, PageTypes
    <3>2. OnPage(w)' /\ HasRow(w)'
      BY <1>2, <1>3, <2>2, <3>1 DEF OnPage, HasRow, In, At, Busy, Answered, Planned, Acting
    <3>3. HasPlan(w)'
      BY <1>2, <1>3, <2>2 DEF HasPlan, In, At
    <3>4. \A i \in 1 .. local'[w].idx - 1 : FALSE
      BY <2>2
    <3>5. HasDone(w)'
      BY <2>2, <3>4 DEF HasDone, In, At
    <3>6. QED
      BY <3>2, <3>3, <3>5 DEF Fine
  <2>3. QED
    BY <1>1, <1>5, <2>1, <2>2, RevalidateMoves DEF In, Busy, Answered, Planned, Acting
<1>6. QED
  BY <1>4, <1>5

\* A step on the row of an action leaves the fields before it done.
LEMMA RowFine ==
  ASSUME FormInv, ApprovalsKeep, NEW w \in Workers, In(w, Acting), OtherRows(w),
         UNCHANGED <<session, final, at, answers>>,
         local'[w].idx = local[w].idx, local'[w].use = local[w].use, In(w, Acting)', HasRow(w)',
         local'[w].pc \notin {"validate", "checkpoint"},
         LET row == <<Field(w), Wanted(w)>>
         IN  /\ Row(w).status = "SUCCEEDED" /\ session.shown[Field(w)] = Wanted(w)
                  => ledger'[row].status = "SUCCEEDED"
             /\ local'[w].pc = "mark"
                  => session.shown[Field(w)] = Wanted(w) /\ ledger'[row].status = "SUCCEEDED"
  PROVE  Fine(w)'
<1>1. FormTypes /\ Fine(w) /\ In(w, Busy) /\ In(w, Answered) /\ In(w, Planned)
  BY DEF FormInv, Attempts, Fine, In, Busy, Answered, Planned
<1>2. Page' = Page /\ Field(w)' = Field(w) /\ Wanted(w)' = Wanted(w)
      /\ PlanOf(session.page)' = PlanOf(session.page)
  BY DEF Page, Field, Wanted, PlanOf
<1>3. /\ session.page = at /\ local[w].idx \in 1 .. Len(Page)
      /\ \A i \in 1 .. Len(Page) : answers[Page[i]].value \in Values
      /\ local[w].use \in 1 .. Len(approvals) /\ approvals[local[w].use].plan = PlanOf(session.page)
  BY <1>1, OwnField DEF Fine, HasPlan
<1>4. OnPage(w)'
  BY <1>2, <1>3 DEF OnPage, In, At, Acting
<1>5. HasPlan(w)'
  BY <1>2, <1>3 DEF HasPlan, ApprovalsKeep, In, At, Acting
<1>6. ASSUME NEW i \in 1 .. local[w].idx - 1
      PROVE  ShownDone(Page[i])'
  <2>1. i \in 1 .. Len(Page) /\ Page[i] \in Fields /\ ShownDone(Page[i])
    BY <1>1, <1>3, PageTypes DEF Fine, HasDone
  <2>2. PICK f \in Fields : f = Page[i]
    BY <2>1
  <2>3. <<f, answers[f].value>> \in Pairs
    BY <1>3, <2>1, <2>2 DEF Pairs
  <2>4. ledger'[<<f, answers[f].value>>].status = "SUCCEEDED"
    <3>1. CASE f = Field(w)
      BY <2>1, <2>2, <3>1 DEF ShownDone, Row, Wanted
    <3>2. CASE f # Field(w)
      BY <2>1, <2>2, <2>3, <3>2 DEF ShownDone, OtherRows
    <3>3. QED
      BY <3>1, <3>2
  <2>5. QED
    BY <1>2, <2>1, <2>2, <2>4 DEF ShownDone
<1>7. HasDone(w)'
  BY <1>2, <1>6 DEF HasDone, Row, In, At, Acting
<1>8. QED
  BY <1>4, <1>5, <1>7 DEF Fine

LEMMA ActionFine ==
  ASSUME FormInv, [FormNext]_formVars, NEW w \in Workers, In(w, Busy)',
         PlanAction(w) \/ Start(w) \/ Restore(w) \/ Record(w)
  PROVE  Fine(w)'
<1>1. ApprovalsKeep
  BY KeepApprovals
<1>2. /\ In(w, Acting) /\ In(w, Busy) /\ In(w, {"plan", "start", "restore", "record", "reconcile", "unknown"})
      /\ UNCHANGED <<session, final, at, answers>>
  BY DEF PlanAction, Start, Restore, Record, In, At, Acting, Busy, Answered, Planned, browserVars
<1>3. HasRow(w)
  BY <1>2 DEF FormInv, Attempts
<1> DEFINE row == <<Field(w), Wanted(w)>>
<1>4. Row(w)' = ledger'[row] \/ local'[w].idx # local[w].idx
  BY <1>2 DEF Row, Field, Wanted, Page
<1>5. CASE PlanAction(w)
  <2>1. OtherRows(w) /\ local'[w].idx = local[w].idx /\ local'[w].use = local[w].use
    BY <1>5, PlanActionTypes
  <2>2. Row(w)' = ledger'[row]
    BY <1>4, <2>1
  <2>3. local'[w].pc # "raise"
    BY DEF In, Busy, Answered, Planned, Acting
  <2>4. CASE /\ local'[w].pc = "start" /\ ledger'[row] = [status |-> "PLANNED", approval |-> local[w].use]
             /\ Row(w).status \in {"NONE", "PLANNED"}
    <3>1. HasRow(w)' /\ In(w, Acting)'
      BY <2>1, <2>2, <2>4 DEF HasRow, In, At, Acting
    <3>2. QED
      BY <1>1, <1>2, <2>1, <2>4, <3>1, RowFine
  <2>5. CASE /\ local'[w].pc = "restore" /\ UNCHANGED ledger
             /\ ledger'[row].status = "SUCCEEDED" /\ ledger'[row].approval = local[w].use
    <3>1. HasRow(w)' /\ In(w, Acting)'
      BY <2>1, <2>2, <2>5 DEF HasRow, In, At, Acting
    <3>2. QED
      BY <1>1, <1>2, <2>1, <2>5, <3>1, RowFine
  <2>6. CASE /\ local'[w].pc = "reconcile" /\ UNCHANGED ledger
             /\ ledger'[row].status \in {"EXECUTING", "UNKNOWN_RESULT"}
             /\ ledger'[row].approval = local[w].use
    <3>1. HasRow(w)' /\ In(w, Acting)'
      BY <2>1, <2>2, <2>6 DEF HasRow, In, At, Acting
    <3>2. ledger'[row] = Row(w)
      BY <2>6 DEF Row
    <3>3. QED
      BY <1>1, <1>2, <2>1, <2>6, <3>1, <3>2, RowFine
  <2>7. QED
    BY <1>5, <2>3, <2>4, <2>5, <2>6, PlanActionTypes
<1>6. CASE Start(w)
  <2>1. OtherRows(w) /\ local'[w].idx = local[w].idx /\ local'[w].use = local[w].use
    BY <1>6, StartTypes
  <2>2. Row(w)' = ledger'[row]
    BY <1>4, <2>1
  <2>3. local'[w].pc # "raise" /\ At(w, "start")
    BY <1>6 DEF In, Busy, Answered, Planned, Acting, Start
  <2>4. CASE /\ local'[w].pc = "fill" /\ Row(w).status = "PLANNED"
             /\ ledger'[row].status = "EXECUTING" /\ ledger'[row].approval = Row(w).approval
    <3>1. HasRow(w)' /\ In(w, Acting)'
      BY <1>3, <2>1, <2>2, <2>3, <2>4 DEF HasRow, In, At, Acting
    <3>2. QED
      BY <1>1, <1>2, <2>1, <2>4, <3>1, RowFine
  <2>5. QED
    BY <1>6, <2>3, <2>4, StartTypes
<1>7. CASE Restore(w)
  <2>1. OtherRows(w) /\ local'[w].idx = local[w].idx /\ local'[w].use = local[w].use
    BY <1>7, RestoreTypes
  <2>2. Row(w)' = ledger'[row]
    BY <1>4, <2>1
  <2>3. local'[w].pc # "raise" /\ At(w, "restore")
    BY <1>7 DEF In, Busy, Answered, Planned, Acting, Restore
  <2>4. CASE local'[w].pc = "mark" /\ UNCHANGED ledger /\ session.shown[Field(w)] = Wanted(w)
    <3>1. HasRow(w)' /\ In(w, Acting)'
      BY <2>4 DEF HasRow, In, At, Acting
    <3>2. ledger'[row].status = "SUCCEEDED"
      BY <1>3, <2>3, <2>4 DEF HasRow, Row
    <3>3. QED
      BY <1>1, <1>2, <2>1, <2>4, <3>1, <3>2, RowFine
  <2>5. CASE /\ local'[w].pc = "fill" /\ session.shown[Field(w)] # Wanted(w)
             /\ ledger'[row].status = "EXECUTING" /\ ledger'[row].approval = Row(w).approval
    <3>1. HasRow(w)' /\ In(w, Acting)'
      BY <1>3, <2>1, <2>2, <2>3, <2>5 DEF HasRow, In, At, Acting
    <3>2. QED
      BY <1>1, <1>2, <2>1, <2>5, <3>1, RowFine
  <2>6. QED
    BY <1>7, <2>3, <2>4, <2>5, RestoreTypes
<1>8. CASE Record(w)
  <2>1. OtherRows(w) /\ local'[w].idx = local[w].idx /\ local'[w].use = local[w].use
    BY <1>8, RecordTypes
  <2>2. local'[w].pc # "raise" /\ In(w, {"record", "reconcile", "unknown"})
    BY <1>8 DEF In, Busy, Answered, Planned, Acting, Record
  <2>3. local'[w].pc = "mark" /\ ledger'[row].status = "SUCCEEDED" /\ session.shown[Field(w)] = Wanted(w)
    BY <1>8, <2>2, RecordTypes
  <2>4. HasRow(w)' /\ In(w, Acting)'
    BY <2>3 DEF HasRow, In, At, Acting
  <2>5. QED
    BY <1>1, <1>2, <2>1, <2>3, <2>4, RowFine
<1>9. QED
  BY <1>5, <1>6, <1>7, <1>8

LEMMA FillFine ==
  ASSUME FormInv, NEW w \in Workers, Fill(w)
  PROVE  Fine(w)'
<1>1. FormTypes /\ Fine(w) /\ In(w, Acting) /\ In(w, Busy) /\ At(w, "fill")
  BY DEF FormInv, Attempts, Fine, Fill, At, In, Busy, Answered, Planned, Acting
<1>2. /\ UNCHANGED <<final, at, answers, approvals, ledger>> /\ session'.page = session.page
      /\ local'[w].pc \in {"record", "unknown"} /\ local'[w].idx = local[w].idx /\ local'[w].use = local[w].use
      /\ \A f \in Fields \ {Field(w)} : session'.shown[f] = session.shown[f]
  BY FillTypes DEF Fill
<1>3. Page' = Page /\ Field(w)' = Field(w) /\ Wanted(w)' = Wanted(w) /\ Row(w)' = Row(w)
      /\ PlanOf(session.page)' = PlanOf(session.page)
  BY <1>2 DEF Page, Field, Wanted, PlanOf, Row
<1>4. session.page = at /\ local[w].idx \in 1 .. Len(Page)
  BY <1>1, OwnField
<1>5. OnPage(w)' /\ HasRow(w)'
  BY <1>1, <1>2, <1>3, <1>4 DEF Fine, OnPage, HasRow, In, At, Acting
<1>6. HasPlan(w)'
  <2>1. In(w, Planned) /\ In(w, Answered)
    BY <1>1 DEF In, Answered, Planned
  <2>2. /\ \A i \in 1 .. Len(Page) : answers[Page[i]].value \in Values
        /\ local[w].use \in 1 .. Len(approvals)
        /\ approvals[local[w].use].plan = PlanOf(session.page)
    BY <1>1, <2>1 DEF Fine, HasPlan
  <2>3. QED
    BY <1>2, <1>3, <2>2 DEF HasPlan, In, At
<1>7. ASSUME NEW i \in 1 .. local[w].idx - 1
      PROVE  ShownDone(Page[i])'
  <2>1. i \in 1 .. Len(Page) /\ Page[i] \in Fields /\ ShownDone(Page[i])
    BY <1>1, <1>4, PageTypes DEF Fine, HasDone
  <2>2. PICK f \in Fields : f = Page[i]
    BY <2>1
  \* The row of this field has not succeeded yet.
  <2>3. f # Field(w)
    BY <1>1, <2>1, <2>2 DEF Fine, HasRow, ShownDone, Row, Wanted, In, At
  <2>4. QED
    BY <1>2, <1>3, <2>1, <2>2, <2>3 DEF ShownDone
<1>8. HasDone(w)'
  BY <1>2, <1>3, <1>7 DEF HasDone, In, At
<1>9. QED
  BY <1>5, <1>6, <1>8 DEF Fine

LEMMA MarkFine ==
  ASSUME FormInv, NEW w \in Workers, MarkStarted(w)
  PROVE  Fine(w)'
<1>1. FormTypes /\ Fine(w) /\ In(w, Acting) /\ In(w, Busy) /\ At(w, "mark")
  BY DEF FormInv, Attempts, Fine, MarkStarted, At, In, Busy, Answered, Planned, Acting
<1>2. /\ UNCHANGED <<final, session, approvals, ledger, at, answers>>
      /\ local'[w].pc = "validate" /\ local'[w].idx = local[w].idx /\ local'[w].use = local[w].use
  BY MarkTypes DEF MarkStarted, browserVars
<1>3. Page' = Page /\ Field(w)' = Field(w) /\ Wanted(w)' = Wanted(w) /\ Row(w)' = Row(w)
      /\ PlanOf(session.page)' = PlanOf(session.page) /\ \A f : ShownDone(f)' = ShownDone(f)
  BY <1>2 DEF Page, Field, Wanted, PlanOf, Row, ShownDone
<1>4. OnPage(w)' /\ HasRow(w)'
  BY <1>1, <1>2, <1>3 DEF Fine, OnPage, HasRow, In, At, Acting, Busy, Answered, Planned
<1>5. HasPlan(w)'
  <2>1. In(w, Planned) /\ In(w, Answered)
    BY <1>1 DEF In, Answered, Planned
  <2>2. QED
    BY <1>1, <1>2, <1>3, <2>1 DEF Fine, HasPlan, In, At
<1>6. HasDone(w)'
  <2>1. \A i \in 1 .. local[w].idx - 1 : ShownDone(Page[i])
    BY <1>1 DEF Fine, HasDone
  <2>2. session.shown[Field(w)] = Wanted(w) /\ Row(w).status = "SUCCEEDED"
    BY <1>1 DEF Fine, HasDone, In, At
  <2>3. QED
    BY <1>2, <1>3, <2>1, <2>2 DEF HasDone, In, At
<1>7. QED
  BY <1>4, <1>5, <1>6 DEF Fine

LEMMA ValidateFine ==
  ASSUME FormInv, NEW w \in Workers, Validate(w)
  PROVE  Fine(w)'
<1>1. FormTypes /\ Fine(w) /\ In(w, Acting) /\ In(w, Busy) /\ At(w, "validate")
  BY DEF FormInv, Attempts, Fine, Validate, At, In, Busy, Answered, Planned, Acting
<1>2. /\ UNCHANGED <<final, session, approvals, ledger, at>>
      /\ local'[w].pc = "checkpoint" /\ local'[w].idx = local[w].idx /\ local'[w].use = local[w].use
      /\ \A f \in Fields : answers'[f].value = answers[f].value
      /\ answers'[Field(w)].status = "VALIDATED"
      /\ \A f \in Fields \ {Field(w)} : answers'[f] = answers[f]
  BY ValidateTypes DEF Validate, browserVars
<1>3. /\ session.page = at /\ local[w].idx \in 1 .. Len(Page) /\ Field(w) \in Fields
      /\ Wanted(w) \in Values
  BY <1>1, OwnField
<1>4. Page' = Page /\ Field(w)' = Field(w) /\ PlanOf(session.page)' = PlanOf(session.page)
  <2>1. Page' = Page /\ Range(Page) \subseteq Fields
    BY <1>1, <1>2, PageTypes DEF Page
  <2>2. QED
    BY <1>2, <2>1 DEF PlanOf, Page, Field
<1>5. ASSUME NEW i \in 1 .. local[w].idx
      PROVE  ShownDone(Page[i])'
  <2>1. i \in 1 .. Len(Page) /\ Page[i] \in Fields
    BY <1>1, <1>3, PageTypes
  <2>2. PICK f \in Fields : f = Page[i]
    BY <2>1
  <2>3. CASE f = Field(w)
    <3>1. session.shown[f] = answers[f].value /\ answers[f].value \in Values
          /\ ledger[<<f, answers[f].value>>].status = "SUCCEEDED"
      BY <1>1, <1>3, <2>3 DEF Fine, HasDone, Row, Wanted, In, At
    <3>2. answers'[f].value = answers[f].value /\ answers'[f].status = "VALIDATED"
      BY <1>2, <2>3
    <3>3. QED
      BY <1>2, <1>4, <2>2, <3>1, <3>2, FormAssumption DEF ShownDone
  <2>4. CASE f # Field(w)
    <3>1. i \in 1 .. local[w].idx - 1
      BY <1>3, <2>2, <2>4 DEF Field
    <3>2. ShownDone(f)
      BY <1>1, <2>2, <3>1 DEF Fine, HasDone
    <3>3. QED
      BY <1>2, <1>4, <2>2, <2>4, <3>2 DEF ShownDone
  <2>5. QED
    BY <2>3, <2>4
<1>6. /\ \A i \in 1 .. Len(Page) : answers'[Page[i]].value \in Values
      /\ local[w].use \in 1 .. Len(approvals) /\ approvals[local[w].use].plan = PlanOf(session.page)
  BY <1>1, <1>2, OwnField, PageTypes DEF Fine, HasPlan, In, Answered, Planned
<1>7. OnPage(w)' /\ HasRow(w)'
  BY <1>2, <1>3, <1>4 DEF OnPage, HasRow, In, At, Acting
<1>8. HasPlan(w)'
  BY <1>2, <1>4, <1>6 DEF HasPlan, In, At
<1>9. HasDone(w)'
  <2>1. local'[w].idx \in 1 .. Len(Page) /\ local[w].idx \in Nat
    BY <1>2, <1>3
  <2>2. ShownDone(Field(w))'
    <3>1. PICK i \in 1 .. local[w].idx : i = local[w].idx
      BY <1>3
    <3>2. ShownDone(Page[i])' /\ Field(w)' = Page[i]'
      BY <1>2, <1>5, <3>1 DEF Field
    <3>3. QED
      BY <3>2 DEF ShownDone
  <2>3. \A i \in 1 .. local'[w].idx - 1 : ShownDone(Page[i])'
    BY <1>2, <1>5, <2>1
  <2>4. QED
    BY <1>2, <1>4, <2>2, <2>3 DEF HasDone, In, At
<1>10. QED
  BY <1>7, <1>8, <1>9 DEF Fine

LEMMA CheckpointFine ==
  ASSUME FormInv, NEW w \in Workers, Checkpoint(w)
  PROVE  Fine(w)'
<1>1. FormTypes /\ Fine(w) /\ In(w, Acting) /\ In(w, Busy) /\ At(w, "checkpoint")
  BY DEF FormInv, Attempts, Fine, Checkpoint, At, In, Busy, Answered, Planned, Acting
<1>2. /\ UNCHANGED <<final, session, approvals, ledger, answers>> /\ at' = session.page
      /\ local'[w].use = local[w].use
  BY CheckpointTypes DEF Checkpoint, browserVars
<1>3. session.page = at /\ local[w].idx \in 1 .. Len(Page)
  BY <1>1, OwnField
<1>4. /\ Page' = Page /\ PlanOf(session.page)' = PlanOf(session.page)
      /\ \A f : ShownDone(f)' = ShownDone(f)
  BY <1>2 DEF PlanOf, Page, ShownDone
<1>5. ASSUME NEW i \in 1 .. local[w].idx
      PROVE  ShownDone(Page[i])
  <2>1. CASE i = local[w].idx
    BY <1>1, <2>1 DEF Fine, HasDone, Field
  <2>2. CASE i \in 1 .. local[w].idx - 1
    BY <1>1, <2>2 DEF Fine, HasDone
  <2>3. QED
    BY <1>3, <2>1, <2>2
<1>6. /\ \A i \in 1 .. Len(Page) : answers[Page[i]].value \in Values
      /\ local[w].use \in 1 .. Len(approvals) /\ approvals[local[w].use].plan = PlanOf(session.page)
  BY <1>1, OwnField DEF Fine, HasPlan, In, Answered, Planned
<1>7. CASE local[w].idx # Len(Page) /\ local'[w].pc = "plan" /\ local'[w].idx = local[w].idx + 1
  <2>1. OnPage(w)' /\ HasRow(w)'
    BY <1>2, <1>3, <1>4, <1>7 DEF OnPage, HasRow, In, At, Acting
  <2>2. HasPlan(w)'
    BY <1>2, <1>4, <1>6, <1>7 DEF HasPlan, In, At
  <2>3. \A i \in 1 .. local'[w].idx - 1 : ShownDone(Page[i])
    BY <1>3, <1>5, <1>7
  <2>4. HasDone(w)'
    BY <1>4, <1>7, <2>3 DEF HasDone, In, At
  <2>5. QED
    BY <2>1, <2>2, <2>4 DEF Fine
<1>8. CASE /\ local[w].idx = Len(Page)
           /\ local'[w].pc = IF session.page = final THEN "finish" ELSE "advance"
  <2>1. OnPage(w)' /\ HasRow(w)' /\ HasPlan(w)'
    BY <1>2, <1>8 DEF OnPage, HasRow, HasPlan, In, At, Acting, Answered, Planned
  <2>2. \A i \in 1 .. Len(Page) : ShownDone(Page[i])
    BY <1>5, <1>8
  <2>3. HasDone(w)'
    BY <1>4, <1>8, <2>2 DEF HasDone, In, At, Acting
  <2>4. QED
    BY <2>1, <2>3 DEF Fine
<1>9. QED
  BY <1>7, <1>8, CheckpointTypes

LEMMA AdvanceFine ==
  ASSUME FormInv, NEW w \in Workers, Advance(w)
  PROVE  Fine(w)'
<1>1. FormTypes /\ Fine(w) /\ In(w, Busy \ {"turn"}) /\ At(w, "advance")
  BY DEF FormInv, Attempts, Fine, Advance, At, In, Busy
<1>2. session.page = at /\ UNCHANGED <<at, final>>
  BY <1>1 DEF Fine, OnPage, Advance
<1>3. CASE local'[w].pc = "turn" /\ session'.page = session.page + 1
  BY <1>2, <1>3 DEF Fine, OnPage, HasPlan, HasRow, HasDone, In, At, Busy, Answered, Planned, Acting
<1>4. CASE local'[w].pc = "wait" /\ local'[w].ask = "NO_SAFE_ADVANCE" /\ UNCHANGED session
  BY <1>2, <1>4 DEF Fine, OnPage, HasPlan, HasRow, HasDone, In, At, Busy, Answered, Planned, Acting
<1>5. QED
  BY <1>3, <1>4, AdvanceTypes

LEMMA AttemptsStep ==
  ASSUME FormInv, [FormNext]_formVars
  PROVE  Attempts'
<1>0. FormTypes /\ ApprovalsKeep
  BY KeepApprovals DEF FormInv
<1>1. ASSUME NEW w \in Workers, Work(w)
      PROVE  Attempts'
  <2>1. Moved(w) /\ In(w, Holding)
    BY <1>1, WorkMoves DEF In, Holding
  <2>2. In(w, Busy)' => Fine(w)'
    BY <1>1, ReadFine, ResolveFine, ApproveFine, ApprovedFine, ActionFine, FillFine, MarkFine,
       ValidateFine, CheckpointFine, AdvanceFine DEF Work
  <2>3. QED
    BY <2>1, <2>2, OneAttempt
<1>2. ASSUME NEW w \in Workers, Suspend(w)
      PROVE  Attempts'
  <2>1. Moved(w) /\ In(w, Holding) /\ ~In(w, Busy)'
    BY <1>2, SuspendTypes DEF Suspend, In, At, Holding, Busy, Answered, Planned, Acting
  <2>2. QED
    BY <2>1, OneAttempt
<1>3. ASSUME NEW w \in Workers, Ends(w)
      PROVE  Attempts'
  <2>1. Moved(w) /\ local'[w].pc = "idle"
    BY <1>3, Ended1
  <2>2. ASSUME NEW v \in Workers, In(v, Busy)'
        PROVE  /\ In(v, Busy) /\ local'[v] = local[v]
               /\ UNCHANGED <<session, answers, at, final, ledger>>
    <3>1. v # w
      BY <2>1, <2>2 DEF In, Busy, Answered, Planned, Acting
    <3>2. local'[v] = local[v] /\ In(v, Busy)
      BY <2>1, <2>2, <3>1 DEF In, Moved, Others
    <3>3. UNCHANGED session
      BY <1>3, <2>2, Ended1 DEF In, Holding
    <3>4. UNCHANGED <<answers, at, final, ledger>>
      BY <1>3
         DEF Ends, Finish, Tell, LoginExpired, FormLeaseLost, FailForm, AttemptFails, CrashForm,
             StopForm
    <3>5. QED
      BY <3>2, <3>3, <3>4
  <2>3. QED
    BY <1>0, <2>2, KeptAttempts
<1>4. ASSUME NEW w \in Workers, ClaimForm(w) \/ TakeReply(w) \/ ForgetReply(w)
      PROVE  Attempts'
  <2>1. /\ Moved(w) /\ local'[w].pc \in {"reply", "forget", "open", "raise"}
        /\ UNCHANGED <<session, at, final, ledger>>
    BY <1>0, <1>4, ClaimTypes, ReplyTypes, ForgetTypes
       DEF ClaimForm, TakeReply, ForgetReply, browserVars
  <2>2. ASSUME NEW v \in Workers, In(v, Busy)'
        PROVE  In(v, Busy) /\ local'[v] = local[v] /\ UNCHANGED answers
    <3>1. v # w
      BY <2>1, <2>2 DEF In, Busy, Answered, Planned, Acting
    <3>2. local'[v] = local[v] /\ In(v, Busy)
      BY <2>1, <2>2, <3>1 DEF In, Moved, Others
    \* A reply that would change an answer means that nobody is in the browser.
    <3>3. ~AskedField
      BY <3>2 DEF FormInv, NoReply
    <3>4. UNCHANGED answers
      BY <1>0, <1>4, <3>3, ReplyTypes DEF ClaimForm, ForgetReply
    <3>5. QED
      BY <3>2, <3>4
  <2>3. QED
    BY <1>0, <2>1, <2>2, KeptAttempts
<1>5. ASSUME NEW w \in Workers, OpenSession(w)
      PROVE  Attempts'
  <2>1. Moved(w) /\ UNCHANGED <<at, final, ledger, answers>>
    BY <1>0, <1>5, OpenTypes DEF OpenSession
  <2>2. CASE local'[w].pc = "raise" /\ UNCHANGED session
    <3>1. ASSUME NEW v \in Workers, In(v, Busy)'
          PROVE  In(v, Busy) /\ local'[v] = local[v]
      <4>1. v # w
        BY <2>2, <3>1 DEF In, Busy, Answered, Planned, Acting
      <4>2. QED
        BY <2>1, <3>1, <4>1 DEF In, Moved, Others
    <3>2. QED
      BY <1>0, <2>1, <2>2, <3>1, KeptAttempts
  <2>3. CASE session.holder = Null /\ session'.page = at /\ local'[w].pc = "inspect"
    <3>1. ASSUME NEW v \in Workers, In(v, Busy)'
          PROVE  v = w
      <4>1. v # w => In(v, Holding)
        BY <2>1, <3>1 DEF In, Moved, Others, Holding
      <4>2. QED
        BY <2>3, <4>1, NobodyAssumption DEF FormInv, Lock
    <3>2. Fine(w)'
      BY <2>1, <2>3
         DEF Fine, OnPage, HasPlan, HasRow, HasDone, In, At, Busy, Answered, Planned, Acting
    <3>3. QED
      BY <3>1, <3>2 DEF Attempts, Fine
  <2>4. QED
    BY <1>0, <1>5, <2>2, <2>3, OpenTypes
<1>6. CASE RecoverActions
  <2>1. UNCHANGED <<local, session, at, final, answers, approvals>>
    BY <1>6 DEF RecoverActions, browserVars
  <2>2. ASSUME NEW w \in Workers, In(w, Busy)'
        PROVE  Fine(w)'
    <3>1. In(w, Busy) /\ Fine(w)
      BY <2>1, <2>2 DEF In, FormInv, Attempts, Fine
    <3>2. OnPage(w)' /\ HasPlan(w)'
      BY <2>1, <3>1 DEF Fine, OnPage, HasPlan, In, At, Page, PlanOf
    <3>3. Page' = Page /\ Field(w)' = Field(w) /\ Wanted(w)' = Wanted(w)
          /\ Row(w)' = ledger'[<<Field(w), Wanted(w)>>]
      BY <2>1 DEF Page, Field, Wanted, Row
    <3>4. HasRow(w)' /\ (In(w, {"mark", "validate"})' => Row(w)'.status = "SUCCEEDED")
      <4>1. CASE In(w, Acting)
        <5>1. /\ Row(w)'.approval = Row(w).approval
              /\ Row(w)'.status = IF Row(w).status = "EXECUTING" THEN "UNKNOWN_RESULT"
                                  ELSE Row(w).status
          BY <1>0, <1>6, <3>3, <4>1, OwnField, RecoverActionsTypes DEF Row
        <5>2. QED
          BY <2>1, <3>1, <5>1 DEF Fine, HasRow, HasDone, In, At
      <4>2. CASE ~In(w, Acting)
        BY <2>1, <4>2 DEF HasRow, In, At, Acting
      <4>3. QED
        BY <4>1, <4>2
    <3>5. ASSUME NEW f \in Fields, ShownDone(f), answers[f].value \in Maybe
          PROVE  ShownDone(f)'
      <4>1. <<f, answers[f].value>> \in Pairs
        BY <3>5 DEF ShownDone, Pairs, Maybe
      <4>2. QED
        BY <1>0, <1>6, <2>1, <3>5, <4>1, RecoverActionsTypes DEF ShownDone
    <3>6. \A i \in 1 .. Len(Page) : Page[i] \in Fields /\ answers[Page[i]].value \in Maybe
      BY <1>0, PageTypes DEF FormTypes, Answers
    <3>7. HasDone(w)'
      <4>1. (In(w, Acting) => local[w].idx \in 1 .. Len(Page)) /\ Len(Page) \in Nat
        BY <1>0, OwnField, PageTypes
      <4>2. \A i \in 1 .. Len(Page) : ShownDone(Page[i]) => ShownDone(Page[i])'
        BY <2>1, <3>3, <3>5, <3>6
      <4>3. In(w, Acting) => \A i \in 1 .. local[w].idx - 1 : ShownDone(Page[i])'
        BY <3>1, <4>1, <4>2 DEF Fine, HasDone
      <4>4. In(w, {"advance", "finish"}) => \A i \in 1 .. Len(Page) : ShownDone(Page[i])'
        BY <3>1, <4>2 DEF Fine, HasDone
      <4>5. In(w, {"mark", "validate"})' => session'.shown[Field(w)'] = Wanted(w)'
        BY <2>1, <3>1, <3>3 DEF Fine, HasDone, In
      <4>6. At(w, "checkpoint")' => ShownDone(Field(w))'
        <5>1. At(w, "checkpoint") => In(w, Acting) /\ ShownDone(Field(w))
          BY <3>1 DEF Fine, HasDone, In, At, Acting
        <5>2. SUFFICES ASSUME At(w, "checkpoint") PROVE ShownDone(Field(w))'
          BY <2>1 DEF At
        <5>3. PICK i \in 1 .. Len(Page) : i = local[w].idx
          BY <4>1, <5>1, <5>2
        <5>4. ShownDone(Page[i])' /\ Field(w)' = Page[i]'
          BY <2>1, <4>2, <5>1, <5>2, <5>3 DEF Field
        <5>5. QED
          BY <5>4 DEF ShownDone
      <4>7. QED
        BY <2>1, <3>3, <3>4, <4>3, <4>4, <4>5, <4>6 DEF HasDone, In, At
    <3>8. QED
      BY <3>2, <3>4, <3>7 DEF Fine
  <2>3. QED
    BY <2>2 DEF Attempts, Fine
<1>7. CASE Outside \/ UNCHANGED formVars
  <2>1. UNCHANGED <<local, session, answers, at, final, ledger>>
    BY <1>0, <1>7, OutsideTypes DEF formVars, browserVars
  <2>2. QED
    BY <1>0, <2>1, KeptAttempts DEF In
<1>8. QED
  BY <1>1, <1>2, <1>3, <1>4, <1>5, <1>6, <1>7, Steppings

-----------------------------------------------------------------------------
(* What is filed *)

Succeeded(f, v) == ledger[<<f, v>>].status = "SUCCEEDED"

LEMMA StaysFiled ==
  ASSUME FormTypes, NEW f \in Fields, FiledDone(f), filed'[f] = filed[f], answers'[f] = answers[f],
         \A v \in Values : Succeeded(f, v) => Succeeded(f, v)'
  PROVE  FiledDone(f)'
<1>1. filed[f] \in Values
  BY DEF FormTypes, FieldValues, Maybe, FiledDone
<1>2. PICK v \in Values : v = filed[f]
  BY <1>1
<1>3. Succeeded(f, v)'
  BY <1>2 DEF FiledDone, Succeeded
<1>4. QED
  BY <1>2, <1>3 DEF FiledDone, Succeeded

\* The fields of other pages are left alone.
LEMMA EarlierKept ==
  ASSUME FormInv, UNCHANGED at,
         \A f \in Fields : f \notin Range(Pages[at]) /\ FiledDone(f) => FiledDone(f)',
         \A w \in Workers : At(w, "turn")' => /\ At(w, "turn")
                                              /\ \A f \in Fields : FiledDone(f) => FiledDone(f)'
  PROVE  Earlier'
<1>1. FormTypes /\ Earlier
  BY DEF FormInv
<1>2. at \in 1 .. final /\ at \in 1 .. Len(Pages) /\ final \in 1 .. Len(Pages) /\ Len(Pages) \in Nat
  BY <1>1, PageTypes, PagesAssumption DEF FormTypes
<1>3. \A p \in 1 .. Len(Pages) : Range(Pages[p]) \subseteq Fields
  BY PageOf
<1>4. Before(at)'
  <2> SUFFICES ASSUME NEW p \in 1 .. at - 1, NEW f \in Range(Pages[p]) PROVE FiledDone(f)'
    BY DEF Before
  <2>1. p \in 1 .. Len(Pages) /\ p # at
    BY <1>2
  <2>2. f \in Fields /\ f \notin Range(Pages[at])
    BY <1>2, <1>3, <2>1, Apart
  <2>3. QED
    BY <1>1, <2>2 DEF Earlier, Before
<1>5. ASSUME NEW w \in Workers, At(w, "turn")'
      PROVE  Before(at + 1)'
  <2>1. session.page = at + 1
    BY <1>5 DEF FormInv, Attempts, OnPage, In, At, Busy
  <2>2. at + 1 \in 1 .. Len(Pages)
    BY <1>1, <2>1, PageTypes
  <2>3. Before(at + 1)
    BY <1>1, <1>5 DEF Earlier
  <2>4. QED
    BY <1>2, <1>3, <1>5, <2>2, <2>3 DEF Before
<1>6. QED
  BY <1>4, <1>5 DEF Earlier

LEMMA AllKept ==
  ASSUME FormInv, UNCHANGED <<at, filed, answers>>,
         \A p \in Pairs : ledger[p].status = "SUCCEEDED" => ledger'[p].status = "SUCCEEDED"
  PROVE  \A f \in Fields : FiledDone(f) => FiledDone(f)'
<1>1. FormTypes
  BY DEF FormInv
<1>2. \A f \in Fields, v \in Values : Succeeded(f, v) => Succeeded(f, v)'
  BY DEF Succeeded, Pairs
<1>3. QED
  BY <1>1, <1>2, StaysFiled

\* A step in the browser only touches the answers and rows of its page.
LEMMA WorkTouches ==
  ASSUME FormInv, NEW w \in Workers, Work(w), ~Advance(w), ~Turn(w)
  PROVE  /\ UNCHANGED <<at, filed>> /\ local'[w].pc # "turn"
         /\ \A f \in Fields \ Range(Pages[at]) :
              answers'[f] = answers[f] /\ \A v \in Values : Succeeded(f, v) => Succeeded(f, v)'
<1>0. FormTypes
  BY DEF FormInv
<1>1. UNCHANGED filed
  BY Zenon DEF Work, Inspect, Resolve, ApprovePlan, RememberApproval, Revalidate, PlanAction, Start,
     Restore, Fill, Record, MarkStarted, Validate, Checkpoint, Wait, browserVars
<1>2. CASE Inspect(w) \/ Wait(w) \/ ApprovePlan(w) \/ RememberApproval(w) \/ Revalidate(w) \/ Fill(w)
  <2>1. UNCHANGED <<answers, ledger>>
    BY <1>2 DEF Inspect, Wait, ApprovePlan, RememberApproval, Revalidate, Fill
  <2>2. UNCHANGED at
    <3>1. CASE Inspect(w)
      <4>1. In(w, Busy \ {"turn"})
        BY <3>1 DEF Inspect, In, At, Busy
      <4>2. QED
        BY <3>1, <4>1 DEF FormInv, Attempts, OnPage, In, Inspect
    <3>2. QED
      BY <1>2, <3>1 DEF Wait, ApprovePlan, RememberApproval, Revalidate, Fill
  <2>3. local'[w].pc # "turn"
    BY <1>0, <1>2, InspectMoves, WaitTypes, ApproveMoves, RememberMoves, RevalidateMoves, FillTypes
  <2>4. QED
    BY <1>1, <2>1, <2>2, <2>3 DEF Succeeded
<1>3. CASE Resolve(w)
  <2>1. UNCHANGED <<at, ledger>> /\ At(w, "resolve")
    BY <1>3 DEF Resolve
  <2>2. Field(w) \in Range(Pages[at]) /\ Field(w) \in Fields /\ Resolved(Field(w)) \in Maybe
    BY <2>1, ResolveField DEF Page
  <2>3. local'[w].pc # "turn"
    BY <1>0, <1>3, ResolveMoves
  <2>4. \A f \in Fields \ {Field(w)} : answers'[f] = answers[f]
    <3>1. CASE UNCHANGED answers
      BY <3>1
    <3>2. ASSUME NEW kind \in {"NEEDS_USER", "FILLED"},
                 answers' = Upserted(Field(w), Resolved(Field(w)), kind)
          PROVE  \A f \in Fields \ {Field(w)} : answers'[f] = answers[f]
      BY <1>0, <2>2, <3>2, Upserting
    <3>3. QED
      BY <1>0, <1>3, <3>1, <3>2, ResolveMoves
  <2>5. QED
    BY <1>1, <2>1, <2>2, <2>3, <2>4 DEF Succeeded
<1>4. ASSUME In(w, Acting), UNCHANGED at, OtherRows(w) \/ UNCHANGED ledger,
             \A f \in Fields \ {Field(w)} : answers'[f] = answers[f], local'[w].pc # "turn"
      PROVE  /\ UNCHANGED <<at, filed>> /\ local'[w].pc # "turn"
             /\ \A f \in Fields \ Range(Pages[at]) :
                  answers'[f] = answers[f] /\ \A v \in Values : Succeeded(f, v) => Succeeded(f, v)'
  <2>1. Field(w) \in Range(Pages[at])
    BY <1>4, OwnField DEF Page
  <2>2. QED
    BY <1>1, <1>4, <2>1 DEF Succeeded, OtherRows, Pairs
<1>5. CASE PlanAction(w) \/ Start(w) \/ Restore(w) \/ Record(w)
  <2>1. In(w, Acting) /\ UNCHANGED <<at, answers>>
    BY <1>5 DEF PlanAction, Start, Restore, Record, In, At, Acting
  <2>2. OtherRows(w) /\ local'[w].pc # "turn"
    BY <1>5, PlanActionTypes, StartTypes, RestoreTypes, RecordTypes
  <2>3. QED
    BY <1>4, <2>1, <2>2
<1>6. CASE MarkStarted(w) \/ Validate(w) \/ Checkpoint(w)
  <2>1. In(w, Acting) /\ (UNCHANGED at \/ at' = session.page) /\ UNCHANGED ledger
    BY <1>6 DEF MarkStarted, Validate, Checkpoint, In, At, Acting
  <2>2. UNCHANGED at
    BY <2>1, OwnField
  <2>3. local'[w].pc # "turn" /\ \A f \in Fields \ {Field(w)} : answers'[f] = answers[f]
    BY <1>6, MarkTypes, ValidateTypes, CheckpointTypes
  <2>4. QED
    BY <1>4, <2>1, <2>2, <2>3
<1>7. QED
  BY <1>2, <1>3, <1>5, <1>6 DEF Work

\* What a page shows when it is left stays with the portal.
LEMMA PageFiled ==
  ASSUME FormInv, NEW w \in Workers, At(w, "advance"), filed' = Kept,
         UNCHANGED <<answers, ledger>>
  PROVE  /\ session.page = at
         /\ \A f \in Range(Pages[at]) : FiledDone(f)'
         /\ \A f \in Fields \ Range(Pages[at]) : FiledDone(f) => FiledDone(f)'
<1>1. FormTypes /\ In(w, Busy \ {"turn"})
  BY DEF FormInv, In, At, Busy
<1>2. session.page = at /\ \A i \in 1 .. Len(Page) : ShownDone(Page[i])
  BY <1>1 DEF FormInv, Attempts, OnPage, HasDone, In, At
<1>3. \A f \in Fields : filed'[f] = IF f \in Range(Pages[at]) THEN session.shown[f] ELSE filed[f]
  BY <1>1, <1>2, Keeping DEF Page
<1>4. ASSUME NEW f \in Range(Pages[at])
      PROVE  FiledDone(f)'
  <2>1. PICK i \in 1 .. Len(Page) : f = Page[i]
    BY <1>1, <1>2, PageTypes DEF Page
  <2>2. f \in Fields /\ ShownDone(f)
    BY <1>1, <1>2, <2>1, PageTypes
  <2>3. filed'[f] = answers[f].value /\ answers[f] \in Answers
    BY <1>1, <1>3, <2>2 DEF ShownDone, FormTypes
  <2>4. answers[f] = [value |-> answers[f].value, status |-> "VALIDATED"]
    BY <2>2, <2>3 DEF Answers, ShownDone
  <2>5. QED
    BY <2>2, <2>3, <2>4 DEF FiledDone, ShownDone
<1>5. QED
  BY <1>1, <1>2, <1>3, <1>4, StaysFiled DEF Succeeded

LEMMA EarlierStep ==
  ASSUME FormInv, [FormNext]_formVars
  PROVE  Earlier'
<1>0. FormTypes /\ FormTypes' /\ Earlier /\ Attempts'
  BY FormTypesStep, AttemptsStep DEF FormInv
<1>1. \A p \in 1 .. Len(Pages) : Range(Pages[p]) \subseteq Fields
  BY PageOf
<1>2. ASSUME NEW w \in Workers, Moved(w), In(w, Holding) PROVE \A v \in Workers : At(v, "turn")' => v = w
  <2> SUFFICES ASSUME NEW v \in Workers, At(v, "turn")', v # w PROVE FALSE
    OBVIOUS
  <2>1. In(v, Holding)
    BY <1>2 DEF Moved, Others, At, In, Holding, Busy
  <2>2. QED
    BY <1>2, <2>1, Alone
<1>3. ASSUME NEW w \in Workers, Work(w), ~Advance(w), ~Turn(w)
      PROVE  Earlier'
  <2>1. Moved(w) /\ In(w, Holding)
    BY <1>3, WorkMoves DEF In, Holding
  <2>2. UNCHANGED <<at, filed>> /\ \A v \in Workers : ~At(v, "turn")'
    BY <1>2, <1>3, <2>1, WorkTouches DEF At
  <2>3. \A f \in Fields : f \notin Range(Pages[at]) /\ FiledDone(f) => FiledDone(f)'
    BY <1>0, <1>3, WorkTouches, StaysFiled
  <2>4. QED
    BY <2>2, <2>3, EarlierKept
<1>4. ASSUME NEW w \in Workers, Advance(w)
      PROVE  Earlier'
  <2>1. Moved(w) /\ In(w, Holding) /\ At(w, "advance") /\ UNCHANGED <<at, answers, ledger>>
    BY <1>4, AdvanceTypes DEF Advance, At, In, Holding, Busy
  <2>2. CASE local'[w].pc = "turn" /\ filed' = Kept
    <3>1. \A f \in Range(Pages[at]) : FiledDone(f)'
      BY <2>1, <2>2, PageFiled
    <3>2. \A f \in Fields \ Range(Pages[at]) : FiledDone(f) => FiledDone(f)'
      BY <2>1, <2>2, PageFiled
    <3>3. at \in Nat /\ at \in 1 .. Len(Pages) /\ Len(Pages) \in Nat
      BY <1>0, PageTypes, PagesAssumption
    <3>4. \A p \in 1 .. at - 1 : \A f \in Range(Pages[p]) : FiledDone(f)'
      <4> SUFFICES ASSUME NEW p \in 1 .. at - 1, NEW f \in Range(Pages[p]) PROVE FiledDone(f)'
        OBVIOUS
      <4>1. p \in 1 .. Len(Pages) /\ p # at /\ FiledDone(f)
        BY <1>0, <3>3 DEF Earlier, Before
      <4>2. f \in Fields \ Range(Pages[at])
        BY <1>1, <3>3, <4>1, Apart
      <4>3. QED
        BY <3>2, <4>1, <4>2
    <3>5. Before(at)' /\ Before(at + 1)'
      <4>1. \A p \in 1 .. at : p = at \/ p \in 1 .. at - 1
        BY <3>3
      <4>2. QED
        BY <2>1, <3>1, <3>3, <3>4, <4>1 DEF Before
    <3>6. QED
      BY <3>5 DEF Earlier
  <2>3. CASE local'[w].pc = "wait" /\ UNCHANGED filed
    <3>1. \A v \in Workers : ~At(v, "turn")'
      BY <1>2, <2>1, <2>3 DEF At
    <3>2. QED
      BY <2>1, <2>3, <3>1, AllKept, EarlierKept
  <2>4. QED
    BY <1>4, <2>2, <2>3, AdvanceTypes
<1>5. ASSUME NEW w \in Workers, Turn(w)
      PROVE  Earlier'
  <2>1. Moved(w) /\ In(w, Holding) /\ In(w, Busy) /\ At(w, "turn") /\ local'[w].pc \in {"inspect", "raise"}
        /\ at' = session.page /\ UNCHANGED <<answers, ledger, filed>>
    BY <1>5, TurnTypes DEF Turn, browserVars, At, In, Holding, Busy
  <2>2. at' = at + 1 /\ Before(at + 1)
    BY <1>0, <2>1 DEF FormInv, Attempts, OnPage, Earlier
  <2>3. \A f : FiledDone(f)' = FiledDone(f)
    BY <2>1 DEF FiledDone
  <2>4. Before(at)'
    BY <2>2, <2>3 DEF Before
  <2>5. \A v \in Workers : ~At(v, "turn")'
    BY <1>2, <2>1 DEF At
  <2>6. QED
    BY <2>4, <2>5 DEF Earlier
\* The other steps send nobody to the next page.
<1>6. ASSUME NEW w \in Workers, Moved(w), local'[w].pc # "turn", UNCHANGED <<at, filed, answers, ledger>>
      PROVE  Earlier'
  <2>1. \A v \in Workers : At(v, "turn")' => At(v, "turn")
    BY <1>6 DEF Moved, Others, At
  <2>2. QED
    BY <1>6, <2>1, AllKept, EarlierKept
<1>7. ASSUME NEW w \in Workers, Ends(w)
      PROVE  Earlier'
  <2>1. Moved(w) /\ local'[w].pc = "idle"
    BY <1>7, Ended1
  <2>2. UNCHANGED <<at, filed, answers, ledger>>
    BY <1>7
       DEF Ends, Finish, Tell, LoginExpired, FormLeaseLost, FailForm, AttemptFails, CrashForm,
           StopForm
  <2>3. QED
    BY <1>6, <2>1, <2>2
<1>8. ASSUME NEW w \in Workers, ClaimForm(w) \/ ForgetReply(w) \/ OpenSession(w) \/ Suspend(w)
      PROVE  Earlier'
  <2>1. Moved(w) /\ local'[w].pc # "turn"
    BY <1>0, <1>8, ClaimTypes, ForgetTypes, OpenTypes, SuspendTypes
  <2>2. UNCHANGED <<at, filed, answers, ledger>>
    BY <1>8 DEF ClaimForm, ForgetReply, OpenSession, Suspend, browserVars
  <2>3. QED
    BY <1>6, <2>1, <2>2
<1>9. ASSUME NEW w \in Workers, TakeReply(w)
       PROVE  Earlier'
  <2>1. Moved(w) /\ local'[w].pc # "turn" /\ UNCHANGED <<at, filed, ledger>>
    BY <1>0, <1>9, ReplyTypes DEF TakeReply, browserVars
  <2>2. CASE UNCHANGED answers
    BY <1>6, <2>1, <2>2
  <2>3. CASE /\ AskedField /\ memory.field \in Range(Pages[at])
             /\ \A g \in Fields \ {memory.field} : answers'[g] = answers[g]
    <3>1. \A v \in Workers : ~At(v, "turn")'
      <4>1. \A v \in Workers : ~At(v, "turn")
        BY <2>3 DEF FormInv, NoReply, In, At, Busy
      <4>2. QED
        BY <2>1, <4>1 DEF Moved, Others, At
    <3>2. \A f \in Fields : f \notin Range(Pages[at]) /\ FiledDone(f) => FiledDone(f)'
      BY <1>0, <2>1, <2>3, StaysFiled DEF Succeeded
    <3>3. QED
      BY <2>1, <3>1, <3>2, EarlierKept
  <2>4. QED
    BY <1>0, <1>9, <2>2, <2>3, ReplyTypes
<1>10. CASE RecoverActions
  <2>1. UNCHANGED <<at, filed, answers, local>>
    BY <1>10 DEF RecoverActions, browserVars
  <2>2. \A p \in Pairs : ledger[p].status = "SUCCEEDED" => ledger'[p].status = "SUCCEEDED"
    BY <1>0, <1>10, RecoverActionsTypes
  <2>3. QED
    BY <2>1, <2>2, AllKept, EarlierKept DEF At
<1>11. CASE Outside \/ UNCHANGED formVars
  <2>1. UNCHANGED <<at, filed, answers, ledger, local>>
    BY <1>0, <1>11, OutsideTypes DEF formVars, browserVars
  <2>2. QED
    BY <2>1, AllKept, EarlierKept DEF At
<1>12. QED
  BY <1>3, <1>4, <1>5, <1>7, <1>8, <1>9, <1>10, <1>11, Steppings

\* Only Finish makes a form ready, ...
LEMMA BecomesReady ==
  ASSUME FormInv, [FormNext]_formVars, app' = "READY_TO_REVIEW"
  PROVE  app = "READY_TO_REVIEW" \/ \E w \in Workers : Finish(w)
<1>1. ASSUME NEW w \in Workers, Work(w)
      PROVE  app = "READY_TO_REVIEW"
  <2>1. UNCHANGED app \/ app' \in {"FORM_IN_PROGRESS", "WAITING_USER_INPUT"}
    BY <1>1
       DEF Work, Inspect, Resolve, ApprovePlan, RememberApproval, Revalidate, PlanAction, Start,
       Restore, Fill, Record, MarkStarted, Validate, Checkpoint, Advance, Turn, Wait
  <2>2. QED
    BY <2>1
<1>2. ASSUME NEW w \in Workers, Ends(w), ~Finish(w)
      PROVE  app = "READY_TO_REVIEW"
  BY <1>2 DEF Ends, Tell, LoginExpired, FormLeaseLost, FailForm, AttemptFails, CrashForm, StopForm
<1>3. ASSUME NEW w \in Workers,
             Suspend(w) \/ ClaimForm(w) \/ TakeReply(w) \/ ForgetReply(w) \/ OpenSession(w)
      PROVE  app = "READY_TO_REVIEW"
  BY <1>3 DEF Suspend, ClaimForm, TakeReply, ForgetReply, OpenSession
<1>4. CASE RecoverActions \/ Outside \/ UNCHANGED formVars
  BY <1>4, OutsideTypes DEF FormInv, RecoverActions, formVars
<1>5. QED
  BY <1>1, <1>2, <1>3, <1>4, Steppings

\* ... and whatever goes on afterwards leaves it so: no attempt is claimed, and
\* those that are left over have lost the lease.
LEMMA ReadyStep ==
  ASSUME FormInv, [FormNext]_formVars
  PROVE  Ready'
<1> SUFFICES ASSUME app' = "READY_TO_REVIEW"
             PROVE  Reviewable'
  BY DEF Ready
<1>0. FormTypes
  BY DEF FormInv
<1>1. final \in 1 .. Len(Pages) /\ Len(Pages) \in Nat
  BY <1>0, PageTypes, PagesAssumption
<1>2. \A p \in 1 .. Len(Pages) : Range(Pages[p]) \subseteq Fields
  BY PageOf
<1>3. ASSUME NEW w \in Workers, Finish(w)
      PROVE  Reviewable'
  <2>1. /\ At(w, "finish") /\ In(w, Busy) /\ In(w, Holding)
        /\ UNCHANGED <<answers, ledger, filed, final>>
    BY <1>3 DEF Finish, At, In, Busy, Holding
  <2>2. /\ session.page = at /\ at = final
        /\ \A i \in 1 .. Len(Page) : ShownDone(Page[i])
    BY <2>1 DEF FormInv, Attempts, OnPage, HasDone, In, At, Busy
  <2>3. Before(final)' /\ \A f \in Range(Pages[final]) : Seen(f)'
    <3>1. Before(final) /\ Page = Pages[final]
      BY <2>2 DEF FormInv, Earlier, Page
    <3>2. \A f \in Range(Pages[final]) : Seen(f)
      BY <1>0, <2>2, <3>1, PageTypes DEF ShownDone, Seen
    <3>3. QED
      BY <2>1, <3>1, <3>2 DEF Before, FiledDone, Seen
  <2>4. ASSUME NEW v \in Workers, In(v, Holding)'
        PROVE  FALSE
    <3>1. In(v, Holding) /\ v # w
      BY <1>3, <2>4, Ended1 DEF Ends
    <3>2. QED
      BY <2>1, <3>1, Alone
  <2>5. task'[Form].status = "SUCCEEDED"
    BY <1>3, FinishTypes
  <2>6. QED
    BY <2>1, <2>3, <2>4, <2>5 DEF Reviewable
<1>4. CASE app = "READY_TO_REVIEW" /\ ~\E w \in Workers : Finish(w)
  <2>1. Reviewable
    BY <1>4 DEF FormInv, Ready
  <2>2. ASSUME task'[Form].status = "SUCCEEDED", UNCHANGED <<final, filed, answers>>,
               \A p \in Pairs : ledger[p].status = "SUCCEEDED" => ledger'[p].status = "SUCCEEDED",
               \A w \in Workers : local'[w].pc = local[w].pc \/ local'[w].pc = "idle"
        PROVE  Reviewable'
    <3>1. \A w \in Workers : ~In(w, Holding)'
      BY <2>1, <2>2 DEF Reviewable, In, Holding, Busy, Answered, Planned, Acting
    <3>2. \A f \in Fields, v \in Values : Succeeded(f, v) => Succeeded(f, v)'
      BY <2>2 DEF Succeeded, Pairs
    <3>3. ASSUME NEW p \in 1 .. final - 1, NEW f \in Range(Pages[p])
          PROVE  FiledDone(f)'
      <4>1. f \in Fields /\ FiledDone(f)
        BY <1>1, <1>2, <2>1 DEF Reviewable, Before
      <4>2. QED
        BY <1>0, <2>2, <3>2, <4>1, StaysFiled
    <3>4. ASSUME NEW f \in Range(Pages[final])
          PROVE  Seen(f)'
      <4>1. f \in Fields /\ Seen(f) /\ answers[f] \in Answers
        BY <1>0, <1>1, <1>2, <2>1 DEF Reviewable, FormTypes
      <4>2. PICK v \in Values : v = answers[f].value
        BY <4>1 DEF Seen, Answers, Maybe
      <4>3. Succeeded(f, v)'
        BY <3>2, <4>1, <4>2 DEF Seen, Succeeded
      <4>4. QED
        BY <2>2, <4>1, <4>2, <4>3 DEF Seen, Succeeded
    <3>5. QED
      BY <2>2, <3>1, <3>3, <3>4 DEF Reviewable, Before
  <2>3. ASSUME NEW w \in Workers, Work(w) \/ Suspend(w) \/ Tell(w)
        PROVE  FALSE
    BY <2>1, <2>3, WorkMoves DEF Reviewable, Suspend, Tell, At, In, Holding, Busy
  <2>4. ASSUME NEW w \in Workers, \/ ClaimForm(w) \/ TakeReply(w) \/ ForgetReply(w) \/ OpenSession(w)
                                  \/ LoginExpired(w) \/ FailForm(w) \/ AttemptFails(w) \/ StopForm(w)
        PROVE  FALSE
    BY <2>1, <2>4
       DEF Reviewable, ClaimForm, TakeReply, ForgetReply, OpenSession, LoginExpired, FailForm,
                      AttemptFails, StopForm, Fence
  <2>5. ASSUME NEW w \in Workers, FormLeaseLost(w) \/ CrashForm(w)
        PROVE  Reviewable'
    <3>1. UNCHANGED <<task, final, filed, answers, ledger>>
      BY <2>5 DEF FormLeaseLost, CrashForm
    <3>2. Moved(w) /\ local'[w].pc = "idle"
      BY <2>5, Ended1 DEF Ends
    <3>3. QED
      BY <2>1, <2>2, <3>1, <3>2 DEF Reviewable, Moved, Others
  <2>6. CASE Outside \/ RecoverActions \/ UNCHANGED formVars
    <3>1. UNCHANGED <<final, filed, answers, local>> /\ task'[Form].status = "SUCCEEDED"
      BY <1>0, <2>1, <2>6, OutsideTypes DEF Reviewable, RecoverActions, formVars, browserVars
    <3>2. \A p \in Pairs : ledger[p].status = "SUCCEEDED" => ledger'[p].status = "SUCCEEDED"
      BY <1>0, <2>6, OutsideTypes, RecoverActionsTypes DEF formVars
    <3>3. QED
      BY <2>2, <3>1, <3>2
  <2>7. QED
    BY <1>4, <2>3, <2>4, <2>5, <2>6, Steppings DEF Ends
<1>5. QED
  BY <1>3, <1>4, BecomesReady

-----------------------------------------------------------------------------
(* The invariant, and what follows from it *)

LEMMA FormInvInit == FormInit => FormInv
<1> SUFFICES ASSUME FormInit PROVE FormInv
  OBVIOUS
<1>1. FormTypes
  BY FormTypesInit
<1>2. \A w \in Workers : local[w].pc = "idle"
  BY DEF FormInit, Idle
<1>3. Lock /\ Attempts
  BY <1>2 DEF Lock, Attempts, In, Holding, Busy, Answered, Planned, Acting
<1>4. NoReply
  BY <1>2 DEF NoReply, AskedField, In, At, Busy, Answered, Planned, Acting, FormInit
<1>5. BegunConsumed
  BY DEF BegunConsumed, Begun, FormInit, NoAction
<1>6. FillsApproved
  BY DEF FillsApproved, FormInit, Closed, Blank
<1>7. Earlier
  <2>1. at = 1
    BY DEF FormInit
  <2>2. QED
    BY <1>2, <2>1 DEF Earlier, Before, At
<1>8. Ready
  BY DEF Ready, FormInit
<1>9. QED
  BY <1>1, <1>3, <1>4, <1>5, <1>6, <1>7, <1>8 DEF FormInv

\* The invariant holds in every state that can be reached: the domain lock and
\* the single reply keep each attempt's view of its page true, although its
\* steps in the browser are not fenced.
THEOREM FormInvariance == FormSpec => []FormInv
<1>1. FormInit => FormInv
  BY FormInvInit
<1>2. FormInv /\ [FormNext]_formVars => FormInv'
  <2> SUFFICES ASSUME FormInv, [FormNext]_formVars PROVE FormInv'
    OBVIOUS
  <2>1. FormTypes' /\ Lock' /\ NoReply' /\ Attempts'
    BY FormTypesStep, LockStep, NoReplyStep, AttemptsStep
  <2>2. BegunConsumed' /\ FillsApproved' /\ Earlier' /\ Ready'
    BY BegunConsumedStep, FillsApprovedStep, EarlierStep, ReadyStep
  <2>3. QED
    BY <2>1, <2>2 DEF FormInv
<1>3. QED
  BY <1>1, <1>2, PTL DEF FormSpec

\* Nothing is filled into a form, by whichever attempt, but a value that a
\* consumed approval covers for that field.
THEOREM OnlyApprovedFilled == FormSpec => []FillsApproved
<1>1. FormInv => FillsApproved
  BY DEF FormInv
<1>2. QED
  BY <1>1, FormInvariance, PTL

\* What the review of a ready form shows is what the portal holds of every page
\* that was advanced, and what was filled and seen on each page up to the final
\* control.
THEOREM ReviewIsTrue == FormSpec => []ReviewShowsForm
<1>1. FormInv => ReviewShowsForm
  <2> SUFFICES ASSUME FormInv, app = "READY_TO_REVIEW", NEW p \in 1 .. final, NEW f \in Range(Pages[p])
               PROVE  Seen(f) /\ (p < final => filed[f] = answers[f].value)
    BY DEF ReviewShowsForm, Seen
  <2>1. Reviewable /\ final \in Nat
    BY PageTypes, PagesAssumption DEF FormInv, Ready
  <2>2. CASE p < final
    <3>1. FiledDone(f)
      BY <2>1, <2>2 DEF Reviewable, Before
    <3>2. QED
      BY <3>1 DEF FiledDone, Seen
  <2>3. CASE p = final
    BY <2>1, <2>3 DEF Reviewable
  <2>4. QED
    BY <2>1, <2>2, <2>3
<1>2. QED
  BY <1>1, FormInvariance, PTL

\* An approval keeps the plan it was asked for, and what an action has used up
\* is not approved again.
THEOREM ApprovalsStand == FormSpec => [][ApprovalsKeep]_formVars
<1>1. FormInv /\ [FormNext]_formVars => [ApprovalsKeep]_formVars
  BY KeepApprovals
<1>2. QED
  BY <1>1, FormInvariance, PTL DEF FormSpec

-----------------------------------------------------------------------------
(* What the form worker asks of the queue *)

LEMMA FormRowMoves ==
  ASSUME FormTypes, NEW row, task' = [task EXCEPT ![Form] = row], task'[Form] = row => RowStep(Form)
  PROVE  \A t \in Tasks : RowStep(t)
BY OneForm DEF FormTypes

LEMMA OwnedRow ==
  ASSUME FormTypes, NEW w \in Workers, Fence(Form, w), NEW row,
         row \in {Ended(task[Form], "SUCCEEDED"), Ended(task[Form], "WAITING_HUMAN"), Released(task[Form]),
                  Retried(task[Form], Form, FALSE), Retried(task[Form], Form, TRUE)},
         task' = [task EXCEPT ![Form] = row]
  PROVE  \A t \in Tasks : RowStep(t)
<1>1. task[Form].status = "ACTIVE"
  BY DEF Fence
<1>2. task'[Form] = row => EndRow(Form)
  BY <1>1 DEF EndRow
<1>3. QED
  BY <1>2, FormRowMoves DEF RowStep

LEMMA WokenRow ==
  ASSUME FormTypes, task[Form].status \in {"WAITING_HUMAN", "WAITING_RETRY"},
         task' = [task EXCEPT ![Form].status = "READY"]
  PROVE  \A t \in Tasks : RowStep(t)
<1>1. task' = [task EXCEPT ![Form] = [task[Form] EXCEPT !.status = "READY"]]
  OBVIOUS
<1>2. QED
  BY <1>1, FormRowMoves DEF RowStep, WakeRow

LEMMA FormRowSteps ==
  ASSUME FormInv, [FormNext]_formVars
  PROVE  \A t \in Tasks : RowStep(t)
<1>0. FormTypes
  BY DEF FormInv
<1>1. CASE UNCHANGED task
  BY <1>1 DEF RowStep
<1>2. ASSUME NEW w \in Workers, Work(w) PROVE UNCHANGED task
  BY <1>2, WorkMoves
<1>3. ASSUME NEW w \in Workers,
             TakeReply(w) \/ ForgetReply(w) \/ OpenSession(w) \/ Tell(w) \/ FormLeaseLost(w) \/ CrashForm(w)
      PROVE  UNCHANGED task
  BY <1>3 DEF TakeReply, ForgetReply, OpenSession, Tell, FormLeaseLost, CrashForm
<1>4. ASSUME NEW w \in Workers, ClaimForm(w) PROVE \A t \in Tasks : RowStep(t)
  <2> DEFINE continues == memory.continuation
  <2>1. continues \in BOOLEAN
    BY <1>0 DEF FormTypes, Memories
  <2>2. /\ task[Form].status = "READY" /\ (continues \/ Claimable(Form))
        /\ task' = [task EXCEPT ![Form] = Granted(task[Form], w, continues)]
    BY <1>4 DEF ClaimForm
  <2> HIDE DEF continues
  <2>3. task'[Form] = Granted(task[Form], w, continues) => GrantRow(Form)
    BY <2>1, <2>2 DEF GrantRow
  <2>4. QED
    BY <1>0, <2>2, <2>3, FormRowMoves DEF RowStep
<1>5. ASSUME NEW w \in Workers,
             Finish(w) \/ Suspend(w) \/ LoginExpired(w) \/ StopForm(w) \/ FailForm(w) \/ AttemptFails(w)
      PROVE  \A t \in Tasks : RowStep(t)
  <2>1. Fence(Form, w)
    BY <1>5 DEF Finish, Suspend, LoginExpired, StopForm, FailForm, AttemptFails
  <2>2. PICK row \in {Ended(task[Form], "SUCCEEDED"), Ended(task[Form], "WAITING_HUMAN"),
                      Released(task[Form]), Retried(task[Form], Form, FALSE), Retried(task[Form], Form, TRUE)} :
          task' = [task EXCEPT ![Form] = row]
    BY <1>5 DEF Finish, Suspend, LoginExpired, StopForm, FailForm, AttemptFails
  <2>3. QED
    BY <1>0, <2>1, <2>2, OwnedRow
<1>6. CASE RecoverForm
  <2>1. CASE task[Form].status = "ACTIVE" /\ task' = [task EXCEPT ![Form] = Lapsed(task[Form], Form)]
    <3>1. task'[Form] = Lapsed(task[Form], Form) => EndRow(Form)
      BY <2>1 DEF EndRow
    <3>2. QED
      BY <1>0, <2>1, <3>1, FormRowMoves DEF RowStep
  <2>2. CASE task[Form].status = "WAITING_RETRY" /\ task' = [task EXCEPT ![Form].status = "READY"]
    BY <1>0, <2>2, WokenRow
  <2>3. QED
    BY <1>6, <2>1, <2>2 DEF RecoverForm, RecoverTask
<1>7. CASE AnswerField \/ OperatorResumes
  <2>1. task[Form].status = "WAITING_HUMAN" /\ task' = [task EXCEPT ![Form].status = "READY"]
    BY <1>7 DEF AnswerField, OperatorResumes, ResumedBy
  <2>2. QED
    BY <1>0, <2>1, WokenRow, Zenon
<1>8. CASE Decide
  BY <1>0, <1>1, <1>8, WokenRow DEF Decide, ResumedBy
<1>9. RecoverActions \/ Overdue \/ EditKnowledge \/ UNCHANGED formVars => UNCHANGED task
  BY Zenon DEF RecoverActions, Overdue, EditKnowledge, formVars
<1>10. QED
  BY <1>1, <1>2, <1>3, <1>4, <1>5, <1>6, <1>7, <1>8, <1>9, Steppings DEF Outside, Ends

\* Whatever workers, humans and recoveries do, the row of FORM_PROCESS moves only
\* as one of the transactions of QueueService moves it.
THEOREM FormTaskConforms == FormSpec => [][\A t \in Tasks : RowStep(t)]_formVars
<1>1. FormInv /\ [FormNext]_formVars => [\A t \in Tasks : RowStep(t)]_formVars
  BY FormRowSteps
<1>2. QED
  BY <1>1, FormInvariance, PTL DEF FormSpec
=============================================================================
