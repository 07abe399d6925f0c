---------------------------- MODULE ModelGateway ----------------------------
(***************************************************************************)
(* The model gateway: the loop of models/gateway.py over the tiers of a    *)
(* route, and the durable budget ledger of models/budgets.py.              *)
(*                                                                         *)
(* A caller is a task of a type with a budget.  A request is admitted under*)
(* its maximum estimate in a transaction of its own, sent, and settled with*)
(* the cost that the answer reports.  Money is counted in small units; an  *)
(* estimate is known per tier.  The provider is external: it bills what it *)
(* did, whether or not its answer arrives, and may bill more than the      *)
(* estimate.                                                               *)
(***************************************************************************)
EXTENDS Integers, Sequences, FiniteSets, FiniteSetsExt

CONSTANTS
  Callers,         \* tasks that call the gateway
  Application,     \* the application of a task, or None
  None,
  Maximum,         \* the estimate of a request to each tier of the route, cheapest first
  TaskLimit, AppLimit, DailyLimit, MonthlyLimit,
  MaxRequests, SchemaAttempts, TransportAttempts,   \* Policy
  MonthOf,         \* the month of each day
  MaxCalls,        \* bound: calls of structured
  MaxMishaps       \* bound: crashes and bills above an estimate

Tiers == DOMAIN Maximum
Days == DOMAIN MonthOf

ASSUME PricesAssumption == Maximum \in Seq(Nat \ {0}) /\ Maximum # <<>>
ASSUME CeilingsAssumption ==
  /\ TaskLimit \in [Callers -> Nat]
  /\ AppLimit \in Nat /\ DailyLimit \in Nat /\ MonthlyLimit \in Nat
ASSUME CalendarAssumption ==
  /\ MonthOf \in Seq(Nat) /\ MonthOf # <<>>
  /\ \A d, e \in Days : d <= e => MonthOf[d] <= MonthOf[e]
ASSUME PolicyAssumption == MaxRequests \in Nat /\ MaxRequests >= 1 /\ SchemaAttempts >= 2 /\ TransportAttempts >= 1
ASSUME ApplicationAssumption == DOMAIN Application = Callers

VARIABLES
  usage,    \* model_usage: the rows in the order of their reservation
  day,
  call,     \* per caller: its place in structured, with the loop's counters
  calls, mishaps

gatewayVars == <<usage, day, call, calls, mishaps>>

Verdicts == {"accepted", "quality", "invalid", "refused", "overrun"}
Resting == [pc |-> "rest", tier |-> 1, requests |-> 0, schemaErrors |-> 0, transportErrors |-> 0,
            row |-> 0, verdict |-> "none", cost |-> 0]

GatewayInit ==
  /\ usage = <<>>
  /\ day = 1
  /\ call = [c \in Callers |-> Resting]
  /\ calls = 0 /\ mishaps = 0

Estimate(c) == Maximum[call[c].tier]
Spent(Scope(_)) == MapThenSumSet(LAMBDA r : usage[r].amount, {r \in DOMAIN usage : Scope(usage[r])})
\* structured returns its result, or raises.
Returns(c) == call' = [call EXCEPT ![c] = Resting]

-----------------------------------------------------------------------------
(* Admission *)

SameApplication(row, c) == Application[c] # None /\ Application[row.caller] = Application[c]

\* Mutant: what is pending from an earlier period is forgotten.
AdmissibleForgetful(c) ==
  LET maximum == Estimate(c)
  IN  /\ Spent(LAMBDA row : row.caller = c) + maximum <= TaskLimit[c]
      /\ Application[c] # None => Spent(LAMBDA row : SameApplication(row, c)) + maximum <= AppLimit
      /\ Spent(LAMBDA row : row.day >= day /\ ~row.pending) + maximum <= DailyLimit
      /\ Spent(LAMBDA row : MonthOf[row.day] >= MonthOf[day] /\ ~row.pending) + maximum <= MonthlyLimit

\* reserve: the ceilings of the task, its application, the day and the month.
\* A row that is pending counts towards every day and month.
Admissible(c) ==
  LET maximum == Estimate(c)
  IN  /\ Spent(LAMBDA row : row.caller = c) + maximum <= TaskLimit[c]
      /\ Application[c] # None => Spent(LAMBDA row : SameApplication(row, c)) + maximum <= AppLimit
      /\ Spent(LAMBDA row : row.pending \/ row.day >= day) + maximum <= DailyLimit
      /\ Spent(LAMBDA row : row.pending \/ MonthOf[row.day] >= MonthOf[day]) + maximum <= MonthlyLimit

\* structured begins; the tiers below the caller's ceiling are Tiers.
Begin(c) ==
  /\ call[c].pc = "rest"
  /\ calls < MaxCalls /\ calls' = calls + 1
  /\ call' = [call EXCEPT ![c] = [Resting EXCEPT !.pc = "reserve"]]
  /\ UNCHANGED <<usage, day, mishaps>>

\* Mutant: a request that finds no budget waits for some.
ReserveWaiting(c) ==
  /\ call[c].pc = "reserve" /\ Admissible(c)
  /\ usage' = Append(usage, [caller |-> c, tier |-> call[c].tier, day |-> day,
                             amount |-> Estimate(c), pending |-> TRUE,
                             billed |-> 0, answered |-> FALSE])
  /\ call' = [call EXCEPT ![c].pc = "generate", ![c].row = Len(usage'), ![c].requests = @ + 1]
  /\ UNCHANGED <<day, calls, mishaps>>

\* One transaction: the request is admitted and its reservation stored.
Reserve(c) ==
  /\ call[c].pc = "reserve"
  /\ IF Admissible(c)
     THEN /\ usage' = Append(usage, [caller |-> c, tier |-> call[c].tier, day |-> day,
                                     amount |-> Estimate(c), pending |-> TRUE,
                                     billed |-> 0, answered |-> FALSE])
          /\ call' = [call EXCEPT ![c].pc = "generate", ![c].row = Len(usage'),
                                  ![c].requests = @ + 1]
     ELSE UNCHANGED usage /\ Returns(c)
  /\ UNCHANGED <<day, calls, mishaps>>

-----------------------------------------------------------------------------
(* The request and its settlement *)

Bill(c, amount) == usage' = [usage EXCEPT ![call[c].row].billed = amount]

\* The loop goes on with the same tier, unless its requests are used up.
NextRequest(c, counter) ==
  call' = [call EXCEPT ![c] = IF counter.requests < MaxRequests
                              THEN [counter EXCEPT !.pc = "reserve", !.verdict = "none", !.cost = 0]
                              ELSE Resting]

\* Mutant: exhausted transport attempts move on to the next tier.
TransportFailedEscalates(c) ==
  LET counter == [call[c] EXCEPT !.transportErrors = @ + 1]
  IN  IF counter.transportErrors >= TransportAttempts
      THEN IF counter.tier + 1 \in Tiers
           THEN NextRequest(c, [counter EXCEPT !.tier = @ + 1, !.schemaErrors = 0, !.transportErrors = 0])
           ELSE Returns(c)
      ELSE NextRequest(c, counter)

\* A retryable transport error, with attempts left at this tier, is retried.
TransportFailed(c) ==
  LET counter == [call[c] EXCEPT !.transportErrors = @ + 1]
  IN  IF counter.transportErrors >= TransportAttempts THEN Returns(c)
      ELSE NextRequest(c, counter)

\* generate answers with its usage: less than the estimate, or more.
Answered(c) ==
  /\ call[c].pc = "generate"
  /\ \E verdict \in Verdicts :
       LET cost == IF verdict = "overrun" THEN Estimate(c) + 1 ELSE Estimate(c) - 1
       IN  /\ Bill(c, cost)
           /\ call' = [call EXCEPT ![c].pc = "settle", ![c].verdict = verdict, ![c].cost = cost]
           /\ verdict = "overrun" => mishaps < MaxMishaps
           /\ mishaps' = IF verdict = "overrun" THEN mishaps + 1 ELSE mishaps
  /\ UNCHANGED <<day, calls>>

\* The provider refuses the request and certainly bills nothing: settled at
\* zero, then retried or given up.
Rejected(c) ==
  /\ call[c].pc = "generate"
  /\ \E retryable \in {"retry", "stop"} : call' = [call EXCEPT ![c].pc = "settle", ![c].verdict = retryable]
  /\ UNCHANGED <<usage, day, calls, mishaps>>

\* A timeout or a server error: nobody knows the bill, which is the estimate at
\* worst, so the reservation stays.  The same holds for an answer without usage
\* and for an unexpected exception.
Ambiguous(c) ==
  /\ call[c].pc = "generate"
  /\ Bill(c, Estimate(c))
  /\ TransportFailed(c) \/ Returns(c)
  /\ UNCHANGED <<day, calls, mishaps>>

Settled(c) ==
  usage' = [usage EXCEPT ![call[c].row].pending = FALSE, ![call[c].row].amount = call[c].cost,
                         ![call[c].row].answered = call[c].verdict \in Verdicts]

\* A tier that answers without an acceptable result hands over to the next.
Escalate(c) ==
  IF call[c].tier + 1 \in Tiers
  THEN NextRequest(c, [call[c] EXCEPT !.tier = @ + 1, !.schemaErrors = 0, !.transportErrors = 0])
  ELSE Returns(c)

\* An invalid answer is asked for again while the tier has schema attempts left.
Invalid(c) ==
  IF call[c].schemaErrors + 1 >= SchemaAttempts THEN Escalate(c)
  ELSE NextRequest(c, [call[c] EXCEPT !.schemaErrors = @ + 1])

\* settle, and what the loop makes of the answer.
Settle(c) ==
  /\ call[c].pc = "settle"
  /\ Settled(c)
  /\ CASE call[c].verdict = "quality" -> Escalate(c)
       [] call[c].verdict = "invalid" -> Invalid(c)
       [] call[c].verdict = "retry" -> TransportFailed(c)
       [] OTHER -> Returns(c)
  /\ UNCHANGED <<day, calls, mishaps>>

\* The process dies, or the call is cancelled: what was reserved stays, and the
\* provider may bill a request that is under way.
Abandon(c) ==
  /\ call[c].pc \in {"reserve", "generate", "settle"}
  /\ mishaps < MaxMishaps /\ mishaps' = mishaps + 1
  /\ IF call[c].pc = "generate" THEN Bill(c, Estimate(c))
     ELSE UNCHANGED usage
  /\ Returns(c)
  /\ UNCHANGED <<day, calls>>

NextDay ==
  /\ day + 1 \in Days /\ day' = day + 1
  /\ UNCHANGED <<usage, call, calls, mishaps>>

GatewayNext ==
  \/ \E c \in Callers :
       Begin(c) \/ Reserve(c) \/ Answered(c) \/ Rejected(c) \/ Ambiguous(c) \/ Settle(c) \/ Abandon(c)
  \/ NextDay

\* A call that is under way goes on: requests time out after thirty seconds.
GatewayFairness ==
  \A c \in Callers :
    WF_gatewayVars(Reserve(c) \/ Answered(c) \/ Rejected(c) \/ Ambiguous(c) \/ Settle(c))

GatewaySpec == GatewayInit /\ [][GatewayNext]_gatewayVars
FairGatewaySpec == GatewaySpec /\ GatewayFairness

-----------------------------------------------------------------------------
(* Properties *)

Billed(Scope(_)) ==
  MapThenSumSet(LAMBDA r : Min({usage[r].billed, Maximum[usage[r].tier]}), {r \in DOMAIN usage : Scope(usage[r])})

\* What the provider really bills stays within each ceiling, for every task,
\* application, day and month, through concurrent callers, unknown outcomes,
\* crashes before the settlement and reservations that outlive their day; only
\* a bill above its own estimate can exceed it, and by no more than that
\* (model-gateway.md: concurrent processes cannot spend the same balance).
SpendingWithinCeilings ==
  /\ \A c \in Callers :
       /\ Billed(LAMBDA row : row.caller = c) <= TaskLimit[c]
       /\ Application[c] # None => Billed(LAMBDA row : SameApplication(row, c)) <= AppLimit
  /\ \A d \in Days : Billed(LAMBDA row : row.day = d) <= DailyLimit
  /\ \A m \in {MonthOf[d] : d \in Days} : Billed(LAMBDA row : MonthOf[row.day] = m) <= MonthlyLimit

\* A dearer tier is asked only after every cheaper one has answered and was paid
\* for: errors of the transport never justify it (model-gateway.md).
EscalatesOnAnswers ==
  \A c \in Callers : \A k \in 1 .. call[c].tier - 1 :
    \E r \in DOMAIN usage :
      usage[r].caller = c /\ usage[r].tier = k /\ usage[r].answered /\ ~usage[r].pending

\* Every call ends, with a result or an error, however the provider behaves.
CallsEnd == \A c \in Callers : call[c].pc = "reserve" ~> call[c].pc = "rest"
=============================================================================
