------------------------------ MODULE Monitor ------------------------------
(***************************************************************************)
(* The application monitor: its scheduler (monitor/scheduler.py), the      *)
(* worker (monitor/worker.py), the use cases (monitor/service.py) and the  *)
(* event repository (monitor/repository.py).                               *)
(*                                                                         *)
(* An observation is a message of the mailbox or one content of an         *)
(* application's portal page; its source reference is what the table of    *)
(* events deduplicates.  The task of an application is the row of its last *)
(* bucket.  A bucket is as long as the interval between two checks, so an  *)
(* observation made in one bucket stays fresh until some time in the next. *)
(* A worker has no heartbeat and only its last transaction is fenced.      *)
(***************************************************************************)
EXTENDS LeasedTasks, Sequences, SequencesExt, FiniteSets

CONSTANTS
  Messages,      \* the mail that may arrive
  Pages,         \* the contents that a portal may show
  About,         \* per observation: the applications it matches
  Readings,      \* per observation: the classifications it may get
  MailLimit,     \* max_gmail_messages_per_run
  CheckLimit,    \* max_portal_checks_per_run
  Unchecked,     \* the statuses configured with no checks per day
  MaxFaults      \* bound: crashes, errors, attempts that outlive their lease

Apps == Tasks
Sources == Messages \cup Pages

ASSUME SourcesAssumption ==
  /\ Messages \cap Pages = {}
  /\ \A s \in Sources : About[s] \subseteq Apps /\ Readings[s] # {}
ASSUME LimitsAssumption == MailLimit \in Nat \ {0} /\ CheckLimit \in Nat \ {0}

VARIABLES
  status,    \* application_status, of pipeline and details alike
  rank,      \* the applications by priority and updated_at
  current,   \* applications with a task in their present bucket
  fresh,     \* age in buckets of last_status_checked_at: 2, then 1, 0 when it is due
  mailbox,   \* the mail that arrived, newest last
  portal,    \* per application: what its page shows
  events,    \* monitor_events
  told,      \* sources whose status change a human was notified of
  local,     \* per worker: its task, place and observations
  faults

worldVars == <<mailbox, portal>>
monitorVars == <<task, status, rank, current, fresh, worldVars, events, told, local, faults>>

Allowed ==
  [SUBMITTED |-> {"UNDER_REVIEW", "REJECTED"},
   UNDER_REVIEW |-> {"ASSESSMENT", "RECRUITER_SCREEN", "INTERVIEW", "REJECTED"},
   ASSESSMENT |-> {"INTERVIEW", "REJECTED"},
   RECRUITER_SCREEN |-> {"INTERVIEW", "REJECTED"},
   INTERVIEW |-> {"FINAL_INTERVIEW", "OFFER", "REJECTED"},
   FINAL_INTERVIEW |-> {"OFFER", "REJECTED"},
   OFFER |-> {"CLOSED"}, REJECTED |-> {"CLOSED"},
   WITHDRAWN |-> {"CLOSED"}, CANCELED |-> {"CLOSED"}, CLOSED |-> {}]
Destructive == {"REJECTED", "WITHDRAWN", "CANCELED"}
Terminal == Destructive \cup {"CLOSED"}

Idle == [pc |-> "idle", app |-> Null, found |-> {}, source |-> Null, reading |-> Null,
         news |-> {}]

At(w, step) == local[w].pc = step
Goto(w, step) == local' = [local EXCEPT ![w].pc = step]
Leave(w) == local' = [local EXCEPT ![w] = Idle]
App(w) == local[w].app
Known(s) == \E e \in events : e.source = s
Matches(a, m) == a \in About[m]
Classified(s) == Readings[s]
Newest(s, n) == Range(SubSeq(s, IF Len(s) > n THEN Len(s) - n + 1 ELSE 1, Len(s)))

MonitorInit ==
  /\ task = [a \in Apps |-> Absent]
  /\ status = [a \in Apps |-> "SUBMITTED"]
  /\ rank \in SetToSeqs(Apps)
  /\ current = {}
  /\ fresh = [a \in Apps |-> 0]
  /\ mailbox = <<>>
  /\ portal \in {shown \in [Apps -> Pages] : \A a \in Apps : a \in About[shown[a]]}
  /\ events = {} /\ told = {}
  /\ local = [w \in Workers |-> Idle]
  /\ faults = 0

-----------------------------------------------------------------------------
(* The scheduler *)

Pending(a) == task[a].status \in {"READY", "ACTIVE", "WAITING_HUMAN", "WAITING_RETRY"}
Checked(a) == status[a] \notin Terminal \cup Unchecked
Due(a) == Checked(a) /\ ~Pending(a) /\ fresh[a] = 0

\* Mutant: any earlier task of the application counts as this bucket's.
ScheduleOnce ==
  LET due == SelectSeq(rank, Due)
      chosen == Range(SubSeq(due, 1, IF Len(due) < CheckLimit THEN Len(due) ELSE CheckLimit))
  IN  /\ chosen # {}
      /\ task' = [a \in Apps |-> IF a \in chosen /\ task[a].status = "ABSENT" THEN Published("READY")
                                 ELSE task[a]]
      /\ current' = current \cup chosen
      /\ UNCHANGED <<status, rank, fresh, worldVars, events, told, local, faults>>

\* schedule_due, in one transaction.  An application that is due but whose task
\* of this bucket is over gets that task again, which uses up the limit.
Schedule ==
  LET due == SelectSeq(rank, Due)
      chosen == Range(SubSeq(due, 1, IF Len(due) < CheckLimit THEN Len(due) ELSE CheckLimit))
  IN  /\ chosen # {}
      /\ task' = [a \in Apps |-> IF a \in chosen \ current THEN Published("READY") ELSE task[a]]
      /\ current' = current \cup chosen
      /\ UNCHANGED <<status, rank, fresh, worldVars, events, told, local, faults>>

\* Time: the next bucket of an application begins, and in it the observation of
\* the one before comes of age.
NextBucket(a) ==
  /\ fresh[a] # 1
  /\ current' = current \ {a}
  /\ fresh' = [fresh EXCEPT ![a] = IF @ = 2 THEN 1 ELSE 0]
  /\ UNCHANGED <<task, status, rank, worldVars, events, told, local, faults>>

ComesOfAge(a) ==
  /\ fresh[a] = 1 /\ fresh' = [fresh EXCEPT ![a] = 0]
  /\ UNCHANGED <<task, status, rank, current, worldVars, events, told, local, faults>>

-----------------------------------------------------------------------------
(* An attempt *)

ClaimCheck(w, a) ==
  /\ At(w, "idle") /\ Claimable(a)
  /\ task' = [task EXCEPT ![a] = Granted(@, w, FALSE)]
  /\ local' = [local EXCEPT ![w] = [Idle EXCEPT !.app = a, !.pc = "search"]]
  /\ UNCHANGED <<status, rank, current, fresh, worldVars, events, told, faults>>

\* execute: a terminal application is not looked at; else the newest mail is,
\* as much of it as the limit and the window of 30 days let through.
Search(w) ==
  /\ At(w, "search")
  /\ IF status[App(w)] \in Terminal THEN Goto(w, "complete")
     ELSE \E n \in 0 .. MailLimit :
            local' = [local EXCEPT ![w].pc = "mail", ![w].found = Newest(mailbox, n)]
  /\ UNCHANGED <<task, status, rank, current, fresh, worldVars, events, told, faults>>

\* service.email up to the classification: a known message and one that does
\* not match are passed over.
ReadMessage(w) ==
  /\ At(w, "mail")
  /\ \E m \in local[w].found :
       IF Known(m) \/ ~Matches(App(w), m)
       THEN local' = [local EXCEPT ![w].found = @ \ {m}]
       ELSE \E reading \in Classified(m) :
              local' = [local EXCEPT ![w].found = @ \ {m}, ![w].pc = "record",
                                     ![w].source = m, ![w].reading = reading]
  /\ UNCHANGED <<task, status, rank, current, fresh, worldVars, events, told, faults>>

\* The mail may have made the application terminal: then its page is not read.
LookAgain(w) ==
  /\ At(w, "mail") /\ local[w].found = {}
  /\ Goto(w, IF status[App(w)] \in Terminal THEN "notify" ELSE "page")
  /\ UNCHANGED <<task, status, rank, current, fresh, worldVars, events, told, faults>>

\* service.portal up to the classification.
ReadPage(w) ==
  /\ At(w, "page")
  /\ LET p == portal[App(w)]
     IN  IF Known(p) THEN Goto(w, "notify")
         ELSE \E reading \in Classified(p) :
                local' = [local EXCEPT ![w].pc = "record", ![w].source = p, ![w].reading = reading]
  /\ UNCHANGED <<task, status, rank, current, fresh, worldVars, events, told, faults>>

Convincing(reading) ==
  reading.confidence \in IF reading.status \in Destructive THEN {"certain"} ELSE {"fair", "certain"}

\* Whether an observation changes the status of an application.
Changes(a, reading) ==
  /\ status[a] \notin Terminal
  /\ reading.status \in Allowed[status[a]]
  /\ Convincing(reading)

\* Mutant: the duplicate is looked for before the classification only.
RecordUnchecked(w) ==
  /\ At(w, "record")
  /\ LET a == App(w)
         s == local[w].source
         changed == Changes(a, local[w].reading)
     IN  /\ events' = events \cup {[source |-> s, app |-> a, previous |-> status[a],
                                    detected |-> local[w].reading.status, changed |-> changed]}
         /\ fresh' = [fresh EXCEPT ![a] = 2]
         /\ status' = IF changed THEN [status EXCEPT ![a] = local[w].reading.status] ELSE status
         /\ rank' = IF changed THEN Append(SelectSeq(rank, LAMBDA b : b # a), a) ELSE rank
         /\ local' = [local EXCEPT ![w].pc = IF s \in Messages THEN "mail" ELSE "notify",
                                   ![w].source = Null, ![w].reading = Null,
                                   ![w].news = IF changed THEN @ \cup {s} ELSE @]
  /\ UNCHANGED <<task, current, worldVars, told, faults>>

\* record, in a transaction that no lease guards.
Record(w) ==
  /\ At(w, "record")
  /\ LET a == App(w)
         s == local[w].source
         changed == ~Known(s) /\ Changes(a, local[w].reading)
     IN  /\ events' = IF Known(s) THEN events
                      ELSE events \cup {[source |-> s, app |-> a, previous |-> status[a],
                                         detected |-> local[w].reading.status, changed |-> changed]}
         /\ fresh' = IF Known(s) THEN fresh ELSE [fresh EXCEPT ![a] = 2]
         /\ status' = IF changed THEN [status EXCEPT ![a] = local[w].reading.status] ELSE status
         /\ rank' = IF changed THEN Append(SelectSeq(rank, LAMBDA b : b # a), a) ELSE rank
         /\ local' = [local EXCEPT ![w].pc = IF s \in Messages THEN "mail" ELSE "notify",
                                   ![w].source = Null, ![w].reading = Null,
                                   ![w].news = IF changed THEN @ \cup {s} ELSE @]
  /\ UNCHANGED <<task, current, worldVars, told, faults>>

\* The change of status is announced after everything has been recorded.
Notify(w) ==
  /\ At(w, "notify")
  /\ told' = told \cup local[w].news
  /\ local' = [local EXCEPT ![w].pc = "complete", ![w].news = {}]
  /\ UNCHANGED <<task, status, rank, current, fresh, worldVars, events, faults>>

CompleteCheck(w) ==
  /\ At(w, "complete") /\ Fence(App(w), w)
  /\ task' = [task EXCEPT ![App(w)] = Ended(@, "SUCCEEDED")]
  /\ Leave(w)
  /\ UNCHANGED <<status, rank, current, fresh, worldVars, events, told, faults>>

\* Mail, the portal, the model, the evidence file or the notice fails; without
\* the lease the failure is not recorded.
CheckFails(w) ==
  /\ local[w].pc \notin {"idle", "complete"}
  /\ faults < MaxFaults /\ faults' = faults + 1
  /\ \E retryable \in BOOLEAN :
       task' = IF Fence(App(w), w) THEN [task EXCEPT ![App(w)] = Retried(@, App(w), retryable)]
               ELSE task
  /\ Leave(w)
  /\ UNCHANGED <<status, rank, current, fresh, worldVars, events, told>>

CheckLeaseLost(w) ==
  /\ At(w, "complete") /\ ~Fence(App(w), w)
  /\ Leave(w)
  /\ UNCHANGED <<task, status, rank, current, fresh, worldVars, events, told, faults>>

CrashMonitor(w) ==
  /\ ~At(w, "idle")
  /\ faults < MaxFaults /\ faults' = faults + 1
  /\ Leave(w)
  /\ UNCHANGED <<task, status, rank, current, fresh, worldVars, events, told>>

\* Recovery finds a due retry, or the lease of an attempt that ended without it.
RecoverCheck(a) ==
  /\ RecoverTask(a)
  /\ \A w \in Workers : App(w) # a \/ ~Fence(a, w)
  /\ UNCHANGED <<status, rank, current, fresh, worldVars, events, told, local, faults>>

\* An attempt outlives its lease, and goes on.
Overrun(w) ==
  /\ ~At(w, "idle") /\ Fence(App(w), w)
  /\ faults < MaxFaults /\ faults' = faults + 1
  /\ RecoverTask(App(w))
  /\ UNCHANGED <<status, rank, current, fresh, worldVars, events, told, local>>

-----------------------------------------------------------------------------
(* The world, and the specification *)

MailArrives ==
  \E m \in Messages \ Range(mailbox) :
    /\ mailbox' = Append(mailbox, m)
    /\ UNCHANGED <<task, status, rank, current, fresh, portal, events, told, local, faults>>

\* The page shows something new; what it showed before would be a duplicate.
PageChanges ==
  \E a \in Apps, p \in Pages :
    /\ a \in About[p] /\ portal[a] # p /\ ~Known(p)
    /\ portal' = [portal EXCEPT ![a] = p]
    /\ UNCHANGED <<task, status, rank, current, fresh, mailbox, events, told, local, faults>>

Check(w) ==
  \/ Search(w) \/ ReadMessage(w) \/ LookAgain(w) \/ ReadPage(w) \/ Record(w) \/ Notify(w)
  \/ CompleteCheck(w) \/ CheckLeaseLost(w)

MonitorNext ==
  \/ Schedule
  \/ \E a \in Apps : NextBucket(a) \/ ComesOfAge(a) \/ RecoverCheck(a)
  \/ \E w \in Workers : Check(w) \/ CheckFails(w) \/ CrashMonitor(w) \/ Overrun(w)
                        \/ \E a \in Apps : ClaimCheck(w, a)
  \/ MailArrives \/ PageChanges

\* Time passes and the scheduler is run again and again; nothing is assumed of
\* the workers, which end when the queue is empty.
MonitorFairness ==
  /\ WF_monitorVars(Schedule)
  /\ \A a \in Apps : WF_monitorVars(NextBucket(a)) /\ WF_monitorVars(ComesOfAge(a))

MonitorSpec == MonitorInit /\ [][MonitorNext]_monitorVars
FairMonitorSpec == MonitorSpec /\ MonitorFairness

-----------------------------------------------------------------------------
(* Properties *)

\* The events explain the status: an observation is an event once, and those
\* that count form one path along allowed edges from SUBMITTED to the status of
\* their application, whatever attempts overlap (application-monitor.md: replays
\* do not duplicate an event or state transition).
EventsExplainStatus ==
  /\ \A e, f \in events : e.source = f.source => e = f
  /\ \A a \in Apps :
       LET counted == {e \in events : e.app = a /\ e.changed}
       IN  /\ \A e \in counted : e.detected \in Allowed[e.previous]
           /\ \A e, f \in counted : e.previous = f.previous => e = f
           /\ {e.previous : e \in counted} \cup {status[a]}
                = {"SUBMITTED"} \cup {e.detected : e \in counted}

\* The due applications of a better rank use up a run's limit.
Ahead(a, b) == \E i, j \in 1 .. Len(rank) : i < j /\ rank[i] = b /\ rank[j] = a
Crowded(a) == Cardinality({b \in Apps : Due(b) /\ Ahead(a, b)}) >= CheckLimit

\* An application whose status is checked has a task again and again, whatever
\* becomes of its tasks and although one of a bucket is made once: only others
\* that are due and come first can keep it waiting for ever.  (They do when their
\* checks find nothing new: due all the time, they take the limit for nothing.)
CheckedAgain == \A a \in Apps : []<>(Pending(a) \/ ~Checked(a) \/ Crowded(a))

\* application-monitor.md: a change of status is notified afterwards, once per
\* changed monitor task.
ChangesNotified ==
  \A e \in events : e.changed => e.source \in told \/ \E w \in Workers : e.source \in local[w].news
=============================================================================
