------------------------ MODULE MonitorGatewayProofs ------------------------
(***************************************************************************)
(* Proofs about Monitor and about ModelGateway, which the monitor asks     *)
(* when its rules cannot classify a mail.  The two share no state, and no  *)
(* proof of one uses the other.                                            *)
(*                                                                         *)
(* Monitor, for any applications, workers, mail and pages: the events      *)
(* explain the status of every application.  What the strengthening adds   *)
(* is that time does not run backwards: the transitions have no cycle, so  *)
(* a status that an application has left is never the present one, and     *)
(* each has one event at most that leaves it.  The proof needs no lease: a *)
(* transaction that looks for its source first is enough.                  *)
(*                                                                         *)
(* ModelGateway, for any callers, prices, ceilings and calendar: what is   *)
(* billed stays within every ceiling, and no dearer tier is asked before   *)
(* the cheaper ones have answered.  The invariant charges every row with   *)
(* what it may still cost: its estimate while it is pending, its bill once *)
(* it is settled.  That charge only falls, except at an admission, whose   *)
(* guard counts at least as much.                                          *)
(***************************************************************************)
EXTENDS Monitor, ModelGateway, FiniteSetTheorems, WellFoundedInduction, TLAPS

Stages == DOMAIN Allowed

\* An order of the stages that every transition follows.
Level ==
  [SUBMITTED |-> 0, UNDER_REVIEW |-> 1, ASSESSMENT |-> 2, RECRUITER_SCREEN |-> 2, INTERVIEW |-> 3,
   FINAL_INTERVIEW |-> 4, OFFER |-> 5, REJECTED |-> 6, WITHDRAWN |-> 6, CANCELED |-> 6, CLOSED |-> 7]

Places == {"idle", "search", "mail", "page", "record", "notify", "complete"}
AllReadings == UNION {Readings[s] : s \in Sources}
Locals == [pc : Places, app : Apps \cup {Null}, found : SUBSET Messages,
           source : Sources \cup {Null}, reading : AllReadings \cup {Null}, news : SUBSET Sources]

MonitorTypes ==
  /\ status \in [Apps -> Stages]
  /\ mailbox \in Seq(Messages)
  /\ portal \in [Apps -> Pages]
  /\ local \in [Workers -> Locals]
  /\ \A w \in Workers : ~At(w, "idle") => App(w) \in Apps
  /\ \A w \in Workers : At(w, "record") => local[w].source \in Sources /\ local[w].reading \in AllReadings

\* The transitions that counted left stages that come before the present one.
Past ==
  \A e \in events :
    /\ e.app \in Apps
    /\ e.changed => e.previous \in Stages /\ Level[e.previous] < Level[status[e.app]]

MonitorInv == MonitorTypes /\ EventsExplainStatus /\ Past

-----------------------------------------------------------------------------
(* The stages *)

LEMMA Ascending ==
  ASSUME NEW old \in Stages, NEW new \in Allowed[old]
  PROVE  new \in Stages /\ Level[old] \in Nat /\ Level[new] \in Nat /\ Level[old] < Level[new]
BY DEF Stages, Allowed, Level

LEMMA Levels ==
  ASSUME NEW stage \in Stages
  PROVE  Level[stage] \in Nat
BY DEF Stages, Allowed, Level

-----------------------------------------------------------------------------
(* Types *)

LEMMA MonitorTypesInit == MonitorInit => MonitorTypes
<1> SUFFICES ASSUME MonitorInit PROVE MonitorTypes
  OBVIOUS
<1>1. Idle \in Locals
  BY DEF Idle, Locals, Places
<1>2. "SUBMITTED" \in Stages
  BY DEF Stages, Allowed
<1>3. QED
  BY <1>1, <1>2 DEF MonitorInit, MonitorTypes, At, Idle

\* A worker takes a step in which it keeps to an application.
LEMMA Goes ==
  ASSUME MonitorTypes, NEW w \in Workers, NEW new \in Locals, local' = [local EXCEPT ![w] = new],
         new.pc = "idle" \/ new.app \in Apps,
         new.pc = "record" => new.source \in Sources /\ new.reading \in AllReadings,
         UNCHANGED worldVars, status' \in [Apps -> Stages]
  PROVE  MonitorTypes'
<1>1. \A v \in Workers : local'[v] = IF v = w THEN new ELSE local[v]
  BY DEF MonitorTypes
<1>2. QED
  BY <1>1 DEF MonitorTypes, At, App, worldVars

LEMMA NewestMail ==
  ASSUME MonitorTypes, NEW n \in 0 .. MailLimit
  PROVE  Newest(mailbox, n) \in SUBSET Messages
<1> DEFINE first == IF Len(mailbox) > n THEN Len(mailbox) - n + 1 ELSE 1
<1>1. mailbox \in Seq(Messages) /\ first \in 1 .. Len(mailbox) + 1
  BY LimitsAssumption DEF MonitorTypes
<1>2. SubSeq(mailbox, first, Len(mailbox)) \in Seq(Messages)
  BY <1>1
<1>3. \A mail \in Seq(Messages) : Range(mail) \in SUBSET Messages
  BY DEF Range
<1>4. Newest(mailbox, n) = Range(SubSeq(mailbox, first, Len(mailbox)))
  BY DEF Newest
<1>5. QED
  BY <1>2, <1>3, <1>4

LEMMA ReadsTypes ==
  ASSUME MonitorTypes, NEW w \in Workers, Search(w) \/ ReadMessage(w) \/ LookAgain(w) \/ ReadPage(w)
  PROVE  MonitorTypes'
<1>0. local[w] \in Locals /\ App(w) \in Apps /\ local \in [Workers -> Locals]
      /\ UNCHANGED <<worldVars, status>> /\ status' \in [Apps -> Stages]
  BY DEF MonitorTypes, Search, ReadMessage, LookAgain, ReadPage, At
<1>1. ASSUME NEW step \in Places \ {"record"}, Goto(w, step)
      PROVE  MonitorTypes'
  <2> DEFINE new == [local[w] EXCEPT !.pc = step]
  <2>1. new \in Locals /\ new.app = App(w) /\ new.pc = step
    BY <1>0 DEF Locals, App
  <2>2. local' = [local EXCEPT ![w] = new]
    BY <1>1 DEF Goto
  <2>3. QED
    BY <1>0, <2>1, <2>2, Goes
<1>2. CASE Search(w)
  <2>1. CASE Goto(w, "complete")
    BY <1>1, <2>1 DEF Places
  <2>2. ASSUME NEW n \in 0 .. MailLimit,
               local' = [local EXCEPT ![w].pc = "mail", ![w].found = Newest(mailbox, n)]
        PROVE  MonitorTypes'
    <3> DEFINE new == [local[w] EXCEPT !.pc = "mail", !.found = Newest(mailbox, n)]
    <3>1. new \in Locals /\ new.app = App(w) /\ new.pc = "mail"
      BY <1>0, NewestMail DEF Locals, App, Places
    <3>2. local' = [local EXCEPT ![w] = new]
      BY <1>0, <2>2
    <3>3. QED
      BY <1>0, <3>1, <3>2, Goes
  <2>3. \/ Goto(w, "complete")
        \/ \E n \in 0 .. MailLimit :
             local' = [local EXCEPT ![w].pc = "mail", ![w].found = Newest(mailbox, n)]
    BY <1>2 DEF Search
  <2>4. QED
    BY <2>1, <2>2, <2>3
<1>3. CASE ReadMessage(w)
  <2>1. PICK m \in local[w].found :
          \/ local' = [local EXCEPT ![w].found = @ \ {m}]
          \/ \E reading \in Readings[m] :
               local' = [local EXCEPT ![w].found = @ \ {m}, ![w].pc = "record",
                                      ![w].source = m, ![w].reading = reading]
    BY <1>3 DEF ReadMessage, Classified
  <2>2. m \in Sources /\ local[w].found \ {m} \in SUBSET Messages
    BY <1>0 DEF Locals, Sources
  <2>3. CASE local' = [local EXCEPT ![w].found = @ \ {m}]
    <3> DEFINE new == [local[w] EXCEPT !.found = @ \ {m}]
    <3>1. new \in Locals /\ new.app = App(w) /\ new.pc = "mail"
      BY <1>0, <1>3, <2>2 DEF Locals, App, ReadMessage, At
    <3>2. local' = [local EXCEPT ![w] = new]
      BY <1>0, <2>3
    <3>3. QED
      BY <1>0, <3>1, <3>2, Goes
  <2>4. ASSUME NEW reading \in Readings[m],
               local' = [local EXCEPT ![w].found = @ \ {m}, ![w].pc = "record",
                                      ![w].source = m, ![w].reading = reading]
        PROVE  MonitorTypes'
    <3> DEFINE new == [local[w] EXCEPT !.found = @ \ {m}, !.pc = "record", !.source = m,
                                       !.reading = reading]
    <3>1. reading \in AllReadings
      BY <2>2 DEF AllReadings
    <3>2. new \in Locals /\ new.app = App(w) /\ new.source = m /\ new.reading = reading
      BY <1>0, <2>2, <3>1 DEF Locals, App, Places
    <3>3. local' = [local EXCEPT ![w] = new]
      BY <1>0, <2>4
    <3>4. QED
      BY <1>0, <2>2, <3>1, <3>2, <3>3, Goes
  <2>5. QED
    BY <2>1, <2>3, <2>4
<1>4. CASE LookAgain(w)
  BY <1>1, <1>4 DEF LookAgain, Places
<1>5. CASE ReadPage(w)
  <2> DEFINE p == portal[App(w)]
  <2>1. CASE Goto(w, "notify")
    BY <1>1, <2>1 DEF Places
  <2>2. ASSUME NEW reading \in Readings[p],
               local' = [local EXCEPT ![w].pc = "record", ![w].source = p, ![w].reading = reading]
        PROVE  MonitorTypes'
    <3> DEFINE new == [local[w] EXCEPT !.pc = "record", !.source = p, !.reading = reading]
    <3>1. p \in Sources /\ reading \in AllReadings
      BY <1>0 DEF MonitorTypes, Sources, AllReadings
    <3>2. new \in Locals /\ new.app = App(w) /\ new.source = p /\ new.reading = reading
      BY <1>0, <3>1 DEF Locals, App, Places
    <3>3. local' = [local EXCEPT ![w] = new]
      BY <1>0, <2>2
    <3>4. QED
      BY <1>0, <3>1, <3>2, <3>3, Goes
  <2>3. QED
    BY <1>5, <2>1, <2>2 DEF ReadPage, Classified
<1>6. QED
  BY <1>2, <1>3, <1>4, <1>5

LEMMA RecordTypes ==
  ASSUME MonitorTypes, NEW w \in Workers, Record(w)
  PROVE  /\ MonitorTypes' /\ App(w) \in Apps /\ local[w].source \in Sources
<1> DEFINE s == local[w].source
           changed == ~Known(s) /\ Changes(App(w), local[w].reading)
           step == IF s \in Messages THEN "mail" ELSE "notify"
           news == IF changed THEN local[w].news \cup {s} ELSE local[w].news
           new == [local[w] EXCEPT !.pc = step, !.source = Null, !.reading = Null, !.news = news]
<1>1. local[w] \in Locals /\ App(w) \in Apps /\ s \in Sources /\ local \in [Workers -> Locals]
  BY DEF MonitorTypes, Record, At
<1>2. news \in SUBSET Sources /\ step \in Places \ {"record"}
  BY <1>1 DEF Locals, Places
<1>3. local' = [local EXCEPT ![w] = new]
  BY <1>1 DEF Record
<1> HIDE DEF changed, step, news
<1>4. new \in Locals /\ new.app = App(w) /\ new.pc = step
  BY <1>1, <1>2 DEF Locals, App
<1>5. status' \in [Apps -> Stages]
  <2>1. CASE status' = status
    BY <2>1 DEF MonitorTypes
  <2>2. CASE Changes(App(w), local[w].reading)
             /\ status' = [status EXCEPT ![App(w)] = local[w].reading.status]
    <3>1. status[App(w)] \in Stages /\ local[w].reading.status \in Allowed[status[App(w)]]
      BY <1>1, <2>2 DEF Changes, MonitorTypes
    <3>2. local[w].reading.status \in Stages
      BY <3>1, Ascending
    <3>3. QED
      BY <2>2, <3>2 DEF MonitorTypes
  <2>3. QED
    BY <2>1, <2>2 DEF Record
<1>6. UNCHANGED worldVars
  BY DEF Record
<1>7. QED
  BY <1>1, <1>2, <1>3, <1>4, <1>5, <1>6, Goes

LEMMA RestTypes ==
  ASSUME MonitorTypes,
         \/ Schedule \/ MailArrives \/ PageChanges
         \/ \E a \in Apps : NextBucket(a) \/ ComesOfAge(a) \/ RecoverCheck(a)
         \/ \E w \in Workers :
              \/ Notify(w) \/ CompleteCheck(w) \/ CheckLeaseLost(w) \/ CheckFails(w) \/ CrashMonitor(w)
              \/ Overrun(w) \/ \E a \in Apps : ClaimCheck(w, a)
  PROVE  MonitorTypes'
<1>1. CASE UNCHANGED <<local, worldVars, status>>
  BY <1>1 DEF MonitorTypes, At, App, worldVars
<1>2. CASE MailArrives
  BY <1>2 DEF MailArrives, MonitorTypes, At, App
<1>3. CASE PageChanges
  BY <1>3 DEF PageChanges, MonitorTypes, At, App
<1>4. ASSUME NEW w \in Workers, Leave(w), UNCHANGED <<worldVars, status>>
      PROVE  MonitorTypes'
  <2>1. Idle \in Locals /\ Idle.pc = "idle"
    BY DEF Idle, Locals, Places
  <2>2. QED
    BY <1>4, <2>1, Goes DEF Leave, MonitorTypes
<1>5. ASSUME NEW w \in Workers, Notify(w)
      PROVE  MonitorTypes'
  <2> DEFINE new == [local[w] EXCEPT !.pc = "complete", !.news = {}]
  <2>1. local[w] \in Locals /\ App(w) \in Apps
    BY <1>5 DEF Notify, At, MonitorTypes
  <2>2. new \in Locals /\ new.app = App(w) /\ new.pc = "complete"
    BY <2>1 DEF Locals, App, Places
  <2>3. local' = [local EXCEPT ![w] = new] /\ UNCHANGED <<worldVars, status>>
    BY <1>5 DEF Notify, MonitorTypes
  <2>4. QED
    BY <2>2, <2>1, <2>3, Goes DEF MonitorTypes
<1>6. ASSUME NEW w \in Workers, NEW a \in Apps, ClaimCheck(w, a)
      PROVE  MonitorTypes'
  <2> DEFINE new == [Idle EXCEPT !.app = a, !.pc = "search"]
  <2>1. new \in Locals /\ new.app = a /\ new.pc = "search"
    BY DEF Idle, Locals, Places
  <2>2. local' = [local EXCEPT ![w] = new] /\ UNCHANGED <<worldVars, status>>
    BY <1>6 DEF ClaimCheck
  <2>3. QED
    BY <2>1, <2>2, Goes DEF MonitorTypes
<1>7. ASSUME NEW w \in Workers,
             CompleteCheck(w) \/ CheckLeaseLost(w) \/ CheckFails(w) \/ CrashMonitor(w)
      PROVE  Leave(w) /\ UNCHANGED <<worldVars, status>>
  BY <1>7 DEF CompleteCheck, CheckLeaseLost, CheckFails, CrashMonitor
<1>8. CASE \/ Schedule \/ \E a \in Apps : NextBucket(a) \/ ComesOfAge(a) \/ RecoverCheck(a)
           \/ \E w \in Workers : Overrun(w)
  BY <1>1, <1>8 DEF Schedule, NextBucket, ComesOfAge, RecoverCheck, Overrun
<1>9. QED
  BY <1>2, <1>3, <1>4, <1>5, <1>6, <1>7, <1>8

-----------------------------------------------------------------------------
(* The events *)

\* Only the transaction that records an observation touches events and status.
LEMMA OnlyRecorded ==
  ASSUME [MonitorNext]_monitorVars, \A w \in Workers : ~Record(w)
  PROVE  UNCHANGED <<events, status>>
BY Zenon
   DEF MonitorNext, monitorVars, Check, Schedule, NextBucket, ComesOfAge, RecoverCheck, CheckFails,
   CrashMonitor, Overrun, ClaimCheck, MailArrives, PageChanges, Search, ReadMessage, LookAgain,
   ReadPage, Notify, CompleteCheck, CheckLeaseLost

Counted(a) == {e \in events : e.app = a /\ e.changed}
Path(a) ==
  /\ \A e \in Counted(a) : e.detected \in Allowed[e.previous]
  /\ \A e, f \in Counted(a) : e.previous = f.previous => e = f
  /\ {e.previous : e \in Counted(a)} \cup {status[a]}
       = {"SUBMITTED"} \cup {e.detected : e \in Counted(a)}

\* An event that counts continues the path of its application at its end, and
\* one that does not count leaves it alone.
LEMMA EventAdded ==
  ASSUME MonitorInv, NEW CONSTANT a \in Apps, NEW CONSTANT new,
         new.app = a, new.previous = status[a], ~Known(new.source),
         events' = events \cup {new},
         new.changed => /\ new.detected \in Allowed[status[a]]
                        /\ status' = [status EXCEPT ![a] = new.detected],
         ~new.changed => status' = status
  PROVE  EventsExplainStatus' /\ Past'
<1>1. status[a] \in Stages /\ status \in [Apps -> Stages]
  BY DEF MonitorInv, MonitorTypes
<1>2. events' = events \cup {new} /\ new.app = a /\ new.previous = status[a]
      /\ (~new.changed => status' = status)
  OBVIOUS
<1>3. \A e \in events : e.source # new.source
  BY DEF Known
<1>4. \A e, f \in events' : e.source = f.source => e = f
  BY <1>2, <1>3 DEF MonitorInv, EventsExplainStatus
<1>5. ASSUME NEW b \in Apps
      PROVE  Path(b)
  BY DEF MonitorInv, EventsExplainStatus, Path, Counted
<1>6. ASSUME new.changed
      PROVE  /\ status' = [status EXCEPT ![a] = new.detected]
             /\ new.detected \in Stages /\ Level[status[a]] < Level[new.detected]
             /\ Level[status[a]] \in Nat /\ Level[new.detected] \in Nat
  BY <1>1, <1>2, <1>6, Ascending
<1>7. Past'
  <2> SUFFICES ASSUME NEW e \in events'
               PROVE  /\ e.app \in Apps
                      /\ e.changed => e.previous \in Stages
                                      /\ Level[e.previous] < Level[status'[e.app]]
    BY DEF Past
  <2>1. CASE e = new
    BY <1>1, <1>2, <1>6, <2>1
  <2>2. CASE e \in events
    <3>1. e.app \in Apps
          /\ (e.changed => e.previous \in Stages /\ Level[e.previous] < Level[status[e.app]])
      BY <2>2 DEF MonitorInv, Past
    <3>2. CASE new.changed /\ e.app = a /\ e.changed
      <4>1. Level[e.previous] \in Nat
        BY <3>1, <3>2, Levels
      <4>2. status'[e.app] = new.detected /\ e.previous \in Stages
            /\ Level[e.previous] < Level[status[a]]
        BY <1>1, <1>6, <3>1, <3>2
      <4> QED
        BY <1>6, <3>1, <3>2, <4>1, <4>2
    <3>3. CASE ~(new.changed /\ e.app = a /\ e.changed)
      <4>1. e.changed => status'[e.app] = status[e.app]
        BY <1>1, <1>2, <1>6, <3>1, <3>3
      <4>2. QED
        BY <3>1, <4>1
    <3>4. QED
      BY <3>2, <3>3
  <2>3. QED
    BY <1>2, <2>1, <2>2
<1>8. ASSUME NEW b \in Apps
      PROVE  Path(b)'
  <2>1. CASE b # a \/ ~new.changed
    <3>1. Counted(b)' = Counted(b)
      BY <1>2, <2>1 DEF Counted
    <3>2. status'[b] = status[b]
      BY <1>1, <1>2, <1>6, <2>1
    <3>3. QED
      BY <1>5, <3>1, <3>2 DEF Path
  <2>2. CASE b = a /\ new.changed
    <3>1. Counted(a)' = Counted(a) \cup {new}
      BY <1>2, <2>2 DEF Counted
    <3>2. Path(a) /\ status'[a] = new.detected
      BY <1>1, <1>5, <1>6, <2>2
    <3>3. \A e \in Counted(a) : e.previous # status[a]
      BY <1>6, <2>2, Levels DEF Counted, MonitorInv, Past
    <3>4. \A e \in Counted(a)' : e.detected \in Allowed[e.previous]
      BY <1>2, <2>2, <3>1, <3>2 DEF Path
    <3>5. \A e, f \in Counted(a)' : e.previous = f.previous => e = f
      BY <1>2, <3>1, <3>2, <3>3 DEF Path
    <3>6. {e.previous : e \in Counted(a)'} \cup {status'[a]}
            = {"SUBMITTED"} \cup {e.detected : e \in Counted(a)'}
      <4>1. {e.previous : e \in Counted(a)'} = {e.previous : e \in Counted(a)} \cup {status[a]}
        BY <1>2, <3>1
      <4>2. {e.detected : e \in Counted(a)'} = {e.detected : e \in Counted(a)} \cup {new.detected}
        BY <3>1
      <4>3. {e.previous : e \in Counted(a)} \cup {status[a]}
              = {"SUBMITTED"} \cup {e.detected : e \in Counted(a)}
        BY <3>2 DEF Path
      <4>4. QED
        BY <3>2, <4>1, <4>2, <4>3
    <3>7. QED
      BY <2>2, <3>4, <3>5, <3>6 DEF Path
  <2>3. QED
    BY <2>1, <2>2
<1>9. QED
  BY <1>4, <1>7, <1>8 DEF EventsExplainStatus, Path, Counted

LEMMA RecordsPath ==
  ASSUME MonitorInv, NEW w \in Workers, Record(w)
  PROVE  EventsExplainStatus' /\ Past'
<1>1. App(w) \in Apps
  BY RecordTypes DEF MonitorInv
<1>2. CASE Known(local[w].source)
  <2>1. events' = events /\ status' = status
    BY <1>2 DEF Record
  <2>2. QED
    BY <2>1 DEF MonitorInv, EventsExplainStatus, Past
<1>3. CASE ~Known(local[w].source)
  <2>1. PICK a \in Apps : a = App(w)
    BY <1>1
  <2>2. PICK new : new = [source |-> local[w].source, app |-> a, previous |-> status[a],
                          detected |-> local[w].reading.status,
                          changed |-> ~Known(local[w].source) /\ Changes(a, local[w].reading)]
    OBVIOUS
  <2>3. events' = events \cup {new}
    BY <1>3, <2>1, <2>2 DEF Record
  <2>4. new.app = a /\ new.previous = status[a] /\ new.source = local[w].source
        /\ new.detected = local[w].reading.status
    BY <2>2
  <2>5. CASE Changes(a, local[w].reading)
    <3>1. /\ new.detected \in Allowed[status[a]]
          /\ status' = [status EXCEPT ![a] = new.detected]
      BY <1>3, <2>1, <2>4, <2>5 DEF Record, Changes
    <3>2. new.changed
      BY <1>3, <2>2, <2>5
    <3>3. QED
      BY <1>3, <2>3, <2>4, <3>1, <3>2, EventAdded
  <2>6. CASE ~Changes(a, local[w].reading)
    <3>1. status' = status /\ ~new.changed
      BY <2>1, <2>2, <2>6 DEF Record
    <3>2. QED
      BY <1>3, <2>3, <2>4, <3>1, EventAdded
  <2>7. QED
    BY <2>5, <2>6
<1>4. QED
  BY <1>2, <1>3

LEMMA MonitorInit1 == MonitorInit => MonitorInv
<1> SUFFICES ASSUME MonitorInit PROVE MonitorInv
  OBVIOUS
<1>1. events = {} /\ \A a \in Apps : status[a] = "SUBMITTED"
  BY DEF MonitorInit
<1>2. EventsExplainStatus /\ Past
  BY <1>1 DEF EventsExplainStatus, Past
<1>3. QED
  BY <1>2, MonitorTypesInit DEF MonitorInv

LEMMA MonitorStep == MonitorInv /\ [MonitorNext]_monitorVars => MonitorInv'
<1> SUFFICES ASSUME MonitorInv, [MonitorNext]_monitorVars PROVE MonitorInv'
  OBVIOUS
<1>1. MonitorTypes'
  <2>1. CASE UNCHANGED monitorVars
    BY <2>1 DEF monitorVars, worldVars, MonitorInv, MonitorTypes, At, App
  <2>2. CASE MonitorNext
    BY <2>2, ReadsTypes, RecordTypes, RestTypes, Zenon DEF MonitorNext, Check, MonitorInv
  <2>3. QED
    BY <2>1, <2>2
<1>2. CASE \E w \in Workers : Record(w)
  BY <1>1, <1>2, RecordsPath DEF MonitorInv
<1>3. CASE \A w \in Workers : ~Record(w)
  <2>1. UNCHANGED <<events, status>>
    BY <1>3, OnlyRecorded
  <2>2. QED
    BY <1>1, <2>1 DEF MonitorInv, EventsExplainStatus, Past
<1>4. QED
  BY <1>2, <1>3

-----------------------------------------------------------------------------
(* Theorems about Monitor *)

\* The strengthened invariant of the monitor.
THEOREM MonitorInvariance == MonitorSpec => []MonitorInv
<1>1. QED
  BY MonitorInit1, MonitorStep, PTL DEF MonitorSpec

\* Whatever attempts overlap, crash or outlive their lease, and whatever mail
\* and pages repeat themselves: an observation is an event once, and the events
\* that count form one path from SUBMITTED to the status of their application
\* (ApplicationMonitorService.record).
THEOREM EventsExplain == MonitorSpec => []EventsExplainStatus
<1>1. MonitorInv => EventsExplainStatus
  BY DEF MonitorInv
<1>2. QED
  BY <1>1, MonitorInvariance, PTL

-----------------------------------------------------------------------------
(* What the monitor asks of the queue *)

TasksAreRows == DOMAIN task = Apps
RowsMove == TasksAreRows' /\ \A t \in Apps : RowStep(t)

LEMMA RowMoves ==
  ASSUME TasksAreRows, NEW a \in Apps, NEW row, task' = [task EXCEPT ![a] = row],
         task'[a] = row => RowStep(a)
  PROVE  RowsMove
<1>1. TasksAreRows' /\ task'[a] = row
  BY DEF TasksAreRows
<1>2. \A t \in Apps \ {a} : task'[t] = task[t]
  BY DEF TasksAreRows
<1>3. QED
  BY <1>1, <1>2 DEF RowsMove, RowStep

LEMMA SameRows ==
  ASSUME TasksAreRows, UNCHANGED task
  PROVE  RowsMove
BY DEF RowsMove, TasksAreRows, RowStep

LEMMA RecoveredRow ==
  ASSUME TasksAreRows, NEW a \in Apps, RecoverTask(a)
  PROVE  RowsMove
<1>1. CASE task[a].status = "ACTIVE" /\ task' = [task EXCEPT ![a] = Lapsed(task[a], a)]
  <2>1. task'[a] = Lapsed(task[a], a) => EndRow(a)
    BY <1>1 DEF EndRow
  <2>2. QED
    BY <1>1, <2>1, RowMoves DEF RowStep
<1>2. CASE task[a].status = "WAITING_RETRY" /\ task' = [task EXCEPT ![a].status = "READY"]
  <2>1. task' = [task EXCEPT ![a] = [task[a] EXCEPT !.status = "READY"]]
    BY <1>2
  <2>2. task[a].status \in {"WAITING_HUMAN", "WAITING_RETRY"}
    BY <1>2
  <2>3. QED
    BY <2>1, <2>2, RowMoves DEF RowStep, WakeRow
<1>3. QED
  BY <1>1, <1>2 DEF RecoverTask

LEMMA MonitorRowsMove ==
  ASSUME MonitorTypes, TasksAreRows, [MonitorNext]_monitorVars, ~Schedule
  PROVE  RowsMove
<1>1. ASSUME NEW w \in Workers, NEW a \in Apps, ClaimCheck(w, a) PROVE RowsMove
  <2>1. /\ task' = [task EXCEPT ![a] = Granted(task[a], w, FALSE)]
        /\ task[a].status = "READY" /\ Claimable(a)
    BY <1>1 DEF ClaimCheck, Claimable
  <2>2. task'[a] = Granted(task[a], w, FALSE) => GrantRow(a)
    BY <2>1 DEF GrantRow
  <2>3. QED
    BY <2>1, <2>2, RowMoves DEF RowStep
<1>2. ASSUME NEW w \in Workers, CompleteCheck(w) \/ CheckFails(w) PROVE RowsMove
  <2> DEFINE a == App(w)
  <2>1. a \in Apps
    BY <1>2 DEF MonitorTypes, CompleteCheck, CheckFails, At
  <2>2. CASE UNCHANGED task
    BY <2>2, SameRows
  <2>3. CASE ~UNCHANGED task
    <3>1. task[a].status = "ACTIVE"
      BY <1>2, <2>3 DEF CompleteCheck, CheckFails, Fence
    <3>2. PICK row : /\ task' = [task EXCEPT ![a] = row]
                     /\ \/ row = Ended(task[a], "SUCCEEDED")
                        \/ \E retryable \in BOOLEAN : row = Retried(task[a], a, retryable)
      BY <1>2, <2>3 DEF CompleteCheck, CheckFails
    <3> HIDE DEF a
    <3>3. task'[a] = row => EndRow(a)
      BY <3>1, <3>2 DEF EndRow
    <3>4. QED
      BY <2>1, <3>2, <3>3, RowMoves DEF RowStep
  <2>4. QED
    BY <2>2, <2>3
<1>3. ASSUME NEW a \in Apps, RecoverCheck(a) PROVE RowsMove
  BY <1>3, RecoveredRow DEF RecoverCheck
<1>4. ASSUME NEW w \in Workers, Overrun(w) PROVE RowsMove
  BY <1>4, RecoveredRow DEF Overrun, MonitorTypes
<1>5. ASSUME NEW w \in Workers,
             \/ Search(w) \/ ReadMessage(w) \/ LookAgain(w) \/ ReadPage(w) \/ Record(w) \/ Notify(w)
             \/ CheckLeaseLost(w) \/ CrashMonitor(w)
      PROVE  RowsMove
  <2>1. UNCHANGED task
    BY <1>5, Zenon
       DEF Search, ReadMessage, LookAgain, ReadPage, Record, Notify, CheckLeaseLost, CrashMonitor
  <2>2. QED
    BY <2>1, SameRows
<1>6. CASE \/ \E a \in Apps : NextBucket(a) \/ ComesOfAge(a)
           \/ MailArrives \/ PageChanges \/ UNCHANGED monitorVars
  BY <1>6, SameRows DEF NextBucket, ComesOfAge, MailArrives, PageChanges, monitorVars
<1>7. QED
  BY <1>1, <1>2, <1>3, <1>4, <1>5, <1>6 DEF MonitorNext, Check

\* Whatever attempts, crashes and recoveries do, the row of MONITOR_APPLICATION
\* moves only as one of the transactions of QueueService moves it; the scheduler
\* alone puts another row in its place, the task of a new bucket.
THEOREM MonitorTasksConform == MonitorSpec => [][Schedule \/ \A t \in Tasks : RowStep(t)]_monitorVars
<1>1. MonitorInit => TasksAreRows
  BY DEF MonitorInit, TasksAreRows
<1>2. ASSUME MonitorInv, TasksAreRows, [MonitorNext]_monitorVars
      PROVE  TasksAreRows' /\ (Schedule \/ \A t \in Tasks : RowStep(t))
  <2>1. CASE Schedule
    BY <2>1 DEF Schedule, TasksAreRows
  <2>2. CASE ~Schedule
    BY <1>2, <2>2, MonitorRowsMove DEF MonitorInv, RowsMove, Apps
  <2>3. QED
    BY <2>1, <2>2
<1>3. /\ MonitorInv /\ TasksAreRows /\ [MonitorNext]_monitorVars => TasksAreRows'
      /\ MonitorInv /\ TasksAreRows /\ [MonitorNext]_monitorVars
           => [Schedule \/ \A t \in Tasks : RowStep(t)]_monitorVars
  BY <1>2
<1>4. QED
  BY <1>1, <1>3, MonitorInvariance, PTL DEF MonitorSpec

-----------------------------------------------------------------------------
(* ModelGateway.  Sums: v[r] over the members r of a finite set, as        *)
(* MapThenSumSet adds them.  If a subset failed a law of sums then a       *)
(* smallest one would, so a law holds when no subset can be the smallest   *)
(* that fails it.                                                          *)

\* g is the recursive function that MapThenSumSet evaluates over the subsets of S.
Pick(S) == CHOOSE x \in S : TRUE
Sums(g, v, S) ==
  g = [s \in SUBSET S |-> IF s = {} THEN 0 ELSE v[Pick(s)] + g[s \ {Pick(s)}]]
Total(v, S) == MapThenSumSet(LAMBDA r : v[r], S)

\* The fold of the community modules, in this form.
LEMMA TotalIs == ASSUME NEW v, NEW S PROVE Total(v, S) = (CHOOSE g : Sums(g, v, S))[S]
BY DEF Total, MapThenSumSet, MapThenFoldSet, Sums, Pick

\* Induction over the subsets of a finite set, without an operator to instantiate.
LEMMA SmallestSubset ==
  ASSUME NEW S, IsFiniteSet(S), NEW bad, bad \subseteq SUBSET S, bad # {}
  PROVE  \E T \in bad : \A U \in bad : U \subseteq T => U = T
<1>1. IsWellFoundedOn(StrictSubsetOrdering(S), SUBSET S)
  BY FS_StrictSubsetOrderingWellFounded, FS_FiniteSubsetsOfFinite
<1>2. PICK T \in bad : \A U \in bad : ~(<<U, T>> \in StrictSubsetOrdering(S))
  BY <1>1, WFMin
<1>3. \A U \in bad : U \subseteq T => U = T
  BY <1>2 DEF StrictSubsetOrdering
<1>4. QED
  BY <1>3

LEMMA Picked ==
  ASSUME NEW S, S # {}
  PROVE  Pick(S) \in S
BY DEF Pick

LEMMA SumsStep ==
  ASSUME NEW g, NEW v, NEW S, Sums(g, v, S), NEW T \in SUBSET S
  PROVE  g[T] = IF T = {} THEN 0 ELSE v[Pick(T)] + g[T \ {Pick(T)}]
BY DEF Sums

\* The recursion determines its function, and has one.
LEMMA SumsAgree ==
  ASSUME NEW S, IsFiniteSet(S), NEW v, NEW g, Sums(g, v, S), NEW T \in SUBSET S, NEW h, Sums(h, v, T)
  PROVE  g[T] = h[T]
<1> DEFINE bad == {U \in SUBSET T : g[U] # h[U]}
<1>1. SUFFICES ASSUME bad # {} PROVE FALSE
  OBVIOUS
<1>2. PICK U \in bad : \A V \in bad : V \subseteq U => V = U
  <2>1. bad \subseteq SUBSET S
    OBVIOUS
  <2> HIDE DEF bad
  <2>2. QED
    BY <1>1, <2>1, SmallestSubset
<1>3. U # {}
  BY SumsStep
<1> DEFINE V == U \ {Pick(U)}
<1>4. V \in SUBSET T /\ V # U
  BY <1>3, Picked
<1>5. g[V] = h[V]
  BY <1>2, <1>4
<1>6. QED
  BY <1>3, <1>5, SumsStep

LEMMA SumsExist ==
  ASSUME NEW S, IsFiniteSet(S), NEW v
  PROVE  \E g : Sums(g, v, S)
<1> DEFINE bad == {T \in SUBSET S : ~\E g : Sums(g, v, T)}
<1>1. SUFFICES ASSUME bad # {} PROVE FALSE
  OBVIOUS
<1>2. PICK T \in bad : \A U \in bad : U \subseteq T => U = T
  <2>1. bad \subseteq SUBSET S
    OBVIOUS
  <2> HIDE DEF bad
  <2>2. QED
    BY <1>1, <2>1, SmallestSubset
<1> DEFINE part(U) == CHOOSE g : Sums(g, v, U)
           whole == [s \in SUBSET T |-> IF s = {} THEN 0 ELSE v[Pick(s)] + part(s \ {Pick(s)})[s \ {Pick(s)}]]
<1>3. ASSUME NEW U \in SUBSET T, U # T PROVE Sums(part(U), v, U)
  <2>1. U \in SUBSET S /\ U \notin bad
    BY <1>2, <1>3
  <2>2. \E g : Sums(g, v, U)
    BY <2>1
  <2>3. QED
    BY <2>2
<1> HIDE DEF part
<1>4. ASSUME NEW s \in SUBSET T, s # T PROVE whole[s] = part(s)[s]
  <2>1. CASE s = {}
    BY <2>1, <1>3, <1>4, SumsStep
  <2>2. CASE s # {}
    <3> DEFINE rest == s \ {Pick(s)}
    <3>1. rest \in SUBSET s /\ rest # T /\ rest \in SUBSET T
      BY <1>4, <2>2
    <3>2. Sums(part(s), v, s) /\ Sums(part(rest), v, rest)
      BY <1>3, <1>4, <3>1
    <3>3. IsFiniteSet(s)
      BY FS_Subset
    <3>4. part(s)[rest] = part(rest)[rest]
      BY <3>1, <3>2, <3>3, SumsAgree
    <3>5. part(s)[s] = v[Pick(s)] + part(s)[rest]
      BY <2>2, <3>2, SumsStep
    <3>6. QED
      BY <2>2, <3>4, <3>5
  <2>3. QED
    BY <2>1, <2>2
<1>5. ASSUME NEW s \in SUBSET T, s # {} PROVE whole[s \ {Pick(s)}] = part(s \ {Pick(s)})[s \ {Pick(s)}]
  BY <1>4, <1>5, Picked
<1>6. whole = [s \in SUBSET T |-> IF s = {} THEN 0 ELSE v[Pick(s)] + whole[s \ {Pick(s)}]]
  <2> DEFINE other == [s \in SUBSET T |-> IF s = {} THEN 0 ELSE v[Pick(s)] + whole[s \ {Pick(s)}]]
  <2>1. \A s \in SUBSET T : whole[s] = other[s]
    BY <1>5
  <2>2. DOMAIN whole = SUBSET T /\ DOMAIN other = SUBSET T
    OBVIOUS
  <2>3. QED
    BY <2>1
<1>7. Sums(whole, v, T)
  BY <1>6 DEF Sums
<1>8. QED
  BY <1>2, <1>7

\* One function over the subsets of S serves all of them.
LEMMA AnySumIsTotal ==
  ASSUME NEW S, IsFiniteSet(S), NEW v, NEW T \in SUBSET S, NEW g, Sums(g, v, S)
  PROVE  Total(v, T) = g[T]
<1>1. IsFiniteSet(T)
  BY FS_Subset
<1>2. Sums(CHOOSE h : Sums(h, v, T), v, T)
  BY <1>1, SumsExist
<1>3. QED
  BY <1>2, TotalIs, SumsAgree

LEMMA TotalNone ==
  ASSUME NEW v
  PROVE  Total(v, {}) = 0
<1>1. IsFiniteSet({})
  BY FS_EmptySet
<1>2. PICK g : Sums(g, v, {})
  BY <1>1, SumsExist
<1>3. QED
  BY <1>1, <1>2, AnySumIsTotal, SumsStep

LEMMA TotalPicked ==
  ASSUME NEW S, IsFiniteSet(S), S # {}, NEW v
  PROVE  Total(v, S) = v[Pick(S)] + Total(v, S \ {Pick(S)})
<1>1. PICK g : Sums(g, v, S)
  BY SumsExist
<1>2. Total(v, S) = g[S] /\ Total(v, S \ {Pick(S)}) = g[S \ {Pick(S)}]
  BY <1>1, AnySumIsTotal
<1>3. QED
  BY <1>1, <1>2, SumsStep

LEMMA TotalType ==
  ASSUME NEW S, IsFiniteSet(S), NEW v, \A r \in S : v[r] \in Nat
  PROVE  Total(v, S) \in Nat
<1> DEFINE bad == {T \in SUBSET S : Total(v, T) \notin Nat}
<1>1. SUFFICES ASSUME bad # {} PROVE FALSE
  OBVIOUS
<1>2. PICK T \in bad : \A U \in bad : U \subseteq T => U = T
  <2>1. bad \subseteq SUBSET S
    OBVIOUS
  <2> HIDE DEF bad
  <2>2. QED
    BY <1>1, <2>1, SmallestSubset
<1>3. T # {}
  BY TotalNone
<1> DEFINE U == T \ {Pick(T)}
<1>4. U \in SUBSET S /\ U # T /\ Pick(T) \in S
  BY <1>3, Picked
<1>5. Total(v, U) \in Nat
  BY <1>2, <1>4
<1>6. Total(v, T) = v[Pick(T)] + Total(v, U)
  BY <1>3, FS_Subset, TotalPicked
<1>7. QED
  BY <1>4, <1>5, <1>6

\* Any member can be split off, not only the one the fold picks.
LEMMA TotalWithout ==
  ASSUME NEW S, IsFiniteSet(S), NEW v, \A r \in S : v[r] \in Nat, NEW a \in S
  PROVE  Total(v, S) = v[a] + Total(v, S \ {a})
<1> DEFINE Splits(T) == \A b \in T : Total(v, T) = v[b] + Total(v, T \ {b})
           bad == {T \in SUBSET S : ~Splits(T)}
<1>1. SUFFICES ASSUME bad # {} PROVE FALSE
  OBVIOUS
<1>2. PICK T \in bad : \A U \in bad : U \subseteq T => U = T
  <2>1. bad \subseteq SUBSET S
    OBVIOUS
  <2> HIDE DEF bad
  <2>2. QED
    BY <1>1, <2>1, SmallestSubset
<1>3. ASSUME NEW U \in SUBSET T, U # T PROVE Splits(U)
  BY <1>2, <1>3
<1>4. ASSUME NEW b \in T PROVE Total(v, T) = v[b] + Total(v, T \ {b})
  <2> DEFINE p == Pick(T)
  <2>1. p \in T /\ IsFiniteSet(T)
    BY Picked, FS_Subset
  <2>2. Total(v, T) = v[p] + Total(v, T \ {p})
    BY <2>1, TotalPicked
  <2>3. CASE b = p
    BY <2>2, <2>3
  <2>4. CASE b # p
    <3>1. Total(v, T \ {p}) = v[b] + Total(v, (T \ {p}) \ {b})
      BY <1>3, <2>1, <2>4
    <3>2. Total(v, T \ {b}) = v[p] + Total(v, (T \ {b}) \ {p})
      BY <1>3, <2>1, <2>4
    <3>3. (T \ {p}) \ {b} = (T \ {b}) \ {p}
      OBVIOUS
    <3>4. IsFiniteSet((T \ {b}) \ {p}) /\ \A r \in (T \ {b}) \ {p} : v[r] \in Nat
      BY <2>1, FS_Subset
    <3> DEFINE whole == Total(v, T)
               rest == Total(v, (T \ {b}) \ {p})
    <3>5. v[p] \in Nat /\ v[b] \in Nat /\ rest \in Nat
      BY <2>1, <3>4, TotalType
    <3>6. whole = v[p] + (v[b] + rest)
      BY <2>2, <3>1, <3>3
    <3>7. Total(v, T \ {b}) = v[p] + rest
      BY <3>2
    <3> HIDE DEF p, whole, rest
    <3>8. whole = v[b] + (v[p] + rest)
      BY <3>5, <3>6
    <3>9. QED
      BY <3>7, <3>8 DEF whole
  <2>5. QED
    BY <2>3, <2>4
<1>5. QED
  BY <1>2, <1>4

\* Fewer members with smaller values add up to no more.
LEMMA TotalMonotone ==
  ASSUME NEW S, IsFiniteSet(S), NEW T \in SUBSET S,
         NEW v, \A r \in S : v[r] \in Nat,
         NEW w, \A r \in T : w[r] \in Nat /\ w[r] <= v[r]
  PROVE  Total(w, T) <= Total(v, S)
<1> DEFINE Exceeds(U) == ~(Total(w, T \cap U) <= Total(v, U))
           bad == {U \in SUBSET S : Exceeds(U)}
<1>1. SUFFICES ASSUME bad # {} PROVE FALSE
  <2>1. T \cap S = T
    OBVIOUS
  <2>2. QED
    BY <2>1
<1>2. PICK U \in bad : \A V \in bad : V \subseteq U => V = U
  <2>1. bad \subseteq SUBSET S
    OBVIOUS
  <2> HIDE DEF bad
  <2>2. QED
    BY <1>1, <2>1, SmallestSubset
<1>3. U # {}
  <2>1. T \cap {} = {} /\ Total(w, {}) = 0 /\ Total(v, {}) = 0
    BY TotalNone
  <2>2. ~Exceeds({})
    BY <2>1
  <2>3. Exceeds(U)
    BY <1>2
  <2> HIDE DEF Exceeds
  <2>4. QED
    BY <2>2, <2>3
<1>4. PICK a \in U : TRUE
  BY <1>3
<1> DEFINE V == U \ {a}
           TU == T \cap U
           TV == T \cap V
<1>5. Total(w, TV) <= Total(v, V)
  BY <1>2, <1>4
<1>6. Total(v, U) = v[a] + Total(v, V)
  BY <1>4, FS_Subset, TotalWithout
<1>7. IsFiniteSet(V) /\ IsFiniteSet(TU) /\ IsFiniteSet(TV)
  BY FS_Subset
<1>8. Total(v, V) \in Nat /\ Total(w, TV) \in Nat /\ v[a] \in Nat
  BY <1>4, <1>7, TotalType
<1>9. CASE a \in T
  <2>1. a \in TU /\ TU \ {a} = TV
    BY <1>4, <1>9
  <2>2. Total(w, TU) = w[a] + Total(w, TU \ {a})
    BY <1>7, <2>1, TotalWithout
  <2>3. w[a] \in Nat /\ w[a] <= v[a]
    BY <1>9
  <2>4. Total(w, TU) <= Total(v, U)
    BY <1>5, <1>6, <1>8, <2>1, <2>2, <2>3
  <2>5. QED
    BY <1>2, <2>4
<1>10. CASE a \notin T
  <2>1. TU = TV
    BY <1>10
  <2>2. Total(w, TU) <= Total(v, V)
    BY <1>5, <2>1
  <2>3. Total(w, TU) \in Nat
    BY <1>8, <2>1
  <2>4. Total(w, TU) <= Total(v, U)
    <3> HIDE DEF TU, TV, V
    <3>1. QED
      BY <1>6, <1>8, <2>2, <2>3
  <2>5. QED
    BY <1>2, <2>4
<1>11. QED
  BY <1>9, <1>10

-----------------------------------------------------------------------------
(* The invariant of the gateway *)

RowTypes == [caller : Callers, tier : Tiers, day : Days, amount : Nat, pending : BOOLEAN,
             billed : Nat, answered : BOOLEAN]
CallTypes == [pc : {"rest", "reserve", "generate", "settle"}, tier : Tiers, requests : Nat,
              schemaErrors : Nat, transportErrors : Nat, row : Nat,
              verdict : Verdicts \cup {"none", "retry", "stop"}, cost : Nat]

GatewayTypes ==
  /\ usage \in Seq(RowTypes)
  /\ day \in Days
  /\ call \in [Callers -> CallTypes]

\* A request under way holds a pending row of its own at its tier, and the row
\* carries the bill that the caller will settle it with.
HoldsItsRow ==
  \A c \in Callers :
    /\ call[c].pc \in {"reserve", "generate"} => call[c].cost = 0
    /\ call[c].pc \in {"generate", "settle"} =>
         /\ call[c].row \in DOMAIN usage
         /\ LET row == usage[call[c].row]
            IN  row.caller = c /\ row.tier = call[c].tier /\ row.pending /\ row.billed = call[c].cost

\* The amount of a row: the estimate while it is pending, the bill when settled.
AmountOfRow ==
  \A r \in DOMAIN usage :
    usage[r].amount = IF usage[r].pending THEN Maximum[usage[r].tier] ELSE usage[r].billed

\* Nothing is reserved on a day to come.
NoRowAhead == \A r \in DOMAIN usage : usage[r].day <= day

\* What a row is charged with: its estimate while it is pending, and then its
\* bill, of which a ceiling covers no more than the estimate.
AtMost(bill, maximum) == IF bill <= maximum THEN bill ELSE maximum
Charge(row) == IF row.pending THEN Maximum[row.tier] ELSE AtMost(row.billed, Maximum[row.tier])
Charges == [r \in DOMAIN usage |-> Charge(usage[r])]

\* The rows that a ceiling is about.
RowsOfTask(c) == {r \in DOMAIN usage : usage[r].caller = c}
RowsOfApplication(c) == {r \in DOMAIN usage : SameApplication(usage[r], c)}
RowsOfDay(d) == {r \in DOMAIN usage : usage[r].day = d}
RowsOfMonth(m) == {r \in DOMAIN usage : MonthOf[usage[r].day] = m}
OpenOrToday == {r \in DOMAIN usage : usage[r].pending \/ usage[r].day >= day}
OpenOrThisMonth == {r \in DOMAIN usage : usage[r].pending \/ MonthOf[usage[r].day] >= MonthOf[day]}

\* Every ceiling holds of the charges, and what is still open together with what
\* was spent today, or this month, stays within the day's and the month's.
ChargesWithinCeilings ==
  /\ \A c \in Callers :
       /\ Total(Charges, RowsOfTask(c)) <= TaskLimit[c]
       /\ Application[c] # None => Total(Charges, RowsOfApplication(c)) <= AppLimit
  /\ \A d \in Days : Total(Charges, RowsOfDay(d)) <= DailyLimit
  /\ \A m \in {MonthOf[d] : d \in Days} : Total(Charges, RowsOfMonth(m)) <= MonthlyLimit
  /\ Total(Charges, OpenOrToday) <= DailyLimit
  /\ Total(Charges, OpenOrThisMonth) <= MonthlyLimit

RowInv == GatewayTypes /\ HoldsItsRow /\ AmountOfRow /\ NoRowAhead
GatewayInv == RowInv /\ ChargesWithinCeilings /\ EscalatesOnAnswers

-----------------------------------------------------------------------------
(* Types *)

LEMMA TiersAre == Tiers = 1 .. Len(Maximum) /\ Len(Maximum) \in Nat /\ 1 \in Tiers
BY PricesAssumption DEF Tiers

LEMMA Estimates ==
  ASSUME NEW k \in Tiers
  PROVE  Maximum[k] \in Nat /\ Maximum[k] >= 1
BY PricesAssumption DEF Tiers

LEMMA DaysAre == Days = 1 .. Len(MonthOf) /\ Len(MonthOf) \in Nat /\ 1 \in Days
BY CalendarAssumption DEF Days

LEMMA Months ==
  ASSUME NEW d \in Days
  PROVE  MonthOf[d] \in Nat
BY CalendarAssumption DEF Days

LEMMA RowTyped ==
  ASSUME GatewayTypes, NEW r \in DOMAIN usage
  PROVE  usage[r] \in RowTypes
BY DEF GatewayTypes

LEMMA RestingType == Resting \in CallTypes
BY TiersAre DEF Resting, CallTypes

\* The caller c leaves its request: it returns, or asks for another at one of
\* the tiers.
LeavesRequest(c, tiers) ==
  /\ call' \in [Callers -> CallTypes]
  /\ \A d \in Callers : d # c => call'[d] = call[d]
  /\ call'[c].pc \in {"reserve", "rest"} /\ call'[c].cost = 0
  /\ call'[c].tier \in tiers \cup {1}

LEMMA Returning ==
  ASSUME GatewayTypes, NEW c \in Callers, Returns(c), NEW tiers
  PROVE  LeavesRequest(c, tiers)
<1>1. Resting \in CallTypes
  BY RestingType
<1>2. QED
  BY <1>1 DEF GatewayTypes, Returns, LeavesRequest, Resting

LEMMA AskingAgain ==
  ASSUME GatewayTypes, NEW c \in Callers, NEW counter \in CallTypes, NextRequest(c, counter),
         NEW tiers, counter.tier \in tiers
  PROVE  LeavesRequest(c, tiers)
<1> DEFINE next == IF counter.requests < MaxRequests
                   THEN [counter EXCEPT !.pc = "reserve", !.verdict = "none", !.cost = 0]
                   ELSE Resting
<1>1. Resting \in CallTypes
  BY RestingType
<1>2. next \in CallTypes
  BY <1>1 DEF CallTypes
<1>3. next.pc \in {"reserve", "rest"} /\ next.cost = 0 /\ next.tier \in tiers \cup {1}
  BY DEF Resting, CallTypes
<1>4. call' = [call EXCEPT ![c] = next]
  BY DEF NextRequest
<1> HIDE DEF next
<1>5. QED
  BY <1>2, <1>3, <1>4 DEF GatewayTypes, LeavesRequest

LEMMA CountersType ==
  ASSUME GatewayTypes, NEW c \in Callers
  PROVE  /\ [call[c] EXCEPT !.transportErrors = @ + 1] \in CallTypes
         /\ [call[c] EXCEPT !.transportErrors = @ + 1].tier = call[c].tier
         /\ [call[c] EXCEPT !.schemaErrors = @ + 1] \in CallTypes
         /\ [call[c] EXCEPT !.schemaErrors = @ + 1].tier = call[c].tier
<1> DEFINE this == call[c]
<1>1. this \in CallTypes
  BY DEF GatewayTypes
<1> HIDE DEF this
<1>2. this.transportErrors + 1 \in Nat /\ this.schemaErrors + 1 \in Nat
  BY <1>1 DEF CallTypes
<1>3. /\ [this EXCEPT !.transportErrors = @ + 1] \in CallTypes
      /\ [this EXCEPT !.transportErrors = @ + 1].tier = this.tier
  BY <1>1, <1>2 DEF CallTypes
<1>4. /\ [this EXCEPT !.schemaErrors = @ + 1] \in CallTypes
      /\ [this EXCEPT !.schemaErrors = @ + 1].tier = this.tier
  BY <1>1, <1>2 DEF CallTypes
<1>5. QED
  BY <1>3, <1>4 DEF this

LEMMA Failing ==
  ASSUME GatewayTypes, NEW c \in Callers, TransportFailed(c)
  PROVE  LeavesRequest(c, {call[c].tier})
<1> DEFINE counter == [call[c] EXCEPT !.transportErrors = @ + 1]
<1>1. counter \in CallTypes /\ counter.tier = call[c].tier
  BY CountersType
<1>2. NextRequest(c, counter) \/ Returns(c)
  BY DEF TransportFailed
<1> HIDE DEF counter
<1>3. QED
  BY <1>1, <1>2, AskingAgain, Returning

LEMMA Escalating ==
  ASSUME GatewayTypes, NEW c \in Callers, Escalate(c)
  PROVE  LeavesRequest(c, {call[c].tier + 1})
<1> DEFINE counter == [call[c] EXCEPT !.tier = @ + 1, !.schemaErrors = 0, !.transportErrors = 0]
<1>1. CASE call[c].tier + 1 \in Tiers
  <2>1. counter \in CallTypes /\ counter.tier = call[c].tier + 1
    BY <1>1 DEF GatewayTypes, CallTypes
  <2>2. NextRequest(c, counter)
    BY <1>1 DEF Escalate
  <2> HIDE DEF counter
  <2>3. QED
    BY <2>1, <2>2, AskingAgain
<1>2. CASE call[c].tier + 1 \notin Tiers
  BY <1>2, Returning DEF Escalate
<1>3. QED
  BY <1>1, <1>2

LEMMA AskingForValid ==
  ASSUME GatewayTypes, NEW c \in Callers, Invalid(c)
  PROVE  LeavesRequest(c, {call[c].tier, call[c].tier + 1})
<1> DEFINE counter == [call[c] EXCEPT !.schemaErrors = @ + 1]
<1>1. CASE Escalate(c)
  BY <1>1, Escalating DEF LeavesRequest
<1>2. CASE NextRequest(c, counter)
  <2>1. counter \in CallTypes /\ counter.tier = call[c].tier
    BY CountersType
  <2> HIDE DEF counter
  <2>2. QED
    BY <1>2, <2>1, AskingAgain
<1>3. QED
  BY <1>1, <1>2 DEF Invalid

-----------------------------------------------------------------------------
(* The rows *)

\* What a step other than a reservation may do to the rows.
RowsKept ==
  /\ DOMAIN usage' = DOMAIN usage
  /\ \A r \in DOMAIN usage :
       /\ usage'[r].caller = usage[r].caller
       /\ usage'[r].tier = usage[r].tier
       /\ usage'[r].day = usage[r].day
       /\ ~usage[r].pending => usage'[r] = usage[r]

\* The row of the caller c is replaced, and c may leave it; other rows and
\* callers stay.
LEMMA RowReplaced ==
  ASSUME RowInv, NEW c \in Callers, call[c].pc \in {"generate", "settle"},
         NEW new, usage' = [usage EXCEPT ![call[c].row] = new], new \in RowTypes,
         new.caller = c, new.tier = call[c].tier, new.day = usage[call[c].row].day,
         new.amount = IF new.pending THEN Maximum[new.tier] ELSE new.billed,
         call' \in [Callers -> CallTypes], \A d \in Callers : d # c => call'[d] = call[d],
         \/ call'[c].pc \in {"reserve", "rest"} /\ call'[c].cost = 0
         \/ /\ call'[c].pc = "settle" /\ call'[c].row = call[c].row /\ call'[c].tier = call[c].tier
            /\ new.pending /\ new.billed = call'[c].cost,
         day' = day
  PROVE  RowInv' /\ RowsKept
<1> DEFINE i == call[c].row
<1>1. /\ i \in DOMAIN usage /\ usage[i].caller = c /\ usage[i].tier = call[c].tier
      /\ usage[i].pending
  BY DEF RowInv, HoldsItsRow
<1>2. usage \in Seq(RowTypes) /\ usage' \in Seq(RowTypes) /\ DOMAIN usage' = DOMAIN usage
  BY <1>1 DEF RowInv, GatewayTypes
<1>3. usage'[i] = new /\ \A r \in DOMAIN usage : r # i => usage'[r] = usage[r]
  BY <1>1, <1>2
<1>4. GatewayTypes'
  BY <1>2 DEF RowInv, GatewayTypes
<1>5. HoldsItsRow'
  <2> SUFFICES ASSUME NEW d \in Callers
               PROVE  /\ call'[d].pc \in {"reserve", "generate"} => call'[d].cost = 0
                      /\ call'[d].pc \in {"generate", "settle"} =>
                           /\ call'[d].row \in DOMAIN usage'
                           /\ LET row == usage'[call'[d].row]
                              IN  /\ row.caller = d /\ row.tier = call'[d].tier /\ row.pending
                                  /\ row.billed = call'[d].cost
    BY DEF HoldsItsRow
  <2>1. CASE d = c
    BY <1>1, <1>2, <1>3, <2>1
  <2>2. CASE d # c
    <3>1. call'[d] = call[d]
      BY <2>2
    <3>2. call[d].pc \in {"generate", "settle"} => call[d].row \in DOMAIN usage /\ call[d].row # i
      BY <1>1, <2>2 DEF RowInv, HoldsItsRow
    <3> HIDE DEF i
    <3>3. QED
      BY <1>2, <1>3, <3>1, <3>2 DEF RowInv, HoldsItsRow
  <2>3. QED
    BY <2>1, <2>2
<1>6. AmountOfRow'
  BY <1>2, <1>3 DEF RowInv, AmountOfRow
<1>7. NoRowAhead'
  BY <1>1, <1>2, <1>3 DEF RowInv, NoRowAhead
<1>8. RowsKept
  BY <1>1, <1>2, <1>3 DEF RowsKept
<1>9. QED
  BY <1>4, <1>5, <1>6, <1>7, <1>8 DEF RowInv

\* A caller climbs a tier only with an answer of the tier it leaves.
ClimbsOnAnswer ==
  \A c \in Callers :
    \/ call'[c].tier <= call[c].tier
    \/ /\ call'[c].tier = call[c].tier + 1
       /\ \E r \in DOMAIN usage' :
            /\ usage'[r].caller = c /\ usage'[r].tier = call[c].tier
            /\ usage'[r].answered /\ ~usage'[r].pending

LEMMA TiersAreNumbers ==
  ASSUME GatewayTypes, NEW c \in Callers
  PROVE  call[c].tier \in Nat /\ call[c].tier >= 1 /\ call[c].tier \in Tiers
BY TiersAre DEF GatewayTypes, CallTypes

LEMMA StaysOnTier ==
  ASSUME GatewayTypes, NEW c \in Callers, LeavesRequest(c, {call[c].tier})
  PROVE  ClimbsOnAnswer
<1> SUFFICES ASSUME NEW d \in Callers PROVE call'[d].tier <= call[d].tier
  BY DEF ClimbsOnAnswer
<1>1. call[d].tier \in Nat /\ call[d].tier >= 1
  BY TiersAreNumbers
<1>2. QED
  BY <1>1 DEF LeavesRequest

\* Nothing happens to the rows.
LEMMA RowsUntouched ==
  ASSUME RowInv, NEW c \in Callers, usage' = usage, day' = day, LeavesRequest(c, {call[c].tier})
  PROVE  RowInv' /\ RowsKept /\ ClimbsOnAnswer
<1>1. GatewayTypes'
  BY DEF RowInv, GatewayTypes, LeavesRequest
<1>2. HoldsItsRow'
  BY DEF RowInv, HoldsItsRow, LeavesRequest
<1>3. AmountOfRow' /\ NoRowAhead' /\ RowsKept
  BY DEF RowInv, AmountOfRow, NoRowAhead, RowsKept
<1>4. ClimbsOnAnswer
  BY StaysOnTier DEF RowInv
<1>5. QED
  BY <1>1, <1>2, <1>3, <1>4 DEF RowInv

LEMMA BeginStep ==
  ASSUME RowInv, NEW c \in Callers, Begin(c)
  PROVE  RowInv' /\ RowsKept /\ ClimbsOnAnswer /\ day' = day
<1> DEFINE next == [Resting EXCEPT !.pc = "reserve"]
<1>1. next \in CallTypes
  BY RestingType DEF CallTypes
<1>2. next.pc = "reserve" /\ next.cost = 0 /\ next.tier = 1
  BY DEF Resting
<1>3. call' = [call EXCEPT ![c] = next] /\ usage' = usage /\ day' = day
  BY DEF Begin
<1> HIDE DEF next
<1>4. LeavesRequest(c, {call[c].tier})
  BY <1>1, <1>2, <1>3 DEF RowInv, GatewayTypes, LeavesRequest
<1>5. QED
  BY <1>3, <1>4, RowsUntouched

LEMMA RefusedStep ==
  ASSUME RowInv, NEW c \in Callers, Reserve(c), ~Admissible(c)
  PROVE  RowInv' /\ RowsKept /\ ClimbsOnAnswer /\ day' = day
<1>1. Returns(c) /\ usage' = usage /\ day' = day
  BY DEF Reserve
<1>2. QED
  BY <1>1, Returning, RowsUntouched DEF RowInv

LEMMA OwnRow ==
  ASSUME RowInv, NEW c \in Callers, call[c].pc \in {"generate", "settle"}
  PROVE  /\ call[c].row \in DOMAIN usage /\ usage[call[c].row] \in RowTypes
         /\ usage[call[c].row].caller = c /\ usage[call[c].row].tier = call[c].tier
         /\ usage[call[c].row].pending /\ usage[call[c].row].billed = call[c].cost
         /\ usage[call[c].row].amount = Maximum[call[c].tier]
BY DEF RowInv, GatewayTypes, HoldsItsRow, AmountOfRow

\* The bill of a request under way.
LEMMA Billing ==
  ASSUME RowInv, NEW c \in Callers, call[c].pc = "generate", NEW amount \in Nat, Bill(c, amount)
  PROVE  LET new == [usage[call[c].row] EXCEPT !.billed = amount]
         IN  /\ usage' = [usage EXCEPT ![call[c].row] = new]
             /\ new \in RowTypes /\ new.caller = c /\ new.tier = call[c].tier
             /\ new.day = usage[call[c].row].day
             /\ new.pending /\ new.billed = amount /\ new.amount = Maximum[new.tier]
<1> DEFINE old == usage[call[c].row]
           new == [old EXCEPT !.billed = amount]
<1>1. /\ call[c].row \in DOMAIN usage /\ old \in RowTypes /\ old.caller = c /\ old.tier = call[c].tier
      /\ old.pending /\ old.amount = Maximum[call[c].tier]
  BY OwnRow
<1>2. usage' = [usage EXCEPT ![call[c].row] = new]
  BY <1>1 DEF Bill
<1> HIDE DEF old
<1>3. /\ new \in RowTypes /\ new.caller = c /\ new.tier = call[c].tier /\ new.day = old.day
      /\ new.pending /\ new.billed = amount /\ new.amount = Maximum[new.tier]
  BY <1>1 DEF RowTypes
<1>4. QED
  BY <1>2, <1>3 DEF old

LEMMA AnsweredStep ==
  ASSUME RowInv, NEW c \in Callers, Answered(c)
  PROVE  RowInv' /\ RowsKept /\ ClimbsOnAnswer /\ day' = day
<1>1. PICK verdict \in Verdicts :
        LET cost == IF verdict = "overrun" THEN Estimate(c) + 1 ELSE Estimate(c) - 1
        IN  /\ Bill(c, cost)
            /\ call' = [call EXCEPT ![c].pc = "settle", ![c].verdict = verdict, ![c].cost = cost]
  BY DEF Answered
<1> DEFINE cost == IF verdict = "overrun" THEN Estimate(c) + 1 ELSE Estimate(c) - 1
           next == [call[c] EXCEPT !.pc = "settle", !.verdict = verdict, !.cost = cost]
           new == [usage[call[c].row] EXCEPT !.billed = cost]
<1>2. cost \in Nat
  BY TiersAreNumbers, Estimates DEF RowInv, Estimate
<1>3. call[c].pc = "generate" /\ day' = day /\ Bill(c, cost)
  BY <1>1 DEF Answered
<1>4. call[c] \in CallTypes /\ call \in [Callers -> CallTypes]
  BY DEF RowInv, GatewayTypes
<1>5. call' = [call EXCEPT ![c] = next]
  BY <1>1, <1>4
<1> HIDE DEF cost
<1>6. /\ next \in CallTypes /\ next.pc = "settle" /\ next.row = call[c].row
      /\ next.tier = call[c].tier /\ next.cost = cost
  BY <1>2, <1>4 DEF CallTypes
<1>7. /\ usage' = [usage EXCEPT ![call[c].row] = new]
      /\ new \in RowTypes /\ new.caller = c /\ new.tier = call[c].tier
      /\ new.day = usage[call[c].row].day
      /\ new.pending /\ new.billed = cost /\ new.amount = Maximum[new.tier]
  BY <1>2, <1>3, Billing
<1> HIDE DEF next, new
<1>8. /\ call' \in [Callers -> CallTypes] /\ call'[c] = next
      /\ \A d \in Callers : d # c => call'[d] = call[d]
  BY <1>4, <1>5, <1>6
<1>9. RowInv' /\ RowsKept
  BY <1>3, <1>6, <1>7, <1>8, RowReplaced
<1>10. ClimbsOnAnswer
  BY <1>6, <1>8, TiersAreNumbers DEF RowInv, ClimbsOnAnswer
<1>11. QED
  BY <1>3, <1>9, <1>10

LEMMA RejectedStep ==
  ASSUME RowInv, NEW c \in Callers, Rejected(c)
  PROVE  RowInv' /\ RowsKept /\ ClimbsOnAnswer /\ day' = day
<1>1. PICK retryable \in {"retry", "stop"} :
        call' = [call EXCEPT ![c].pc = "settle", ![c].verdict = retryable]
  BY DEF Rejected
<1> DEFINE next == [call[c] EXCEPT !.pc = "settle", !.verdict = retryable]
<1>2. call[c].pc = "generate" /\ day' = day /\ usage' = usage
  BY DEF Rejected
<1>3. call[c] \in CallTypes /\ call \in [Callers -> CallTypes]
  BY DEF RowInv, GatewayTypes
<1>4. call' = [call EXCEPT ![c] = next]
  BY <1>1, <1>3
<1>5. /\ next \in CallTypes /\ next.pc = "settle" /\ next.row = call[c].row
      /\ next.tier = call[c].tier /\ next.cost = call[c].cost
  BY <1>3 DEF CallTypes
<1> HIDE DEF next
<1>6. /\ call' \in [Callers -> CallTypes] /\ call'[c] = next
      /\ \A d \in Callers : d # c => call'[d] = call[d]
  BY <1>3, <1>4, <1>5
<1>7. GatewayTypes' /\ AmountOfRow' /\ NoRowAhead' /\ RowsKept
  BY <1>2, <1>6 DEF RowInv, GatewayTypes, AmountOfRow, NoRowAhead, RowsKept
<1>8. HoldsItsRow'
  BY <1>2, <1>5, <1>6 DEF RowInv, HoldsItsRow
<1>9. ClimbsOnAnswer
  BY <1>5, <1>6, TiersAreNumbers DEF RowInv, ClimbsOnAnswer
<1>10. QED
  BY <1>2, <1>7, <1>8, <1>9 DEF RowInv

\* The request of c is billed at its estimate, and nobody knows.
LEMMA BilledBlind ==
  ASSUME RowInv, NEW c \in Callers, call[c].pc = "generate", Bill(c, Estimate(c)), day' = day,
         LeavesRequest(c, {call[c].tier})
  PROVE  RowInv' /\ RowsKept /\ ClimbsOnAnswer
<1> DEFINE new == [usage[call[c].row] EXCEPT !.billed = Estimate(c)]
<1>1. Estimate(c) \in Nat
  BY TiersAreNumbers, Estimates DEF RowInv, Estimate
<1>2. /\ usage' = [usage EXCEPT ![call[c].row] = new]
      /\ new \in RowTypes /\ new.caller = c /\ new.tier = call[c].tier
      /\ new.day = usage[call[c].row].day
      /\ new.pending /\ new.amount = Maximum[new.tier]
  BY <1>1, Billing
<1> HIDE DEF new
<1>3. RowInv' /\ RowsKept
  BY <1>2, RowReplaced DEF LeavesRequest
<1>4. QED
  BY <1>3, StaysOnTier DEF RowInv

LEMMA AmbiguousStep ==
  ASSUME RowInv, NEW c \in Callers, Ambiguous(c)
  PROVE  RowInv' /\ RowsKept /\ ClimbsOnAnswer /\ day' = day
<1>1. call[c].pc = "generate" /\ Bill(c, Estimate(c)) /\ day' = day
  BY DEF Ambiguous
<1>2. LeavesRequest(c, {call[c].tier})
  BY Failing, Returning DEF Ambiguous, RowInv
<1>3. QED
  BY <1>1, <1>2, BilledBlind

LEMMA AbandonStep ==
  ASSUME RowInv, NEW c \in Callers, Abandon(c)
  PROVE  RowInv' /\ RowsKept /\ ClimbsOnAnswer /\ day' = day
<1>1. LeavesRequest(c, {call[c].tier}) /\ day' = day
  BY Returning DEF Abandon, RowInv
<1>2. CASE call[c].pc = "generate"
  BY <1>1, <1>2, BilledBlind DEF Abandon
<1>3. CASE call[c].pc # "generate"
  BY <1>1, <1>3, RowsUntouched DEF Abandon
<1>4. QED
  BY <1>1, <1>2, <1>3

LEMMA NextDayStep ==
  ASSUME RowInv, NextDay
  PROVE  RowInv' /\ RowsKept /\ ClimbsOnAnswer /\ usage' = usage /\ day' = day + 1 /\ day' \in Days
<1>1. usage' = usage /\ call' = call /\ day' = day + 1 /\ day' \in Days
  BY DEF NextDay
<1>2. GatewayTypes' /\ HoldsItsRow' /\ AmountOfRow' /\ RowsKept
  BY <1>1 DEF RowInv, GatewayTypes, HoldsItsRow, AmountOfRow, RowsKept
<1>3. ASSUME NEW r \in DOMAIN usage PROVE usage[r].day \in Nat
  BY RowTyped, DaysAre DEF RowInv, RowTypes
<1>4. day \in Nat
  BY DaysAre DEF RowInv, GatewayTypes
<1>5. NoRowAhead'
  BY <1>1, <1>3, <1>4 DEF RowInv, NoRowAhead
<1>6. ClimbsOnAnswer
  BY <1>1, TiersAreNumbers DEF RowInv, ClimbsOnAnswer
<1>7. QED
  BY <1>1, <1>2, <1>5, <1>6 DEF RowInv

LEMMA SettleStep ==
  ASSUME RowInv, NEW c \in Callers, Settle(c)
  PROVE  RowInv' /\ RowsKept /\ ClimbsOnAnswer /\ day' = day
<1> DEFINE i == call[c].row
           old == usage[i]
           answered == call[c].verdict \in Verdicts
           new == [old EXCEPT !.pending = FALSE, !.amount = call[c].cost, !.answered = answered]
<1>1. call[c].pc = "settle" /\ day' = day /\ Settled(c)
  BY DEF Settle
<1>2. /\ i \in DOMAIN usage /\ old \in RowTypes /\ old.caller = c /\ old.tier = call[c].tier
      /\ old.pending /\ old.billed = call[c].cost
  BY <1>1, OwnRow
<1>3. call[c].cost \in Nat /\ answered \in BOOLEAN
  BY DEF RowInv, GatewayTypes, CallTypes
<1>4. usage' = [usage EXCEPT ![i] = new]
  BY <1>1, <1>2 DEF Settled
<1> HIDE DEF old
<1>5. /\ new \in RowTypes /\ new.caller = c /\ new.tier = call[c].tier /\ new.day = old.day
      /\ ~new.pending /\ new.amount = new.billed /\ new.answered = answered
  BY <1>2, <1>3 DEF RowTypes
<1> HIDE DEF answered, new
<1>6. /\ LeavesRequest(c, {call[c].tier, call[c].tier + 1})
      /\ answered \/ LeavesRequest(c, {call[c].tier})
  <2>1. CASE call[c].verdict = "quality"
    BY <1>1, <2>1, Escalating DEF Settle, LeavesRequest, answered, Verdicts, RowInv
  <2>2. CASE call[c].verdict = "invalid"
    BY <1>1, <2>2, AskingForValid DEF Settle, answered, Verdicts, RowInv
  <2>3. CASE call[c].verdict = "retry"
    <3>1. LeavesRequest(c, {call[c].tier})
      BY <1>1, <2>3, Failing DEF Settle, RowInv
    <3>2. QED
      BY <3>1 DEF LeavesRequest
  <2>4. CASE call[c].verdict \notin {"quality", "invalid", "retry"}
    <3>1. Returns(c)
      BY <2>4 DEF Settle
    <3>2. QED
      BY <3>1, Returning DEF RowInv
  <2>5. QED
    BY <2>1, <2>2, <2>3, <2>4
<1>7. RowInv' /\ RowsKept
  BY <1>1, <1>2, <1>4, <1>5, <1>6, RowReplaced DEF LeavesRequest, old
<1>8. ClimbsOnAnswer
  <2>1. CASE ~answered
    BY <1>6, <2>1, StaysOnTier DEF RowInv
  <2>2. CASE answered
    <3> SUFFICES ASSUME NEW d \in Callers, ~(call'[d].tier <= call[d].tier)
                 PROVE  /\ call'[d].tier = call[d].tier + 1
                        /\ \E r \in DOMAIN usage' :
                             /\ usage'[r].caller = d /\ usage'[r].tier = call[d].tier
                             /\ usage'[r].answered /\ ~usage'[r].pending
      BY DEF ClimbsOnAnswer
    <3>1. d = c /\ call'[c].tier = call[c].tier + 1
      BY <1>6, TiersAreNumbers DEF LeavesRequest, RowInv
    <3>2. i \in DOMAIN usage' /\ usage'[i] = new
      BY <1>2, <1>4 DEF RowInv, GatewayTypes
    <3> HIDE DEF i
    <3>3. QED
      BY <1>5, <2>2, <3>1, <3>2
  <2>3. QED
    BY <2>1, <2>2
<1>9. QED
  BY <1>1, <1>7, <1>8

LEMMA AdmittedStep ==
  ASSUME RowInv, NEW c \in Callers, Reserve(c), Admissible(c)
  PROVE  /\ RowInv' /\ day' = day
         /\ \E new \in RowTypes :
              /\ usage' = Append(usage, new)
              /\ new.caller = c /\ new.day = day /\ new.pending /\ new.tier = call[c].tier
              /\ new.amount = Estimate(c)
         /\ \A d \in Callers : call'[d].tier = call[d].tier
<1> DEFINE new == [caller |-> c, tier |-> call[c].tier, day |-> day, amount |-> Estimate(c),
                   pending |-> TRUE, billed |-> 0, answered |-> FALSE]
           next == [call[c] EXCEPT !.pc = "generate", !.row = Len(usage'), !.requests = @ + 1]
<1>1. /\ usage' = Append(usage, new) /\ day' = day /\ call[c].pc = "reserve"
      /\ call' = [call EXCEPT ![c].pc = "generate", ![c].row = Len(usage'), ![c].requests = @ + 1]
  BY DEF Reserve
<1>2. usage \in Seq(RowTypes) /\ day \in Days /\ call \in [Callers -> CallTypes] /\ call[c] \in CallTypes
  BY DEF RowInv, GatewayTypes
<1>3. call[c].tier \in Tiers /\ Estimate(c) \in Nat /\ Estimate(c) = Maximum[call[c].tier]
  BY TiersAreNumbers, Estimates DEF RowInv, Estimate
<1>4. /\ new \in RowTypes /\ new.caller = c /\ new.day = day /\ new.pending /\ new.tier = call[c].tier
      /\ new.amount = Estimate(c) /\ new.billed = 0
  BY <1>2, <1>3 DEF RowTypes
<1> HIDE DEF new
<1>5. /\ usage' \in Seq(RowTypes) /\ Len(usage') = Len(usage) + 1 /\ Len(usage) \in Nat
      /\ DOMAIN usage = 1 .. Len(usage) /\ DOMAIN usage' = 1 .. Len(usage')
      /\ usage'[Len(usage')] = new
      /\ \A r \in DOMAIN usage : usage'[r] = usage[r]
  BY <1>1, <1>2, <1>4
<1>6. call' = [call EXCEPT ![c] = next]
  BY <1>1, <1>2
<1>7. call[c].requests + 1 \in Nat /\ Len(usage') \in Nat
  BY <1>2, <1>5 DEF CallTypes
<1>8. /\ next \in CallTypes /\ next.pc = "generate" /\ next.row = Len(usage')
      /\ next.tier = call[c].tier /\ next.cost = call[c].cost
  BY <1>2, <1>7 DEF CallTypes
<1> HIDE DEF next
<1>9. /\ call' \in [Callers -> CallTypes] /\ call'[c] = next
      /\ \A d \in Callers : d # c => call'[d] = call[d]
  BY <1>2, <1>6, <1>8
<1>10. GatewayTypes'
  BY <1>1, <1>2, <1>5, <1>9 DEF GatewayTypes
<1>11. HoldsItsRow'
  <2> SUFFICES ASSUME NEW d \in Callers
               PROVE  /\ call'[d].pc \in {"reserve", "generate"} => call'[d].cost = 0
                      /\ call'[d].pc \in {"generate", "settle"} =>
                           /\ call'[d].row \in DOMAIN usage'
                           /\ LET row == usage'[call'[d].row]
                              IN  /\ row.caller = d /\ row.tier = call'[d].tier /\ row.pending
                                  /\ row.billed = call'[d].cost
    BY DEF HoldsItsRow
  <2>1. CASE d = c
    <3>1. call[c].cost = 0
      BY <1>1 DEF RowInv, HoldsItsRow
    <3>2. Len(usage') \in DOMAIN usage'
      BY <1>5
    <3>3. QED
      BY <1>4, <1>5, <1>8, <1>9, <2>1, <3>1, <3>2
  <2>2. CASE d # c
    <3>1. call'[d] = call[d]
      BY <1>9, <2>2
    <3>2. DOMAIN usage \subseteq DOMAIN usage'
      BY <1>5
    <3>3. QED
      BY <1>5, <3>1, <3>2 DEF RowInv, HoldsItsRow
  <2>3. QED
    BY <2>1, <2>2
<1>12. \A r \in DOMAIN usage' : r \in DOMAIN usage \/ r = Len(usage')
  BY <1>5
<1>13. AmountOfRow'
  BY <1>3, <1>4, <1>5, <1>12 DEF RowInv, AmountOfRow
<1>14. day <= day
  BY <1>2, DaysAre
<1>15. NoRowAhead'
  BY <1>1, <1>4, <1>5, <1>12, <1>14 DEF RowInv, NoRowAhead
<1>16. \A d \in Callers : call'[d].tier = call[d].tier
  BY <1>8, <1>9
<1>17. QED
  BY <1>1, <1>4, <1>10, <1>11, <1>13, <1>15, <1>16 DEF RowInv

-----------------------------------------------------------------------------
(* Admission *)

Amounts == [r \in DOMAIN usage |-> usage[r].amount]
Capped == [r \in DOMAIN usage |-> Min({usage[r].billed, Maximum[usage[r].tier]})]

LEMMA RowsAreFinite ==
  ASSUME GatewayTypes, NEW S \in SUBSET DOMAIN usage
  PROVE  IsFiniteSet(S)
<1>1. DOMAIN usage = 1 .. Len(usage) /\ Len(usage) \in Int
  BY DEF GatewayTypes
<1>2. IsFiniteSet(1 .. Len(usage))
  BY <1>1, FS_Interval
<1>3. S \in SUBSET (1 .. Len(usage))
  BY <1>1
<1>4. QED
  BY <1>2, <1>3, FS_Subset

\* What Spent evaluates is the total of the amounts; likewise Billed, below.
LEMMA AmountsAdded ==
  ASSUME GatewayTypes, NEW S \in SUBSET DOMAIN usage
  PROVE  (CHOOSE g : g = [s \in SUBSET S |-> IF s = {} THEN 0
                                             ELSE usage[Pick(s)].amount + g[s \ {Pick(s)}]])[S]
           = Total(Amounts, S)
<1>1. IsFiniteSet(S)
  BY RowsAreFinite
<1> DEFINE Adds(g) == g = [s \in SUBSET S |-> IF s = {} THEN 0
                                              ELSE usage[Pick(s)].amount + g[s \ {Pick(s)}]]
<1>2. ASSUME NEW g PROVE Adds(g) <=> Sums(g, Amounts, S)
  <2> DEFINE left == [s \in SUBSET S |-> IF s = {} THEN 0
                                         ELSE usage[Pick(s)].amount + g[s \ {Pick(s)}]]
             right == [s \in SUBSET S |-> IF s = {} THEN 0 ELSE Amounts[Pick(s)] + g[s \ {Pick(s)}]]
  <2>1. \A s \in SUBSET S : left[s] = right[s]
    BY Picked DEF Amounts
  <2>2. left = right
    BY <2>1
  <2>3. QED
    BY <2>2 DEF Sums
<1>3. PICK h : Adds(h)
  BY <1>1, <1>2, SumsExist
<1>4. Adds(CHOOSE g : Adds(g))
  BY <1>3
<1>5. Sums(CHOOSE g : Adds(g), Amounts, S)
  BY <1>2, <1>4
<1>6. Total(Amounts, S) = (CHOOSE g : Adds(g))[S]
  BY <1>1, <1>5, AnySumIsTotal
<1>7. QED
  BY <1>6

\* What an admission has compared.
LEMMA AdmissibleMeans ==
  ASSUME GatewayTypes, NEW c \in Callers, Admissible(c)
  PROVE  /\ Total(Amounts, RowsOfTask(c)) + Estimate(c) <= TaskLimit[c]
         /\ Application[c] # None => Total(Amounts, RowsOfApplication(c)) + Estimate(c) <= AppLimit
         /\ Total(Amounts, OpenOrToday) + Estimate(c) <= DailyLimit
         /\ Total(Amounts, OpenOrThisMonth) + Estimate(c) <= MonthlyLimit
<1>1. Spent(LAMBDA row : row.caller = c) = Total(Amounts, RowsOfTask(c))
  BY AmountsAdded DEF Spent, MapThenSumSet, MapThenFoldSet, Pick, RowsOfTask
<1>2. Spent(LAMBDA row : SameApplication(row, c)) = Total(Amounts, RowsOfApplication(c))
  BY AmountsAdded DEF Spent, MapThenSumSet, MapThenFoldSet, Pick, RowsOfApplication
<1>3. Spent(LAMBDA row : row.pending \/ row.day >= day) = Total(Amounts, OpenOrToday)
  BY AmountsAdded DEF Spent, MapThenSumSet, MapThenFoldSet, Pick, OpenOrToday
<1>4. Spent(LAMBDA row : row.pending \/ MonthOf[row.day] >= MonthOf[day]) = Total(Amounts, OpenOrThisMonth)
  BY AmountsAdded DEF Spent, MapThenSumSet, MapThenFoldSet, Pick, OpenOrThisMonth
<1>5. QED
  BY <1>1, <1>2, <1>3, <1>4 DEF Admissible

-----------------------------------------------------------------------------
(* What the rows are charged with *)

LEMMA ChargeType ==
  ASSUME NEW row \in RowTypes
  PROVE  /\ Charge(row) \in Nat /\ Maximum[row.tier] \in Nat /\ row.billed \in Nat /\ row.amount \in Nat
         /\ Charge(row) <= Maximum[row.tier]
<1>1. Maximum[row.tier] \in Nat /\ row.billed \in Nat /\ row.amount \in Nat
  BY Estimates DEF RowTypes
<1>2. QED
  BY <1>1 DEF Charge, AtMost

LEMMA ChargeWithinAmount ==
  ASSUME RowInv, NEW r \in DOMAIN usage
  PROVE  /\ Charges[r] \in Nat /\ Amounts[r] \in Nat /\ Charges[r] <= Amounts[r]
         /\ Charges[r] = Charge(usage[r]) /\ Amounts[r] = usage[r].amount
<1>1. usage[r] \in RowTypes
  BY RowTyped DEF RowInv
<1>2. usage[r].amount = IF usage[r].pending THEN Maximum[usage[r].tier] ELSE usage[r].billed
  BY DEF RowInv, AmountOfRow
<1>3. Charges[r] = Charge(usage[r]) /\ Amounts[r] = usage[r].amount
  BY DEF Charges, Amounts
<1>4. Charge(usage[r]) <= usage[r].amount
  BY <1>1, <1>2, ChargeType DEF Charge, AtMost
<1>5. QED
  BY <1>1, <1>3, <1>4, ChargeType

LEMMA ChargesType ==
  ASSUME RowInv, NEW S \in SUBSET DOMAIN usage
  PROVE  IsFiniteSet(S) /\ Total(Charges, S) \in Nat /\ \A r \in S : Charges[r] \in Nat
<1>1. IsFiniteSet(S)
  BY RowsAreFinite DEF RowInv
<1>2. \A r \in S : Charges[r] \in Nat
  BY ChargeWithinAmount
<1>3. QED
  BY <1>1, <1>2, TotalType

\* A step that keeps the rows charges no row with more.
LEMMA ChargesFall ==
  ASSUME RowInv, RowInv', RowsKept, NEW r \in DOMAIN usage
  PROVE  Charges'[r] \in Nat /\ Charges[r] \in Nat /\ Charges'[r] <= Charges[r]
<1>1. usage[r] \in RowTypes /\ Charges[r] = Charge(usage[r]) /\ Charges[r] \in Nat
  BY RowTyped, ChargeWithinAmount DEF RowInv
<1>2. r \in DOMAIN usage'
  BY DEF RowsKept
<1>3. usage'[r] \in RowTypes
  BY <1>2 DEF RowInv, GatewayTypes
<1>4. Charges'[r] = Charge(usage'[r])
  BY <1>2 DEF Charges
<1>5. Charge(usage'[r]) \in Nat /\ Charge(usage'[r]) <= Maximum[usage'[r].tier]
  BY <1>3, ChargeType
<1>6. CASE usage[r].pending
  <2>1. Charge(usage[r]) = Maximum[usage'[r].tier]
    BY <1>6 DEF RowsKept, Charge
  <2>2. QED
    BY <1>1, <1>4, <1>5, <2>1
<1>7. CASE ~usage[r].pending
  <2>1. usage'[r] = usage[r]
    BY <1>7 DEF RowsKept
  <2>2. QED
    BY <1>1, <1>4, <2>1
<1>8. QED
  BY <1>6, <1>7

LEMMA TotalsFall ==
  ASSUME RowInv, RowInv', RowsKept, NEW S \in SUBSET DOMAIN usage, NEW T \in SUBSET S,
         NEW limit \in Nat, Total(Charges, S) <= limit
  PROVE  Total(Charges', T) <= limit
<1>1. IsFiniteSet(S) /\ IsFiniteSet(T) /\ Total(Charges, S) \in Nat /\ \A r \in S : Charges[r] \in Nat
  BY ChargesType
<1>2. \A r \in T : Charges'[r] \in Nat /\ Charges'[r] <= Charges[r]
  BY ChargesFall
<1>3. Total(Charges', T) <= Total(Charges, S)
  BY <1>1, <1>2, TotalMonotone
<1>4. Total(Charges', T) \in Nat
  BY <1>1, <1>2, TotalType
<1>5. QED
  BY <1>1, <1>3, <1>4

LEMMA LimitsType ==
  /\ \A c \in Callers : TaskLimit[c] \in Nat
  /\ AppLimit \in Nat /\ DailyLimit \in Nat /\ MonthlyLimit \in Nat
BY CeilingsAssumption

\* A step that keeps the rows keeps the ceilings.
LEMMA KeptWithinCeilings ==
  ASSUME RowInv, RowInv', RowsKept, ChargesWithinCeilings, day' \in Days, day' >= day
  PROVE  ChargesWithinCeilings'
<1> USE LimitsType
<1>1. ASSUME NEW c \in Callers
      PROVE  /\ Total(Charges', RowsOfTask(c)') <= TaskLimit[c]
             /\ Application[c] # None => Total(Charges', RowsOfApplication(c)') <= AppLimit
  <2>1. RowsOfTask(c) \in SUBSET DOMAIN usage /\ RowsOfTask(c)' \in SUBSET RowsOfTask(c)
    BY DEF RowsOfTask, RowsKept
  <2>2. RowsOfApplication(c) \in SUBSET DOMAIN usage /\ RowsOfApplication(c)' \in SUBSET RowsOfApplication(c)
    BY DEF RowsOfApplication, SameApplication, RowsKept
  <2>3. QED
    BY <2>1, <2>2, TotalsFall DEF ChargesWithinCeilings
<1>2. ASSUME NEW d \in Days PROVE Total(Charges', RowsOfDay(d)') <= DailyLimit
  <2>1. RowsOfDay(d) \in SUBSET DOMAIN usage /\ RowsOfDay(d)' \in SUBSET RowsOfDay(d)
    BY DEF RowsOfDay, RowsKept
  <2>2. QED
    BY <2>1, TotalsFall DEF ChargesWithinCeilings
<1>3. ASSUME NEW m \in {MonthOf[d] : d \in Days} PROVE Total(Charges', RowsOfMonth(m)') <= MonthlyLimit
  <2>1. RowsOfMonth(m) \in SUBSET DOMAIN usage /\ RowsOfMonth(m)' \in SUBSET RowsOfMonth(m)
    BY DEF RowsOfMonth, RowsKept
  <2>2. QED
    BY <2>1, TotalsFall DEF ChargesWithinCeilings
<1>4. \A r \in DOMAIN usage : usage'[r].pending => usage[r].pending
  BY DEF RowsKept
<1>5. \A r \in DOMAIN usage : usage[r].day \in Days
  BY RowTyped DEF RowInv, RowTypes
<1>6. day \in Days /\ \A d \in Days : d \in Nat /\ MonthOf[d] \in Nat
  BY DaysAre, Months DEF RowInv, GatewayTypes
<1>7. Total(Charges', OpenOrToday') <= DailyLimit
  <2>1. ASSUME NEW r \in DOMAIN usage, usage'[r].pending \/ usage'[r].day >= day'
        PROVE  usage[r].pending \/ usage[r].day >= day
    BY <1>4, <1>5, <1>6, <2>1 DEF RowsKept
  <2>2. OpenOrToday \in SUBSET DOMAIN usage /\ OpenOrToday' \in SUBSET OpenOrToday
    BY <2>1 DEF OpenOrToday, RowsKept
  <2>3. QED
    BY <2>2, TotalsFall DEF ChargesWithinCeilings
<1>8. Total(Charges', OpenOrThisMonth') <= MonthlyLimit
  <2>1. MonthOf[day] <= MonthOf[day']
    BY <1>6, CalendarAssumption
  <2>2. ASSUME NEW r \in DOMAIN usage, usage'[r].pending \/ MonthOf[usage'[r].day] >= MonthOf[day']
        PROVE  usage[r].pending \/ MonthOf[usage[r].day] >= MonthOf[day]
    BY <1>4, <1>5, <1>6, <2>1, <2>2 DEF RowsKept
  <2>3. OpenOrThisMonth \in SUBSET DOMAIN usage /\ OpenOrThisMonth' \in SUBSET OpenOrThisMonth
    BY <2>2 DEF OpenOrThisMonth, RowsKept
  <2>4. QED
    BY <2>3, TotalsFall DEF ChargesWithinCeilings
<1>9. QED
  BY <1>1, <1>2, <1>3, <1>7, <1>8 DEF ChargesWithinCeilings

\* The row that an admission adds, and those that were there.
Adds(new) == new \in RowTypes /\ new.pending /\ usage' = Append(usage, new)

LEMMA RowAdded ==
  ASSUME RowInv, NEW new, Adds(new)
  PROVE  /\ Len(usage') \in Nat /\ Len(usage') \notin DOMAIN usage
         /\ DOMAIN usage' = DOMAIN usage \cup {Len(usage')}
         /\ usage'[Len(usage')] = new
         /\ \A r \in DOMAIN usage : usage'[r] = usage[r]
         /\ Charges'[Len(usage')] = Maximum[new.tier]
         /\ \A r \in DOMAIN usage : Charges'[r] = Charges[r]
<1>1. usage \in Seq(RowTypes) /\ new \in RowTypes
  BY DEF RowInv, GatewayTypes, Adds
<1>2. Len(usage') = Len(usage) + 1 /\ Len(usage) \in Nat
  BY <1>1 DEF Adds
<1>3. DOMAIN usage' = 1 .. Len(usage') /\ DOMAIN usage = 1 .. Len(usage)
  BY <1>1 DEF Adds
<1>4. Len(usage') \in Nat /\ Len(usage') \notin DOMAIN usage
  BY <1>2, <1>3
<1>5. DOMAIN usage' = DOMAIN usage \cup {Len(usage')}
  BY <1>2, <1>3
<1>6. usage'[Len(usage')] = new /\ \A r \in DOMAIN usage : usage'[r] = usage[r]
  BY <1>1, <1>2, <1>3 DEF Adds
<1>7. Charges' = [r \in DOMAIN usage' |-> Charge(usage'[r])]
  BY DEF Charges
<1>8. Charges'[Len(usage')] = Maximum[new.tier]
  BY <1>5, <1>6, <1>7 DEF Charge, Adds
<1>9. \A r \in DOMAIN usage : Charges'[r] = Charges[r]
  BY <1>5, <1>6, <1>7 DEF Charges
<1>10. QED
  BY <1>4, <1>5, <1>6, <1>8, <1>9

\* A ceiling that admitted the row holds with it.
LEMMA TotalAdmitted ==
  ASSUME RowInv, NEW new, Adds(new), NEW S \in SUBSET DOMAIN usage,
         NEW T, T \subseteq S \cup {Len(usage')},
         NEW limit \in Nat, Total(Amounts, S) + Maximum[new.tier] <= limit
  PROVE  Total(Charges', T) <= limit
<1> DEFINE n == Len(usage')
           whole == S \cup {n}
<1>1. n \notin S /\ whole \ {n} = S
  BY RowAdded
<1>2. IsFiniteSet(S) /\ IsFiniteSet(whole) /\ IsFiniteSet(T)
  <2>1. IsFiniteSet(S)
    BY ChargesType
  <2>2. IsFiniteSet(whole)
    BY <2>1, FS_AddElement
  <2>3. QED
    BY <2>1, <2>2, FS_Subset
<1>3. Maximum[new.tier] \in Nat
  BY ChargeType DEF Adds
<1>4. \A r \in S : Charges'[r] \in Nat /\ Amounts[r] \in Nat /\ Charges'[r] <= Amounts[r]
  BY RowAdded, ChargeWithinAmount
<1>5. Charges'[n] = Maximum[new.tier]
  BY RowAdded
<1>6. \A r \in whole : Charges'[r] \in Nat /\ Charges'[r] <= Charges'[r]
  BY <1>3, <1>4, <1>5
<1> HIDE DEF n
<1>7. Total(Charges', whole) = Charges'[n] + Total(Charges', S)
  <2>1. n \in whole
    OBVIOUS
  <2> HIDE DEF whole
  <2>2. QED
    BY <1>1, <1>2, <1>6, <2>1, TotalWithout
<1>8. Total(Charges', S) <= Total(Amounts, S)
  BY <1>2, <1>4, TotalMonotone
<1>9. Total(Charges', T) <= Total(Charges', whole)
  <2>1. T \in SUBSET whole /\ \A r \in T : Charges'[r] \in Nat /\ Charges'[r] <= Charges'[r]
    BY <1>6 DEF n
  <2> HIDE DEF whole
  <2>2. QED
    BY <1>2, <1>6, <2>1, TotalMonotone
<1>10. Total(Charges', S) \in Nat /\ Total(Amounts, S) \in Nat /\ Total(Charges', T) \in Nat
  <2>1. \A r \in T : Charges'[r] \in Nat
    BY <1>6 DEF n
  <2>2. QED
    BY <1>2, <1>4, <2>1, TotalType
<1> HIDE DEF whole
<1>11. Total(Charges', whole) <= limit
  BY <1>3, <1>5, <1>7, <1>8, <1>10
<1>12. Total(Charges', whole) \in Nat
  BY <1>3, <1>5, <1>7, <1>10
<1>13. QED
  BY <1>9, <1>10, <1>11, <1>12

\* A ceiling over other rows does not notice.
LEMMA TotalOfOthers ==
  ASSUME RowInv, NEW new, Adds(new), NEW S \in SUBSET DOMAIN usage,
         NEW limit \in Nat, Total(Charges, S) <= limit
  PROVE  Total(Charges', S) <= limit
<1>1. IsFiniteSet(S) /\ Total(Charges, S) \in Nat /\ \A r \in S : Charges[r] \in Nat
  BY ChargesType
<1>2. \A r \in S : Charges'[r] \in Nat /\ Charges'[r] <= Charges[r]
  BY <1>1, RowAdded
<1>3. Total(Charges', S) <= Total(Charges, S) /\ Total(Charges', S) \in Nat
  BY <1>1, <1>2, TotalMonotone, TotalType
<1>4. QED
  BY <1>1, <1>3

\* An admission keeps all ceilings: those it has compared, and those of other
\* tasks, applications, days and months, whose rows it leaves alone.
LEMMA AdmittedWithinCeilings ==
  ASSUME RowInv, ChargesWithinCeilings, NEW c \in Callers, Admissible(c), day' = day,
         NEW new, Adds(new), new.caller = c, new.day = day, new.tier = call[c].tier
  PROVE  ChargesWithinCeilings'
<1> USE LimitsType
<1> DEFINE n == Len(usage')
<1>1. /\ Total(Amounts, RowsOfTask(c)) + Maximum[new.tier] <= TaskLimit[c]
      /\ Application[c] # None => Total(Amounts, RowsOfApplication(c)) + Maximum[new.tier] <= AppLimit
      /\ Total(Amounts, OpenOrToday) + Maximum[new.tier] <= DailyLimit
      /\ Total(Amounts, OpenOrThisMonth) + Maximum[new.tier] <= MonthlyLimit
  BY AdmissibleMeans DEF RowInv, Estimate
<1>2. /\ DOMAIN usage' = DOMAIN usage \cup {n} /\ usage'[n] = new
      /\ \A r \in DOMAIN usage : usage'[r] = usage[r]
  BY RowAdded
<1>3. ASSUME NEW t \in Callers PROVE Total(Charges', RowsOfTask(t)') <= TaskLimit[t]
  <2>1. CASE t = c
    <3>1. RowsOfTask(c) \in SUBSET DOMAIN usage /\ RowsOfTask(c)' \subseteq RowsOfTask(c) \cup {n}
      BY <1>2 DEF RowsOfTask
    <3>2. QED
      BY <1>1, <2>1, <3>1, TotalAdmitted
  <2>2. CASE t # c
    <3>1. RowsOfTask(t) \in SUBSET DOMAIN usage /\ RowsOfTask(t)' = RowsOfTask(t)
      BY <1>2, <2>2 DEF RowsOfTask
    <3>2. QED
      BY <3>1, TotalOfOthers DEF ChargesWithinCeilings
  <2>3. QED
    BY <2>1, <2>2
<1>4. ASSUME NEW t \in Callers, Application[t] # None
      PROVE  Total(Charges', RowsOfApplication(t)') <= AppLimit
  <2>1. CASE Application[t] = Application[c]
    <3>1. RowsOfApplication(c) \in SUBSET DOMAIN usage /\ RowsOfApplication(t)' \subseteq RowsOfApplication(c) \cup {n}
      BY <1>2, <2>1 DEF RowsOfApplication, SameApplication
    <3>2. QED
      BY <1>1, <1>4, <2>1, <3>1, TotalAdmitted
  <2>2. CASE Application[t] # Application[c]
    <3>1. RowsOfApplication(t) \in SUBSET DOMAIN usage /\ RowsOfApplication(t)' = RowsOfApplication(t)
      BY <1>2, <2>2 DEF RowsOfApplication, SameApplication
    <3>2. QED
      BY <1>4, <3>1, TotalOfOthers DEF ChargesWithinCeilings
  <2>3. QED
    BY <2>1, <2>2
<1>5. \A r \in DOMAIN usage : usage[r].day \in Days
  BY RowTyped DEF RowInv, RowTypes
<1>6. day \in Days /\ \A d \in Days : d \in Nat /\ MonthOf[d] \in Nat
  BY DaysAre, Months DEF RowInv, GatewayTypes
<1> HIDE DEF n
<1>7. day >= day /\ MonthOf[day] >= MonthOf[day]
  BY <1>6
<1>8. ASSUME NEW d \in Days PROVE Total(Charges', RowsOfDay(d)') <= DailyLimit
  <2>1. CASE d = day
    <3>1. OpenOrToday \in SUBSET DOMAIN usage /\ RowsOfDay(d)' \subseteq OpenOrToday \cup {n}
      BY <1>2, <1>7, <2>1 DEF RowsOfDay, OpenOrToday
    <3>2. QED
      BY <1>1, <3>1, TotalAdmitted DEF n
  <2>2. CASE d # day
    <3>1. RowsOfDay(d) \in SUBSET DOMAIN usage /\ RowsOfDay(d)' = RowsOfDay(d)
      BY <1>2, <2>2 DEF RowsOfDay
    <3>2. QED
      BY <3>1, TotalOfOthers DEF ChargesWithinCeilings
  <2>3. QED
    BY <2>1, <2>2
<1>9. ASSUME NEW m \in {MonthOf[d] : d \in Days} PROVE Total(Charges', RowsOfMonth(m)') <= MonthlyLimit
  <2>1. CASE m = MonthOf[day]
    <3>1. OpenOrThisMonth \in SUBSET DOMAIN usage /\ RowsOfMonth(m)' \subseteq OpenOrThisMonth \cup {n}
      BY <1>2, <1>7, <2>1 DEF RowsOfMonth, OpenOrThisMonth
    <3>2. QED
      BY <1>1, <3>1, TotalAdmitted DEF n
  <2>2. CASE m # MonthOf[day]
    <3>1. RowsOfMonth(m) \in SUBSET DOMAIN usage /\ RowsOfMonth(m)' = RowsOfMonth(m)
      BY <1>2, <2>2 DEF RowsOfMonth
    <3>2. QED
      BY <3>1, TotalOfOthers DEF ChargesWithinCeilings
  <2>3. QED
    BY <2>1, <2>2
<1>10. Total(Charges', OpenOrToday') <= DailyLimit
  <2>1. OpenOrToday \in SUBSET DOMAIN usage /\ OpenOrToday' \subseteq OpenOrToday \cup {n}
    BY <1>2 DEF OpenOrToday
  <2>2. QED
    BY <1>1, <2>1, TotalAdmitted DEF n
<1>11. Total(Charges', OpenOrThisMonth') <= MonthlyLimit
  <2>1. OpenOrThisMonth \in SUBSET DOMAIN usage /\ OpenOrThisMonth' \subseteq OpenOrThisMonth \cup {n}
    BY <1>2 DEF OpenOrThisMonth
  <2>2. QED
    BY <1>1, <2>1, TotalAdmitted DEF n
<1>12. QED
  BY <1>3, <1>4, <1>8, <1>9, <1>10, <1>11 DEF ChargesWithinCeilings

-----------------------------------------------------------------------------
(* The invariant *)

LEMMA GatewayInvInit == GatewayInit => GatewayInv
<1> SUFFICES ASSUME GatewayInit PROVE GatewayInv
  OBVIOUS
<1>1. usage = <<>> /\ DOMAIN usage = {} /\ day = 1 /\ \A c \in Callers : call[c] = Resting
  BY DEF GatewayInit
<1>2. GatewayTypes
  BY <1>1, RestingType, DaysAre DEF GatewayInit, GatewayTypes
<1>3. HoldsItsRow /\ AmountOfRow /\ NoRowAhead
  BY <1>1 DEF HoldsItsRow, AmountOfRow, NoRowAhead, Resting
<1>4. ASSUME NEW S \in SUBSET DOMAIN usage, NEW limit \in Nat PROVE Total(Charges, S) <= limit
  <2>1. S = {}
    BY <1>1
  <2>2. Total(Charges, S) = 0
    BY <2>1, TotalNone
  <2>3. QED
    BY <2>2
<1>5. ChargesWithinCeilings
  BY <1>1, <1>4, LimitsType
     DEF ChargesWithinCeilings, RowsOfTask, RowsOfApplication, RowsOfDay, RowsOfMonth,
         OpenOrToday, OpenOrThisMonth
<1>6. EscalatesOnAnswers
  BY <1>1 DEF EscalatesOnAnswers, Resting
<1>7. QED
  BY <1>2, <1>3, <1>5, <1>6 DEF GatewayInv, RowInv

LEMMA AnswersKept ==
  ASSUME RowInv, RowInv', RowsKept, ClimbsOnAnswer, EscalatesOnAnswers
  PROVE  EscalatesOnAnswers'
<1> SUFFICES ASSUME NEW c \in Callers, NEW k \in 1 .. call'[c].tier - 1
             PROVE  \E r \in DOMAIN usage' :
                      /\ usage'[r].caller = c /\ usage'[r].tier = k
                      /\ usage'[r].answered /\ ~usage'[r].pending
  BY DEF EscalatesOnAnswers
<1>1. call[c].tier \in Nat /\ call'[c].tier \in Nat
  <2>1. call[c].tier \in Tiers /\ call'[c].tier \in Tiers
    BY DEF RowInv, GatewayTypes, CallTypes
  <2>2. QED
    BY <2>1, TiersAre
<1>2. CASE k \in 1 .. call[c].tier - 1
  <2>1. PICK r \in DOMAIN usage :
          usage[r].caller = c /\ usage[r].tier = k /\ usage[r].answered /\ ~usage[r].pending
    BY <1>2 DEF EscalatesOnAnswers
  <2>2. usage'[r] = usage[r] /\ r \in DOMAIN usage'
    BY <2>1 DEF RowsKept
  <2>3. QED
    BY <2>1, <2>2
<1>3. CASE k \notin 1 .. call[c].tier - 1
  <2>1. ~(call'[c].tier <= call[c].tier)
    BY <1>1, <1>3
  <2>2. call'[c].tier = call[c].tier + 1
    BY <2>1 DEF ClimbsOnAnswer
  <2>3. k = call[c].tier
    BY <1>1, <1>3, <2>2
  <2>4. QED
    BY <2>1, <2>3 DEF ClimbsOnAnswer
<1>4. QED
  BY <1>2, <1>3

LEMMA GatewayInvNext == GatewayInv /\ [GatewayNext]_gatewayVars => GatewayInv'
<1> SUFFICES ASSUME GatewayInv, [GatewayNext]_gatewayVars PROVE GatewayInv'
  OBVIOUS
<1>1. RowInv /\ ChargesWithinCeilings /\ EscalatesOnAnswers /\ day \in Days
  BY DEF GatewayInv, RowInv, GatewayTypes
<1>2. ASSUME RowInv', RowsKept, ClimbsOnAnswer, day' \in {day, day + 1} PROVE GatewayInv'
  <2>1. day' \in Days /\ day' >= day
    BY <1>1, <1>2, DaysAre DEF RowInv, GatewayTypes
  <2>2. ChargesWithinCeilings'
    BY <1>1, <1>2, <2>1, KeptWithinCeilings
  <2>3. EscalatesOnAnswers'
    BY <1>1, <1>2, AnswersKept
  <2>4. QED
    BY <1>2, <2>2, <2>3 DEF GatewayInv
<1>3. CASE UNCHANGED gatewayVars
  <2>1. RowInv'
    BY <1>1, <1>3 DEF gatewayVars, RowInv, GatewayTypes, HoldsItsRow, AmountOfRow, NoRowAhead
  <2>2. RowsKept /\ day' = day
    BY <1>3 DEF gatewayVars, RowsKept
  <2>3. ClimbsOnAnswer
    BY <1>1, <1>3, TiersAreNumbers DEF gatewayVars, RowInv, ClimbsOnAnswer
  <2>4. QED
    BY <1>2, <2>1, <2>2, <2>3
<1>4. ASSUME NEW c \in Callers, Reserve(c), Admissible(c) PROVE GatewayInv'
  <2>1. PICK new \in RowTypes :
          /\ usage' = Append(usage, new)
          /\ new.caller = c /\ new.day = day /\ new.pending /\ new.tier = call[c].tier
          /\ new.amount = Estimate(c)
    BY <1>1, <1>4, AdmittedStep
  <2>2. RowInv' /\ day' = day /\ \A d \in Callers : call'[d].tier = call[d].tier
    BY <1>1, <1>4, AdmittedStep
  <2>3. Adds(new)
    BY <2>1 DEF Adds
  <2>4. ChargesWithinCeilings'
    BY <1>1, <1>4, <2>1, <2>2, <2>3, AdmittedWithinCeilings
  <2>5. \A r \in DOMAIN usage : r \in DOMAIN usage' /\ usage'[r] = usage[r]
    BY <1>1, <2>3, RowAdded
  <2>6. EscalatesOnAnswers'
    <3> SUFFICES ASSUME NEW d \in Callers, NEW k \in 1 .. call[d].tier - 1
                 PROVE  \E r \in DOMAIN usage' :
                          /\ usage'[r].caller = d /\ usage'[r].tier = k
                          /\ usage'[r].answered /\ ~usage'[r].pending
      BY <2>2 DEF EscalatesOnAnswers
    <3>1. PICK r \in DOMAIN usage :
            usage[r].caller = d /\ usage[r].tier = k /\ usage[r].answered /\ ~usage[r].pending
      BY <1>1 DEF EscalatesOnAnswers
    <3>2. QED
      BY <2>5, <3>1
  <2>7. QED
    BY <2>2, <2>4, <2>6 DEF GatewayInv
<1>5. ASSUME NEW c \in Callers, Reserve(c) PROVE GatewayInv'
  <2>1. CASE Admissible(c)
    BY <1>4, <1>5, <2>1
  <2>2. CASE ~Admissible(c)
    BY <1>1, <1>2, <1>5, <2>2, RefusedStep
  <2>3. QED
    BY <2>1, <2>2
<1>6. ASSUME NEW c \in Callers, Begin(c) PROVE GatewayInv'
  BY <1>1, <1>2, <1>6, BeginStep
<1>7. ASSUME NEW c \in Callers, Answered(c) PROVE GatewayInv'
  BY <1>1, <1>2, <1>7, AnsweredStep
<1>8. ASSUME NEW c \in Callers, Rejected(c) PROVE GatewayInv'
  BY <1>1, <1>2, <1>8, RejectedStep
<1>9. ASSUME NEW c \in Callers, Ambiguous(c) PROVE GatewayInv'
  BY <1>1, <1>2, <1>9, AmbiguousStep
<1>10. ASSUME NEW c \in Callers, Settle(c) PROVE GatewayInv'
  BY <1>1, <1>2, <1>10, SettleStep
<1>11. ASSUME NEW c \in Callers, Abandon(c) PROVE GatewayInv'
  BY <1>1, <1>2, <1>11, AbandonStep
<1>12. CASE NextDay
  BY <1>1, <1>2, <1>12, NextDayStep
<1>13. QED
  BY <1>3, <1>5, <1>6, <1>7, <1>8, <1>9, <1>10, <1>11, <1>12 DEF GatewayNext

-----------------------------------------------------------------------------
(* What was billed *)

LEMMA MinOf ==
  ASSUME NEW a \in Nat, NEW b \in Nat
  PROVE  Min({a, b}) = AtMost(a, b)
<1>1. AtMost(a, b) \in {a, b} /\ \A x \in {a, b} : AtMost(a, b) <= x
  BY DEF AtMost
<1>2. \A x \in {a, b} : (\A y \in {a, b} : x <= y) => x = AtMost(a, b)
  BY DEF AtMost
<1>3. QED
  BY <1>1, <1>2 DEF Min

LEMMA BillsAdded ==
  ASSUME GatewayTypes, NEW S \in SUBSET DOMAIN usage
  PROVE  (CHOOSE g : g = [s \in SUBSET S |->
                            IF s = {} THEN 0
                            ELSE Min({usage[Pick(s)].billed, Maximum[usage[Pick(s)].tier]}) + g[s \ {Pick(s)}]])[S]
           = Total(Capped, S)
<1>1. IsFiniteSet(S)
  BY RowsAreFinite
<1> DEFINE Sum(g) ==
      g = [s \in SUBSET S |->
             IF s = {} THEN 0
             ELSE Min({usage[Pick(s)].billed, Maximum[usage[Pick(s)].tier]}) + g[s \ {Pick(s)}]]
<1>2. ASSUME NEW g PROVE Sum(g) <=> Sums(g, Capped, S)
  <2> DEFINE left == [s \in SUBSET S |->
                        IF s = {} THEN 0
                        ELSE Min({usage[Pick(s)].billed, Maximum[usage[Pick(s)].tier]}) + g[s \ {Pick(s)}]]
             right == [s \in SUBSET S |-> IF s = {} THEN 0 ELSE Capped[Pick(s)] + g[s \ {Pick(s)}]]
  <2>1. \A s \in SUBSET S : left[s] = right[s]
    BY Picked DEF Capped
  <2>2. left = right
    BY <2>1
  <2>3. QED
    BY <2>2 DEF Sums
<1>3. PICK h : Sum(h)
  BY <1>1, <1>2, SumsExist
<1>4. Sum(CHOOSE g : Sum(g))
  BY <1>3
<1>5. Sums(CHOOSE g : Sum(g), Capped, S)
  BY <1>2, <1>4
<1>6. Total(Capped, S) = (CHOOSE g : Sum(g))[S]
  BY <1>1, <1>5, AnySumIsTotal
<1>7. QED
  BY <1>6

\* No row was billed for more than it is charged with.
LEMMA BilledWithinCharges ==
  ASSUME RowInv, NEW S \in SUBSET DOMAIN usage, NEW limit \in Nat, Total(Charges, S) <= limit
  PROVE  Total(Capped, S) <= limit
<1>1. IsFiniteSet(S) /\ Total(Charges, S) \in Nat /\ \A r \in S : Charges[r] \in Nat
  BY ChargesType
<1>2. ASSUME NEW r \in S PROVE Capped[r] \in Nat /\ Capped[r] <= Charges[r]
  <2>1. usage[r] \in RowTypes
    BY RowTyped DEF RowInv
  <2>2. Maximum[usage[r].tier] \in Nat /\ usage[r].billed \in Nat
    BY <2>1, ChargeType
  <2>3. Capped[r] = AtMost(usage[r].billed, Maximum[usage[r].tier])
    BY <2>2, MinOf DEF Capped
  <2>4. Charges[r] = Charge(usage[r])
    BY DEF Charges
  <2>5. QED
    BY <2>2, <2>3, <2>4 DEF Charge, AtMost
<1>3. Total(Capped, S) <= Total(Charges, S) /\ Total(Capped, S) \in Nat
  BY <1>1, <1>2, TotalMonotone, TotalType
<1>4. QED
  BY <1>1, <1>3

LEMMA WithinCeilings == GatewayInv => SpendingWithinCeilings
<1> SUFFICES ASSUME RowInv, ChargesWithinCeilings PROVE SpendingWithinCeilings
  BY DEF GatewayInv
<1> USE LimitsType
<1>1. GatewayTypes
  BY DEF RowInv
<1>2. ASSUME NEW c \in Callers
      PROVE  /\ Billed(LAMBDA row : row.caller = c) <= TaskLimit[c]
             /\ Application[c] # None => Billed(LAMBDA row : SameApplication(row, c)) <= AppLimit
  <2>1. Billed(LAMBDA row : row.caller = c) = Total(Capped, RowsOfTask(c))
    BY <1>1, BillsAdded DEF Billed, MapThenSumSet, MapThenFoldSet, Pick, RowsOfTask
  <2>2. Billed(LAMBDA row : SameApplication(row, c)) = Total(Capped, RowsOfApplication(c))
    BY <1>1, BillsAdded DEF Billed, MapThenSumSet, MapThenFoldSet, Pick, RowsOfApplication
  <2>3. RowsOfTask(c) \in SUBSET DOMAIN usage /\ RowsOfApplication(c) \in SUBSET DOMAIN usage
    BY DEF RowsOfTask, RowsOfApplication
  <2>4. QED
    BY <2>1, <2>2, <2>3, BilledWithinCharges DEF ChargesWithinCeilings
<1>3. ASSUME NEW d \in Days PROVE Billed(LAMBDA row : row.day = d) <= DailyLimit
  <2>1. Billed(LAMBDA row : row.day = d) = Total(Capped, RowsOfDay(d))
    BY <1>1, BillsAdded DEF Billed, MapThenSumSet, MapThenFoldSet, Pick, RowsOfDay
  <2>2. RowsOfDay(d) \in SUBSET DOMAIN usage
    BY DEF RowsOfDay
  <2>3. QED
    BY <2>1, <2>2, BilledWithinCharges DEF ChargesWithinCeilings
<1>4. ASSUME NEW m \in {MonthOf[d] : d \in Days}
      PROVE  Billed(LAMBDA row : MonthOf[row.day] = m) <= MonthlyLimit
  <2>1. Billed(LAMBDA row : MonthOf[row.day] = m) = Total(Capped, RowsOfMonth(m))
    BY <1>1, BillsAdded DEF Billed, MapThenSumSet, MapThenFoldSet, Pick, RowsOfMonth
  <2>2. RowsOfMonth(m) \in SUBSET DOMAIN usage
    BY DEF RowsOfMonth
  <2>3. QED
    BY <2>1, <2>2, BilledWithinCharges DEF ChargesWithinCeilings
<1>5. QED
  BY <1>2, <1>3, <1>4 DEF SpendingWithinCeilings

-----------------------------------------------------------------------------
(* What a step may never do *)

LEMMA NewRowKeepsOld ==
  ASSUME RowInv, NEW c \in Callers, Reserve(c), NEW r \in DOMAIN usage
  PROVE  r \in DOMAIN usage' /\ usage'[r] = usage[r]
<1>1. CASE Admissible(c)
  <2>1. PICK new \in RowTypes : usage' = Append(usage, new) /\ new.pending
    BY <1>1, AdmittedStep
  <2>2. Adds(new)
    BY <2>1 DEF Adds
  <2>3. QED
    BY <2>2, RowAdded
<1>2. CASE ~Admissible(c)
  BY <1>2 DEF Reserve
<1>3. QED
  BY <1>1, <1>2

\* settle refuses a row that is settled, and nothing else writes one.
SettledForGood ==
  \A r \in DOMAIN usage : ~usage[r].pending => r \in DOMAIN usage' /\ usage'[r] = usage[r]

LEMMA SettledStays == GatewayInv /\ [GatewayNext]_gatewayVars => SettledForGood
<1> SUFFICES ASSUME RowInv, [GatewayNext]_gatewayVars, NEW r \in DOMAIN usage, ~usage[r].pending
             PROVE  r \in DOMAIN usage' /\ usage'[r] = usage[r]
  BY DEF GatewayInv, SettledForGood
<1>1. ASSUME RowsKept PROVE r \in DOMAIN usage' /\ usage'[r] = usage[r]
  BY <1>1 DEF RowsKept
<1>2. CASE UNCHANGED gatewayVars
  BY <1>2 DEF gatewayVars
<1>3. ASSUME NEW c \in Callers, Reserve(c) PROVE r \in DOMAIN usage' /\ usage'[r] = usage[r]
  BY <1>3, NewRowKeepsOld
<1>4. ASSUME NEW c \in Callers,
             Begin(c) \/ Answered(c) \/ Rejected(c) \/ Ambiguous(c) \/ Settle(c) \/ Abandon(c)
      PROVE  RowsKept
  BY <1>4, BeginStep, AnsweredStep, RejectedStep, AmbiguousStep, SettleStep, AbandonStep
<1>5. CASE NextDay
  BY <1>1, <1>5, NextDayStep
<1>6. QED
  BY <1>1, <1>2, <1>3, <1>4, <1>5 DEF GatewayNext

\* The policy bounds the requests of a call.
RequestsWithinPolicy ==
  \A c \in Callers :
    /\ call[c].pc = "reserve" => call[c].requests < MaxRequests
    /\ call[c].pc \in {"generate", "settle"} => call[c].requests <= MaxRequests

\* What is left of a call: three steps for every request it may still make, and
\* those of the request under way.
Remaining(k) ==
  3 * (MaxRequests - k.requests) + CASE k.pc = "generate" -> 2 [] k.pc = "settle" -> 1 [] OTHER -> 0

CallShortens ==
  \A c \in Callers :
    call[c].pc # "rest" /\ call'[c] # call[c] =>
      call'[c].pc = "rest" \/ Remaining(call'[c]) < Remaining(call[c])

\* A caller that leaves its request returns, or has requests left.
LEMMA AsksWithinPolicy ==
  ASSUME GatewayTypes, NEW c \in Callers,
         TransportFailed(c) \/ Escalate(c) \/ Invalid(c) \/ Returns(c)
  PROVE  \/ call'[c].pc = "rest"
         \/ /\ call'[c].pc = "reserve" /\ call'[c].requests = call[c].requests
            /\ call[c].requests < MaxRequests
<1>1. call \in [Callers -> CallTypes] /\ call[c] \in CallTypes
  BY DEF GatewayTypes
<1>2. ASSUME NEW counter \in CallTypes, counter.requests = call[c].requests, NextRequest(c, counter)
      PROVE  \/ call'[c].pc = "rest"
             \/ /\ call'[c].pc = "reserve" /\ call'[c].requests = call[c].requests
                /\ call[c].requests < MaxRequests
  <2> DEFINE next == [counter EXCEPT !.pc = "reserve", !.verdict = "none", !.cost = 0]
  <2>1. next.pc = "reserve" /\ next.requests = counter.requests
    BY DEF CallTypes
  <2>2. call'[c] = IF counter.requests < MaxRequests THEN next ELSE Resting
    BY <1>1, <1>2 DEF NextRequest
  <2> HIDE DEF next
  <2>3. QED
    BY <1>2, <2>1, <2>2 DEF Resting
<1>3. ASSUME Returns(c) PROVE call'[c].pc = "rest"
  BY <1>1, <1>3 DEF Returns, Resting
<1>4. ASSUME TransportFailed(c), ~Returns(c)
      PROVE  \/ call'[c].pc = "rest"
             \/ /\ call'[c].pc = "reserve" /\ call'[c].requests = call[c].requests
                /\ call[c].requests < MaxRequests
  <2> DEFINE counter == [call[c] EXCEPT !.transportErrors = @ + 1]
  <2>1. counter \in CallTypes
    BY CountersType
  <2>2. NextRequest(c, counter) /\ counter.requests = call[c].requests
    BY <1>1, <1>4 DEF TransportFailed, CallTypes
  <2> HIDE DEF counter
  <2>3. QED
    BY <1>2, <2>1, <2>2
<1>5. ASSUME Escalate(c), ~Returns(c)
      PROVE  \/ call'[c].pc = "rest"
             \/ /\ call'[c].pc = "reserve" /\ call'[c].requests = call[c].requests
                /\ call[c].requests < MaxRequests
  <2> DEFINE counter == [call[c] EXCEPT !.tier = @ + 1, !.schemaErrors = 0, !.transportErrors = 0]
  <2>1. counter \in CallTypes /\ counter.requests = call[c].requests
    BY <1>1, <1>5 DEF Escalate, CallTypes
  <2>2. NextRequest(c, counter)
    BY <1>5 DEF Escalate
  <2> HIDE DEF counter
  <2>3. QED
    BY <1>2, <2>1, <2>2
<1>6. ASSUME Invalid(c), ~Escalate(c)
      PROVE  \/ call'[c].pc = "rest"
             \/ /\ call'[c].pc = "reserve" /\ call'[c].requests = call[c].requests
                /\ call[c].requests < MaxRequests
  <2> DEFINE counter == [call[c] EXCEPT !.schemaErrors = @ + 1]
  <2>1. counter \in CallTypes
    BY CountersType
  <2>2. NextRequest(c, counter) /\ counter.requests = call[c].requests
    BY <1>1, <1>6 DEF Invalid, CallTypes
  <2> HIDE DEF counter
  <2>3. QED
    BY <1>2, <2>1, <2>2
<1>7. QED
  BY <1>3, <1>4, <1>5, <1>6

\* The step of one caller: it returns, or goes on within the policy with less left.
GoesOn(c) ==
  /\ \A d \in Callers : d # c => call'[d] = call[d]
  /\ \/ call'[c].pc = "rest"
     \/ call[c].pc = "rest" /\ call'[c].pc = "reserve" /\ call'[c].requests = 0
     \/ /\ call[c].pc = "reserve" /\ call'[c].pc = "generate"
        /\ call'[c].requests = call[c].requests + 1
     \/ /\ call[c].pc = "generate" /\ call'[c].pc = "settle" /\ call'[c].requests = call[c].requests
     \/ /\ call[c].pc \in {"generate", "settle"} /\ call'[c].pc = "reserve"
        /\ call'[c].requests = call[c].requests /\ call[c].requests < MaxRequests

LEMMA CallersGoOn ==
  ASSUME GatewayTypes, NEW c \in Callers,
         \/ Begin(c) \/ Reserve(c) \/ Answered(c) \/ Rejected(c) \/ Ambiguous(c) \/ Settle(c) \/ Abandon(c)
  PROVE  GoesOn(c)
<1>1. call \in [Callers -> CallTypes] /\ call[c] \in CallTypes
  BY DEF GatewayTypes
<1>2. CASE Begin(c)
  BY <1>1, <1>2 DEF Begin, GoesOn, Resting
<1>3. CASE Reserve(c)
  BY <1>1, <1>3 DEF Reserve, GoesOn, Returns, Resting, CallTypes
<1>4. CASE Answered(c)
  <2>1. PICK verdict \in Verdicts, cost \in {Estimate(c) + 1, Estimate(c) - 1} :
          call' = [call EXCEPT ![c].pc = "settle", ![c].verdict = verdict, ![c].cost = cost]
    BY <1>4 DEF Answered
  <2>2. call[c].pc = "generate"
    BY <1>4 DEF Answered
  <2>3. QED
    BY <1>1, <2>1, <2>2 DEF GoesOn, CallTypes
<1>5. CASE Rejected(c)
  BY <1>1, <1>5 DEF Rejected, GoesOn, CallTypes
<1>6. ASSUME NEW tiers, LeavesRequest(c, tiers) PROVE \A d \in Callers : d # c => call'[d] = call[d]
  BY <1>6 DEF LeavesRequest
<1>7. CASE Ambiguous(c)
  <2>1. TransportFailed(c) \/ Returns(c)
    BY <1>7 DEF Ambiguous
  <2>2. \A d \in Callers : d # c => call'[d] = call[d]
    BY <1>6, <2>1, Failing, Returning
  <2>3. QED
    BY <1>7, <2>1, <2>2, AsksWithinPolicy DEF Ambiguous, GoesOn
<1>8. CASE Settle(c)
  <2>1. TransportFailed(c) \/ Escalate(c) \/ Invalid(c) \/ Returns(c)
    BY <1>8 DEF Settle
  <2>2. \A d \in Callers : d # c => call'[d] = call[d]
    BY <1>6, <2>1, Failing, Escalating, AskingForValid, Returning
  <2>3. call[c].pc = "settle"
    BY <1>8 DEF Settle
  <2>4. QED
    BY <2>1, <2>2, <2>3, AsksWithinPolicy DEF GoesOn
<1>9. CASE Abandon(c)
  BY <1>1, <1>9 DEF Abandon, GoesOn, Returns, Resting
<1>10. QED
  BY <1>2, <1>3, <1>4, <1>5, <1>7, <1>8, <1>9

LEMMA CallsGoOn ==
  ASSUME GatewayInv, RequestsWithinPolicy, [GatewayNext]_gatewayVars
  PROVE  RequestsWithinPolicy' /\ CallShortens
<1>1. MaxRequests \in Nat /\ MaxRequests >= 1
  BY PolicyAssumption
<1>2. \A c \in Callers : call[c].requests \in Nat
  BY DEF GatewayInv, RowInv, GatewayTypes, CallTypes
<1>3. ASSUME NEW c \in Callers, GoesOn(c) PROVE RequestsWithinPolicy' /\ CallShortens
  <2>1. RequestsWithinPolicy'
    <3> SUFFICES ASSUME NEW d \in Callers
                 PROVE  /\ call'[d].pc = "reserve" => call'[d].requests < MaxRequests
                        /\ call'[d].pc \in {"generate", "settle"} => call'[d].requests <= MaxRequests
      BY DEF RequestsWithinPolicy
    <3>1. CASE d = c
      BY <1>1, <1>2, <1>3, <3>1 DEF GoesOn, RequestsWithinPolicy
    <3>2. CASE d # c
      BY <1>3, <3>2 DEF GoesOn, RequestsWithinPolicy
    <3>3. QED
      BY <3>1, <3>2
  <2>2. ASSUME NEW d \in Callers, call[d].pc # "rest", call'[d] # call[d], call'[d].pc # "rest"
        PROVE  Remaining(call'[d]) < Remaining(call[d])
    <3>1. d = c
      BY <1>3, <2>2 DEF GoesOn
    <3>2. CASE call[c].pc = "reserve" /\ call'[c].pc = "generate" /\ call'[c].requests = call[c].requests + 1
      BY <1>1, <1>2, <3>1, <3>2 DEF Remaining
    <3>3. CASE call[c].pc = "generate" /\ call'[c].pc = "settle" /\ call'[c].requests = call[c].requests
      BY <1>1, <1>2, <3>1, <3>3 DEF Remaining
    <3>4. CASE /\ call[c].pc \in {"generate", "settle"} /\ call'[c].pc = "reserve"
               /\ call'[c].requests = call[c].requests
      BY <1>1, <1>2, <3>1, <3>4 DEF Remaining
    <3>5. QED
      BY <1>3, <2>2, <3>1, <3>2, <3>3, <3>4 DEF GoesOn
  <2>3. QED
    BY <2>1, <2>2 DEF CallShortens
<1>4. CASE UNCHANGED call
  BY <1>4 DEF RequestsWithinPolicy, CallShortens
<1>5. GatewayTypes
  BY DEF GatewayInv, RowInv
<1>6. CASE UNCHANGED gatewayVars
  BY <1>4, <1>6 DEF gatewayVars
<1>7. CASE NextDay
  BY <1>4, <1>7 DEF NextDay
<1>8. QED
  BY <1>3, <1>5, <1>6, <1>7, CallersGoOn DEF GatewayNext

-----------------------------------------------------------------------------
(* Theorems about ModelGateway *)

\* The strengthened invariant of the gateway: rows, callers and charges.
THEOREM GatewayInvariance == GatewaySpec => []GatewayInv
<1>1. QED
  BY GatewayInvInit, GatewayInvNext, PTL DEF GatewaySpec

\* Whatever callers run at once, answer, time out, overrun or die, and whichever
\* day their requests are settled on: what the provider bills, up to the estimate
\* of each request, stays within the ceilings of every task, application, day and
\* month (BudgetLedger.reserve and settle).
THEOREM SpendingIsBounded == GatewaySpec => []SpendingWithinCeilings
<1>1. QED
  BY GatewayInvariance, WithinCeilings, PTL

\* The same with everything that is reserved and not yet settled counted at its
\* estimate, whatever day it is from: the reason why a row that is pending counts
\* towards every day and month (BudgetLedger.reserve).
THEOREM OutstandingIsBounded == GatewaySpec => []ChargesWithinCeilings
<1>1. GatewayInv => ChargesWithinCeilings
  BY DEF GatewayInv
<1>2. QED
  BY <1>1, GatewayInvariance, PTL

\* A call asks a dearer tier only when it holds a settled answer of every cheaper
\* one; timeouts, refusals and crashes never lead there (ModelGateway.structured).
THEOREM EscalationIsPaidFor == GatewaySpec => []EscalatesOnAnswers
<1>1. GatewayInv => EscalatesOnAnswers
  BY DEF GatewayInv
<1>2. QED
  BY <1>1, GatewayInvariance, PTL

\* A row that is settled is never written again: neither its cost nor its day can
\* change after the ceilings were compared with it (BudgetLedger.settle).
THEOREM SettledOnce == GatewaySpec => [][SettledForGood]_gatewayVars
<1>1. GatewayInv /\ [GatewayNext]_gatewayVars => [SettledForGood]_gatewayVars
  BY SettledStays
<1>2. QED
  BY <1>1, GatewayInvariance, PTL DEF GatewaySpec

\* No call asks more often than the policy allows, and every step of a call leaves
\* it less to do: however the provider answers, the loop of structured ends unless
\* its caller stops stepping.
THEOREM CallsAreBounded == GatewaySpec => []RequestsWithinPolicy /\ [][CallShortens]_gatewayVars
<1>1. GatewayInit => RequestsWithinPolicy
  BY DEF GatewayInit, RequestsWithinPolicy, Resting
<1>2. /\ GatewayInv /\ RequestsWithinPolicy /\ [GatewayNext]_gatewayVars => RequestsWithinPolicy'
      /\ GatewayInv /\ RequestsWithinPolicy /\ [GatewayNext]_gatewayVars => [CallShortens]_gatewayVars
  BY CallsGoOn
<1>3. GatewaySpec => []RequestsWithinPolicy
  BY <1>1, <1>2, GatewayInvariance, PTL DEF GatewaySpec
<1>4. QED
  BY <1>2, <1>3, GatewayInvariance, PTL DEF GatewaySpec
=============================================================================
