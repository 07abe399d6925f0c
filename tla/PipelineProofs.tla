--------------------------- MODULE PipelineProofs ---------------------------
(***************************************************************************)
(* Proofs about Pipeline, for any links, pages, workers and faults: models *)
(* are asked once, jobs pass in time, and documents are published from the *)
(* sources that they were checked against.                                 *)
(*                                                                         *)
(* What an attempt works on is the memory of its task, and stays so while  *)
(* it owns the task; and a mark that is stored before a model is asked is  *)
(* never taken back without the answer, so that it stops every later       *)
(* attempt, even when the attempt that asks has lost its lease.            *)
(***************************************************************************)
EXTENDS Pipeline, TLAPS

Statuses == {"ABSENT", "READY", "ACTIVE", "WAITING_HUMAN", "WAITING_RETRY", "SUCCEEDED", "FAILED"}
Rows == [status : Statuses, owner : Workers \cup {Null}, spent : Nat]

-----------------------------------------------------------------------------
(* The invariant: qualification *)

Findings == [facts : Facts, at : BOOLEAN, started : BOOLEAN]
Reading == {"load", "start", "fetch"}
Having == {"store", "evaluate", "mark", "ask", "answered", "graph", "publish"}
QSteps == {"idle", "retrieve", "finish", "raise"} \cup Reading \cup Having
QLocals == [pc : QSteps, task : Tasks \cup {Null}, data : Findings \cup {NoData}]
QIn(w, steps) == qlocal[w].pc \in steps

QTypes ==
  /\ job \in [Jobs -> {"NONE", "NEW", "ACTIVE"} \cup Decided]
  /\ finding \in [Jobs -> Findings \cup {NoData}]
  /\ asked \in [Jobs -> Nat]
  /\ qlocal \in [Qualifiers -> QLocals]

\* A worker that reads or evaluates a page has a job to qualify.
QPlace(w) ==
  /\ QIn(w, Reading \cup Having) => \E j \in Jobs : qlocal[w].task = Qualify(j)
  /\ QIn(w, Having) => qlocal[w].data \in Findings
  /\ QIn(w, {"mark", "ask", "answered"}) => qlocal[w].data.started
QPlaces == \A w \in Qualifiers : QPlace(w)

\* What the owner of a job's task works on is what the task's memory holds.
QHold(w) ==
  QOwns(w) =>
    /\ QIn(w, {"start", "fetch", "store"}) => finding[Job(w)] = NoData
    /\ QIn(w, {"evaluate", "graph", "publish"}) => finding[Job(w)] = qlocal[w].data
    /\ QAt(w, "mark") => ~finding[Job(w)].started
QHolds == \A w \in Qualifiers : QHold(w)

\* A model is only asked behind the mark, by one attempt.
QAsks ==
  /\ \A j \in Jobs : asked[j] <= 1 /\ (~finding[j].started => asked[j] = 0)
  /\ \A w \in Qualifiers : QAt(w, "ask") => finding[Job(w)].started /\ asked[Job(w)] = 0
  /\ \A v, w \in Qualifiers : QAt(v, "ask") /\ QAt(w, "ask") /\ Job(v) = Job(w) => v = w

-----------------------------------------------------------------------------
(* The invariant: documents *)

Drafts == [sources : Nat, done : Seq(ModelOperations), pending : BOOLEAN, claims : Int, round : Nat,
           built : BOOLEAN]
DSteps == {"idle", "load", "start", "select", "model", "chosen", "generate", "check", "register",
           "finish", "review"}
DLocals == [pc : DSteps, task : Tasks \cup {Null}, data : Drafts, since : Nat]
DIn(w, steps) == dlocal[w].pc \in steps
Ops(t) == Operations[t[1]]

DTypes ==
  /\ sources \in Nat
  /\ snapshot \in [DocumentTasks -> Drafts]
  /\ published \in [DocumentTasks -> Nat]
  /\ planned \in [Steps -> Nat]
  /\ dlocal \in [Writers -> DLocals]
  /\ \A w \in Writers : ~DAt(w, "idle") => Document(w) \in DocumentTasks

\* What the owner of a document's task works on is what the task's memory holds.
DHold(w) ==
  DOwns(w) =>
    /\ DAt(w, "start") => snapshot[Document(w)] = NoDocument
    /\ DIn(w, {"select", "generate", "check", "register"}) => snapshot[Document(w)] = Data(w)
DHolds == \A w \in Writers : DHold(w)

\* A model is only asked behind the mark, by one attempt, for the next operation.
DAsk(w) ==
  DIn(w, {"model", "chosen"}) =>
    /\ snapshot[Document(w)].pending /\ snapshot[Document(w)].done = Data(w).done
    /\ ToDo(w)
    /\ DAt(w, "model") => planned[<<Document(w), Operation(w)>>] = 0
DAsks ==
  /\ \A w \in Writers : DAsk(w)
  /\ \A v, w \in Writers :
       DIn(v, {"model", "chosen"}) /\ DIn(w, {"model", "chosen"}) /\ Document(v) = Document(w) => v = w

\* The operations that are not done, nor marked, have not been asked for.
DPlanned ==
  /\ \A s \in Steps : planned[s] <= 1
  /\ \A t \in DocumentTasks : \A i \in 1 .. Len(Ops(t)) :
       LET n == Len(snapshot[t].done)
       IN  i > n + 1 \/ (i = n + 1 /\ ~snapshot[t].pending) => planned[<<t, Ops(t)[i]>>] = 0

\* A writer that may publish has seen sources that are no older than its attempt.
DSeen(w) ==
  /\ dlocal[w].since <= sources
  /\ DAt(w, "register") => Data(w).sources >= dlocal[w].since
DSince == \A w \in Writers : DSeen(w)

PipelineInv ==
  /\ task \in [Tasks -> Rows]
  /\ QTypes /\ QPlaces /\ QHolds /\ QAsks
  /\ DTypes /\ DHolds /\ DAsks /\ DPlanned /\ DSince

-----------------------------------------------------------------------------
(* Rows, and who owns them *)

\* Nobody comes to own a row.
NoNewOwner == \A t \in Tasks, w \in Workers : Fence(t, w)' => Fence(t, w)
RowsOK == task \in [Tasks -> Rows]

LEMMA EndsRow ==
  ASSUME RowsOK, NEW t, NEW status \in Statuses,
         task' = [task EXCEPT ![t] = Ended(@, status)]
  PROVE  RowsOK' /\ NoNewOwner
<1>1. CASE t \in Tasks
  <2>1. task[t] \in Rows
    BY <1>1 DEF RowsOK
  <2>2. Ended(task[t], status) \in Rows /\ Ended(task[t], status).owner = Null
    BY <2>1 DEF Rows, Ended
  <2>3. task' = [task EXCEPT ![t] = Ended(task[t], status)]
    OBVIOUS
  <2>4. RowsOK'
    BY <1>1, <2>2, <2>3 DEF RowsOK
  <2>5. \A s \in Tasks \ {t} : task'[s] = task[s]
    BY <2>3 DEF RowsOK
  <2>6. task'[t].owner = Null
    BY <1>1, <2>2, <2>3 DEF RowsOK
  <2>7. QED
    BY <2>4, <2>5, <2>6, NobodyAssumption DEF NoNewOwner, Fence
<1>2. CASE t \notin Tasks
  BY <1>2 DEF RowsOK, NoNewOwner, Fence
<1>3. QED
  BY <1>1, <1>2

LEMMA PublishesRow ==
  ASSUME RowsOK, NEW t, task' = [task EXCEPT ![t] = Published("READY")]
  PROVE  RowsOK' /\ NoNewOwner
<1>1. Published("READY") \in Rows /\ Published("READY").status = "READY"
  BY DEF Published, Absent, Rows, Statuses
<1>2. QED
  BY <1>1 DEF RowsOK, NoNewOwner, Fence

LEMMA ReadiesRow ==
  ASSUME RowsOK, NEW t, task' = [task EXCEPT ![t].status = "READY"]
  PROVE  RowsOK' /\ NoNewOwner
<1>1. CASE t \in Tasks
  <2> DEFINE new == [task[t] EXCEPT !.status = "READY"]
  <2>1. task[t] \in Rows
    BY <1>1 DEF RowsOK
  <2>2. new \in Rows /\ new.status = "READY"
    BY <2>1 DEF Rows, Statuses
  <2>3. task' = [task EXCEPT ![t] = new]
    OBVIOUS
  <2> HIDE DEF new
  <2>4. QED
    BY <1>1, <2>2, <2>3 DEF RowsOK, NoNewOwner, Fence
<1>2. CASE t \notin Tasks
  BY <1>2 DEF RowsOK, NoNewOwner, Fence
<1>3. QED
  BY <1>1, <1>2

LEMMA GrantsRow ==
  ASSUME RowsOK, NEW t \in Tasks, NEW w \in Workers, NEW again \in BOOLEAN,
         task' = [task EXCEPT ![t] = Granted(@, w, again)]
  PROVE  /\ RowsOK' /\ Fence(t, w)'
         /\ \A s \in Tasks, v \in Workers : Fence(s, v)' => Fence(s, v) \/ (s = t /\ v = w)
<1> DEFINE spent == IF again THEN task[t].spent ELSE task[t].spent + 1
           new == [task[t] EXCEPT !.status = "ACTIVE", !.owner = w, !.spent = spent]
<1>1. task[t] \in Rows /\ spent \in Nat
  BY DEF RowsOK, Rows
<1>2. task' = [task EXCEPT ![t] = new]
  BY DEF Granted
<1> HIDE DEF spent
<1>3. new \in Rows /\ new.status = "ACTIVE" /\ new.owner = w
  BY <1>1 DEF Rows, Statuses
<1> HIDE DEF new
<1>4. QED
  BY <1>2, <1>3 DEF RowsOK, Fence

LEMMA StaysRow ==
  ASSUME RowsOK, UNCHANGED task
  PROVE  RowsOK' /\ NoNewOwner
BY DEF RowsOK, NoNewOwner, Fence

\* How each action changes the rows.
LEMMA QualifierRows ==
  ASSUME RowsOK, NEW w \in Qualifiers,
         Qualification(w) \/ QualifierFails(w) \/ QualifierStops(w) \/ QualifierCrashes(w)
  PROVE  RowsOK' /\ NoNewOwner
<1>1. CASE Retrieve(w)
  <2> DEFINE named == Links(qlocal[w].task)
  <2>1. task' = [t \in Tasks |-> IF t \in {Qualify(j) : j \in named} /\ task[t].status = "ABSENT"
                                 THEN Published("READY") ELSE task[t]]
    BY <1>1 DEF Retrieve
  <2>2. Published("READY") \in Rows /\ Published("READY").status = "READY"
    BY DEF Published, Absent, Rows, Statuses
  <2>3. QED
    BY <2>1, <2>2 DEF RowsOK, NoNewOwner, Fence
<1>2. CASE PublishJob(w)
  <2>1. UNCHANGED task \/ task' = [task EXCEPT ![Resume(Job(w))] = Published("READY")]
    BY <1>2 DEF PublishJob
  <2>2. QED
    BY <2>1, StaysRow, PublishesRow
<1>3. CASE FinishQualifier(w) \/ QualifierRaises(w) \/ QualifierFails(w) \/ QualifierStops(w)
  <2>1. PICK status \in Statuses : task' = [task EXCEPT ![qlocal[w].task] = Ended(@, status)]
    BY <1>3
       DEF FinishQualifier, QualifierRaises, QualifierFails, QualifierStops, Released, Retried,
           Statuses
  <2>2. QED
    BY <2>1, EndsRow
<1>4. CASE \/ LoadFinding(w) \/ StartJob(w) \/ FetchPage(w) \/ Store(w) \/ Evaluate(w)
           \/ AskModel(w) \/ RunGraph(w) \/ QualifierLeaseLost(w) \/ QualifierCrashes(w)
  BY <1>4, StaysRow DEF LoadFinding, StartJob, FetchPage, Store, Evaluate, AskModel, RunGraph,
     QualifierLeaseLost, QualifierCrashes
<1>5. QED
  BY <1>1, <1>2, <1>3, <1>4 DEF Qualification

LEMMA WriterRows ==
  ASSUME RowsOK, NEW w \in Writers,
         Writing(w) \/ CompileFails(w) \/ DocumentFails(w) \/ WriterStops(w) \/ WriterCrashes(w)
  PROVE  RowsOK' /\ NoNewOwner
<1>1. CASE Register(w)
  <2>1. UNCHANGED task \/ \E t : task' = [task EXCEPT ![t] = Published("READY")]
    BY <1>1 DEF Register
  <2>2. QED
    BY <2>1, StaysRow, PublishesRow
<1>2. CASE FinishDocument(w) \/ AskReview(w)
  <2>1. PICK status \in Statuses : task' = [task EXCEPT ![Document(w)] = Ended(@, status)]
    BY <1>2 DEF FinishDocument, AskReview, Statuses
  <2>2. QED
    BY <2>1, EndsRow
<1>3. CASE DocumentFails(w) \/ WriterStops(w)
  <2>1. PICK status \in Statuses : task' = [task EXCEPT ![Document(w)] = Ended(@, status)]
    BY <1>3 DEF DocumentFails, WriterStops, Released, Retried, Statuses
  <2>2. QED
    BY <2>1, EndsRow
<1>4. CASE \/ LoadDocument(w) \/ StartDocument(w) \/ Plan(w) \/ AskPlanner(w) \/ SaveChoice(w)
           \/ Generate(w) \/ CheckSources(w) \/ CompileFails(w) \/ DocumentLeaseLost(w) \/ WriterCrashes(w)
  BY <1>4, StaysRow DEF LoadDocument, StartDocument, Plan, AskPlanner, SaveChoice, Generate,
     CheckSources, CompileFails, DocumentLeaseLost, WriterCrashes
<1>5. QED
  BY <1>1, <1>2, <1>3, <1>4 DEF Writing

LEMMA RecoveredRows ==
  ASSUME RowsOK, NEW t, RecoverTask(t) \/ task' = [task EXCEPT ![t] = Lapsed(@, t)]
  PROVE  RowsOK' /\ NoNewOwner
<1>1. CASE task' = [task EXCEPT ![t] = Lapsed(@, t)]
  <2>1. PICK status \in Statuses : task' = [task EXCEPT ![t] = Ended(@, status)]
    BY <1>1 DEF Lapsed, Statuses
  <2>2. QED
    BY <2>1, EndsRow
<1>2. CASE task' = [task EXCEPT ![t].status = "READY"]
  BY <1>2, ReadiesRow
<1>3. QED
  BY <1>1, <1>2 DEF RecoverTask

\* The steps that leave the workers alone.
Elsewhere ==
  \/ (\E j \in Jobs : HumanAnswers(j) \/ DeadlinePasses(j)) /\ UNCHANGED documentVars
  \/ \E t \in DocumentTasks : OperatorRetries(t)
  \/ SourcesChange
  \/ \E t \in Tasks : RecoverPipeline(t) \/ Outlives(t)

LEMMA ElsewhereRows ==
  ASSUME RowsOK, Elsewhere
  PROVE  RowsOK' /\ NoNewOwner
<1>1. ASSUME NEW t, RecoverPipeline(t) \/ Outlives(t)
      PROVE  RowsOK' /\ NoNewOwner
  BY <1>1, RecoveredRows DEF RecoverPipeline, Outlives
<1>2. ASSUME NEW t, task' = [task EXCEPT ![t].status = "READY"]
      PROVE  RowsOK' /\ NoNewOwner
  BY <1>2, ReadiesRow
<1>3. CASE UNCHANGED task
  BY <1>3, StaysRow
<1>4. CASE SourcesChange \/ \E j \in Jobs : DeadlinePasses(j)
  BY <1>3, <1>4 DEF SourcesChange, DeadlinePasses
<1>5. CASE \/ \E j \in Jobs : HumanAnswers(j)
           \/ \E t \in DocumentTasks : OperatorRetries(t)
  BY <1>2, <1>5 DEF HumanAnswers, OperatorRetries
<1>6. QED
  BY <1>1, <1>4, <1>5 DEF Elsewhere

LEMMA PipelineSteps ==
  ASSUME [PipelineNext]_pipelineVars
  PROVE  \/ UNCHANGED pipelineVars \/ Elsewhere
         \/ \E w \in Qualifiers :
              /\ UNCHANGED documentVars
              /\ \/ Qualification(w) \/ QualifierFails(w) \/ QualifierStops(w) \/ QualifierCrashes(w)
                 \/ \E t \in Tasks : ClaimQualifier(w, t)
         \/ \E w \in Writers : \/ Writing(w) \/ CompileFails(w) \/ DocumentFails(w) \/ WriterStops(w) \/ WriterCrashes(w)
                               \/ \E t \in Tasks : ClaimDocument(w, t)
BY Zenon DEF PipelineNext, QualificationNext, DocumentsNext, Elsewhere

-----------------------------------------------------------------------------
(* Qualification *)

QMoved(w) == qlocal' \in [Qualifiers -> QLocals] /\ \A v \in Qualifiers \ {w} : qlocal'[v] = qlocal[v]
QInv == QTypes /\ QPlaces /\ QHolds /\ QAsks

LEMMA QOwn ==
  ASSUME QTypes, NEW w \in Qualifiers
  PROVE  qlocal[w] \in QLocals /\ w \in Workers
BY QualifierAssumption DEF QTypes

LEMMA QMoves ==
  ASSUME QTypes, NEW w \in Qualifiers, NEW new \in QLocals, qlocal' = [qlocal EXCEPT ![w] = new]
  PROVE  QMoved(w) /\ qlocal'[w] = new
BY DEF QTypes, QMoved

LEMMA QGoes ==
  ASSUME QTypes, NEW w \in Qualifiers, NEW step \in QSteps, QGoto(w, step)
  PROVE  /\ QMoved(w) /\ qlocal'[w].pc = step
         /\ qlocal'[w].task = qlocal[w].task /\ qlocal'[w].data = qlocal[w].data
<1> DEFINE new == [qlocal[w] EXCEPT !.pc = step]
<1>1. qlocal[w] \in QLocals
  BY QOwn
<1>2. new \in QLocals /\ new.pc = step /\ new.task = qlocal[w].task /\ new.data = qlocal[w].data
  BY <1>1 DEF QLocals
<1>3. qlocal' = [qlocal EXCEPT ![w] = new]
  BY DEF QGoto
<1> HIDE DEF new
<1>4. QED
  BY <1>2, <1>3, QMoves

LEMMA QLeaves ==
  ASSUME QTypes, NEW w \in Qualifiers, QLeave(w)
  PROVE  QMoved(w) /\ qlocal'[w].pc = "idle"
<1>1. QIdle \in QLocals /\ QIdle.pc = "idle"
  BY DEF QIdle, QLocals, QSteps
<1>2. QED
  BY <1>1, QMoves DEF QLeave

LEMMA QStillOwns ==
  ASSUME QTypes, NoNewOwner, NEW v \in Qualifiers, qlocal'[v].task = qlocal[v].task, QOwns(v)'
  PROVE  QOwns(v)
<1>1. qlocal[v].task \in Tasks /\ v \in Workers
  BY QOwn DEF QLocals, QOwns
<1>2. PICK t \in Tasks : t = qlocal[v].task
  BY <1>1
<1>3. Fence(t, v)'
  BY <1>2 DEF QOwns
<1>4. QED
  BY <1>1, <1>2, <1>3 DEF NoNewOwner, QOwns

\* A step that leaves the memories alone.
LEMMA QKept ==
  ASSUME QInv, NEW w \in Qualifiers, QMoved(w), UNCHANGED <<finding, asked>>,
         ~QAt(w, "ask")', QPlace(w)', QHold(w)', \A v \in Qualifiers \ {w} : QOwns(v)' => QOwns(v)
  PROVE  QPlaces' /\ QHolds' /\ QAsks'
<1>1. QPlaces'
  BY DEF QInv, QPlaces, QPlace, QMoved, QIn
<1>2. QHolds'
  BY DEF QInv, QHolds, QHold, QMoved, QIn, QAt, Job
<1>3. QAsks'
  BY DEF QInv, QAsks, QMoved, QAt, Job
<1>4. QED
  BY <1>1, <1>2, <1>3

LEMMA QUntouched ==
  ASSUME QInv, UNCHANGED <<job, finding, asked, qlocal>>, \A w \in Qualifiers : QOwns(w)' => QOwns(w)
  PROVE  QInv'
<1>1. QTypes' /\ QPlaces' /\ QAsks'
  BY DEF QInv, QTypes, QPlaces, QPlace, QAsks, QIn, QAt, Job
<1>2. QHolds'
  BY DEF QInv, QHolds, QHold, QIn, QAt, Job
<1>3. QED
  BY <1>1, <1>2 DEF QInv

\* The job of a worker that reads or evaluates.
LEMMA QJob ==
  ASSUME QInv, NEW w \in Qualifiers, QIn(w, Reading \cup Having)
  PROVE  Job(w) \in Jobs /\ qlocal[w].task = Qualify(Job(w))
<1>1. PICK j \in Jobs : qlocal[w].task = Qualify(j)
  BY DEF QInv, QPlaces, QPlace
<1>2. QED
  BY <1>1 DEF Job, Qualify

LEMMA QClaims ==
  ASSUME QInv, RowsOK, NEW w \in Qualifiers, NEW t \in Tasks, ClaimQualifier(w, t)
  PROVE  QInv' /\ RowsOK' /\ \A s \in Tasks, v \in Workers : v # w /\ Fence(s, v)' => Fence(s, v)
<1>1. /\ t \in Intakes \cup {Qualify(j) : j \in Jobs}
      /\ qlocal' = [qlocal EXCEPT ![w] = [QIdle EXCEPT !.task = t,
                                            !.pc = IF t \in Intakes THEN "retrieve" ELSE "load"]]
      /\ task' = [task EXCEPT ![t] = Granted(@, w, t \in continues)]
      /\ UNCHANGED <<job, finding, asked>>
  BY DEF ClaimQualifier, jobVars, evidenceVars
<1>2. RowsOK' /\ \A s \in Tasks, v \in Workers : Fence(s, v)' => Fence(s, v) \/ (s = t /\ v = w)
  <2>1. (t \in continues) \in BOOLEAN /\ w \in Workers
    BY QualifierAssumption
  <2>2. QED
    BY <1>1, <2>1, GrantsRow
<1> DEFINE new == [QIdle EXCEPT !.task = t, !.pc = IF t \in Intakes THEN "retrieve" ELSE "load"]
<1>3. /\ new \in QLocals /\ new.pc = IF t \in Intakes THEN "retrieve" ELSE "load"
      /\ new.task = t
  BY DEF QIdle, QLocals, QSteps, Reading
<1>4. QMoved(w) /\ qlocal'[w] = new
  <2>1. qlocal' = [qlocal EXCEPT ![w] = new]
    BY <1>1
  <2> HIDE DEF new
  <2>2. QED
    BY <2>1, <1>3, QMoves DEF QInv
<1> HIDE DEF new
<1>5. QPlace(w)' /\ QHold(w)' /\ ~QAt(w, "ask")'
  BY <1>1, <1>3, <1>4 DEF QPlace, QHold, QIn, QAt, Reading, Having
<1>6. \A v \in Qualifiers \ {w} : QOwns(v)' => QOwns(v)
  <2> SUFFICES ASSUME NEW v \in Qualifiers \ {w}, QOwns(v)' PROVE QOwns(v)
    OBVIOUS
  <2>1. qlocal[v].task \in Tasks /\ v \in Workers /\ qlocal'[v].task = qlocal[v].task
    BY <1>4, QOwn DEF QMoved, QLocals, QOwns, QInv
  <2>2. PICK s \in Tasks : s = qlocal[v].task
    BY <2>1
  <2>3. Fence(s, v)'
    BY <2>1, <2>2 DEF QOwns
  <2>4. QED
    BY <1>2, <2>1, <2>2, <2>3 DEF QOwns
<1>7. QTypes'
  BY <1>1, <1>4 DEF QInv, QTypes, QMoved
<1>8. QED
  BY <1>1, <1>2, <1>4, <1>5, <1>6, <1>7, QKept DEF QInv

-----------------------------------------------------------------------------
(* The steps of an attempt at a job *)

LEMMA QOthersOwn ==
  ASSUME QInv, NoNewOwner, NEW w \in Qualifiers, QMoved(w)
  PROVE  \A v \in Qualifiers \ {w} : QOwns(v)' => QOwns(v)
BY QStillOwns DEF QInv, QMoved

\* Steps without evidence, and the ends of attempts.
LEMMA QRests ==
  ASSUME QInv, NoNewOwner, NEW w \in Qualifiers, QMoved(w), qlocal'[w].pc \in {"idle", "finish", "raise"},
         UNCHANGED <<finding, asked>>, job' \in [Jobs -> {"NONE", "NEW", "ACTIVE"} \cup Decided]
  PROVE  QInv'
<1>1. QPlace(w)' /\ QHold(w)' /\ ~QAt(w, "ask")'
  BY DEF QPlace, QHold, QIn, QAt, Reading, Having
<1>2. QTypes'
  BY DEF QInv, QTypes, QMoved
<1>3. QED
  BY <1>1, <1>2, QKept, QOthersOwn DEF QInv

\* Steps with evidence.
LEMMA QGoesOn ==
  ASSUME QInv, NoNewOwner, NEW w \in Qualifiers, QMoved(w), QPlace(w)', ~QAt(w, "ask")',
         qlocal'[w].task = qlocal[w].task, QOwns(w) => QHold(w)',
         UNCHANGED <<finding, asked>>, job' \in [Jobs -> {"NONE", "NEW", "ACTIVE"} \cup Decided]
  PROVE  QInv'
<1>1. QHold(w)'
  BY QStillOwns DEF QInv, QHold
<1>2. QTypes'
  BY DEF QInv, QTypes, QMoved
<1>3. QED
  BY <1>1, <1>2, QKept, QOthersOwn DEF QInv

LEMMA RetrieveStep ==
  ASSUME QInv, NoNewOwner, NEW w \in Qualifiers, Retrieve(w)
  PROVE  QInv'
<1>1. "finish" \in QSteps /\ UNCHANGED <<finding, asked>> /\ QTypes
  BY DEF QSteps, Retrieve, evidenceVars, QInv
<1>2. job' \in [Jobs -> {"NONE", "NEW", "ACTIVE"} \cup Decided]
  BY DEF Retrieve, QInv, QTypes
<1>3. QMoved(w) /\ qlocal'[w].pc = "finish"
  BY <1>1, QGoes DEF Retrieve
<1>4. QED
  BY <1>1, <1>2, <1>3, QRests

LEMMA LoadStep ==
  ASSUME QInv, NoNewOwner, NEW w \in Qualifiers, LoadFinding(w)
  PROVE  QInv'
<1>1. /\ QAt(w, "load") /\ UNCHANGED <<job, finding, asked>>
      /\ qlocal[w] \in QLocals
  BY QOwn DEF LoadFinding, jobVars, evidenceVars, QInv
<1>2. Job(w) \in Jobs /\ qlocal[w].task = Qualify(Job(w)) /\ finding[Job(w)] \in Findings \cup {NoData}
  BY <1>1, QJob DEF QAt, QIn, Reading, QInv, QTypes
<1>3. PICK j \in Jobs : j = Job(w)
  BY <1>2
<1>4. CASE finding[j] = NoData /\ QGoto(w, "start")
  <2>1. /\ QMoved(w) /\ qlocal'[w].pc = "start" /\ qlocal'[w].task = qlocal[w].task
    BY <1>4, QGoes DEF QInv, QSteps, Reading
  <2>2. QPlace(w)' /\ QHold(w)' /\ ~QAt(w, "ask")'
    BY <1>1, <1>2, <1>3, <1>4, <2>1 DEF QPlace, QHold, QIn, QAt, Having, Job
  <2>3. QED
    BY <1>1, <2>1, <2>2, QGoesOn DEF QInv, QTypes
<1>5. CASE finding[j] # NoData
           /\ qlocal' = [qlocal EXCEPT ![w].pc = "evaluate", ![w].data = finding[j]]
  <2> DEFINE new == [qlocal[w] EXCEPT !.pc = "evaluate", !.data = finding[j]]
  <2>1. finding[j] \in Findings
    BY <1>2, <1>3, <1>5
  <2>2. new \in QLocals /\ new.pc = "evaluate" /\ new.data = finding[j] /\ new.task = qlocal[w].task
    BY <1>1, <2>1 DEF QLocals, QSteps, Having
  <2>3. qlocal' = [qlocal EXCEPT ![w] = new]
    BY <1>5
  <2> HIDE DEF new
  <2>4. QMoved(w) /\ qlocal'[w] = new
    BY <2>2, <2>3, QMoves DEF QInv
  <2>5. QPlace(w)' /\ QHold(w)' /\ ~QAt(w, "ask")'
    BY <1>1, <1>2, <1>3, <2>1, <2>2, <2>4 DEF QPlace, QHold, QIn, QAt, Having, Job
  <2>6. QED
    BY <1>1, <2>2, <2>4, <2>5, QGoesOn DEF QInv, QTypes
<1>6. QED
  BY <1>3, <1>4, <1>5 DEF LoadFinding, QGoto

LEMMA StartJobStep ==
  ASSUME QInv, NoNewOwner, NEW w \in Qualifiers, StartJob(w)
  PROVE  QInv'
<1>1. /\ QAt(w, "start") /\ QOwns(w) /\ UNCHANGED <<finding, asked>>
  BY DEF StartJob, evidenceVars
<1>2. job' \in [Jobs -> {"NONE", "NEW", "ACTIVE"} \cup Decided]
  BY DEF StartJob, QInv, QTypes
<1>3. CASE QGoto(w, "raise")
  <2>1. QMoved(w) /\ qlocal'[w].pc = "raise"
    BY <1>3, QGoes DEF QSteps, QInv
  <2>2. QED
    BY <1>1, <1>2, <2>1, QRests
<1>4. CASE QGoto(w, "fetch")
  <2>1. /\ QMoved(w) /\ qlocal'[w].pc = "fetch" /\ qlocal'[w].task = qlocal[w].task
    BY <1>4, QGoes DEF QInv, QSteps, Reading
  <2>2. finding[Job(w)] = NoData /\ \E j \in Jobs : qlocal[w].task = Qualify(j)
    BY <1>1 DEF QInv, QHolds, QHold, QPlaces, QPlace, QIn, QAt, Reading
  <2>3. QPlace(w)' /\ QHold(w)' /\ ~QAt(w, "ask")'
    BY <1>1, <2>1, <2>2 DEF QPlace, QHold, QIn, QAt, Having, Job
  <2>4. QED
    BY <1>1, <1>2, <2>1, <2>3, QGoesOn
<1>5. QED
  BY <1>3, <1>4 DEF StartJob

LEMMA FetchStep ==
  ASSUME QInv, NoNewOwner, NEW w \in Qualifiers, FetchPage(w)
  PROVE  QInv'
<1>1. /\ QAt(w, "fetch") /\ UNCHANGED <<job, finding, asked>> /\ qlocal[w] \in QLocals
  BY QOwn DEF FetchPage, jobVars, evidenceVars, QInv
<1>2. Job(w) \in Jobs /\ qlocal[w].task = Qualify(Job(w))
  BY <1>1, QJob DEF QAt, QIn, Reading
<1>3. PICK facts \in Extracted(Job(w)) :
        qlocal' = [qlocal EXCEPT ![w].pc = "store",
                     ![w].data = [facts |-> facts, at |-> Job(w) \in late, started |-> FALSE]]
  BY DEF FetchPage
<1> DEFINE data == [facts |-> facts, at |-> Job(w) \in late, started |-> FALSE]
           new == [qlocal[w] EXCEPT !.pc = "store", !.data = data]
<1>4. data \in Findings
  <2>1. facts \in Facts
    BY <1>2, <1>3, PagesAssumption DEF Extracted
  <2>2. QED
    BY <2>1 DEF Findings
<1>5. qlocal' = [qlocal EXCEPT ![w] = new]
  BY <1>3
<1> HIDE DEF data
<1>6. new \in QLocals /\ new.pc = "store" /\ new.data = data /\ new.task = qlocal[w].task
  BY <1>1, <1>4 DEF QLocals, QSteps, Having
<1> HIDE DEF new
<1>7. QMoved(w) /\ qlocal'[w] = new
  BY <1>5, <1>6, QMoves DEF QInv
<1>8. QPlace(w)' /\ ~QAt(w, "ask")'
  BY <1>2, <1>4, <1>6, <1>7 DEF QPlace, QIn, QAt
<1>9. QOwns(w) => QHold(w)'
  <2>1. QOwns(w) => finding[Job(w)] = NoData
    BY <1>1 DEF QInv, QHolds, QHold, QIn, QAt
  <2>2. QED
    BY <1>1, <1>6, <1>7, <2>1 DEF QHold, QIn, QAt, Job
<1>10. QED
  BY <1>1, <1>6, <1>7, <1>8, <1>9, QGoesOn DEF QInv, QTypes

LEMMA EvaluateStep ==
  ASSUME QInv, NoNewOwner, NEW w \in Qualifiers, Evaluate(w)
  PROVE  QInv'
<1>1. /\ QAt(w, "evaluate") /\ UNCHANGED <<job, finding, asked>> /\ qlocal[w] \in QLocals
  BY QOwn DEF Evaluate, jobVars, evidenceVars, QInv
<1>2. /\ \E j \in Jobs : qlocal[w].task = Qualify(j)
      /\ qlocal[w].data \in Findings
      /\ QOwns(w) => finding[Job(w)] = qlocal[w].data
  BY <1>1 DEF QInv, QHolds, QHold, QPlaces, QPlace, QIn, QAt, Having
<1>3. CASE QGoto(w, "graph")
  <2>1. /\ QMoved(w) /\ qlocal'[w].pc = "graph" /\ qlocal'[w].task = qlocal[w].task
        /\ qlocal'[w].data = qlocal[w].data
    BY <1>3, QGoes DEF QInv, QSteps, Having
  <2>2. QPlace(w)' /\ ~QAt(w, "ask")' /\ (QOwns(w) => QHold(w)')
    BY <1>1, <1>2, <2>1 DEF QPlace, QHold, QIn, QAt, Job
  <2>3. QED
    BY <1>1, <2>1, <2>2, QGoesOn DEF QInv, QTypes
<1>4. CASE ~qlocal[w].data.started
           /\ qlocal' = [qlocal EXCEPT ![w].pc = "mark", ![w].data.started = TRUE]
  <2> DEFINE data == [qlocal[w].data EXCEPT !.started = TRUE]
             new == [qlocal[w] EXCEPT !.pc = "mark", !.data = data]
  <2>1. data \in Findings /\ data.started
    BY <1>2 DEF Findings
  <2>2. qlocal' = [qlocal EXCEPT ![w] = new]
    BY <1>4
  <2> HIDE DEF data
  <2>3. new \in QLocals /\ new.pc = "mark" /\ new.data = data /\ new.task = qlocal[w].task
    BY <1>1, <2>1 DEF QLocals, QSteps, Having
  <2> HIDE DEF new
  <2>4. QMoved(w) /\ qlocal'[w] = new
    BY <2>2, <2>3, QMoves DEF QInv
  <2>5. QPlace(w)' /\ ~QAt(w, "ask")' /\ (QOwns(w) => QHold(w)')
    BY <1>1, <1>2, <1>4, <2>1, <2>3, <2>4 DEF QPlace, QHold, QIn, QAt, Job
  <2>6. QED
    BY <1>1, <2>3, <2>4, <2>5, QGoesOn DEF QInv, QTypes
<1>5. QED
  BY <1>3, <1>4 DEF Evaluate, QGoto

LEMMA GraphStep ==
  ASSUME QInv, NoNewOwner, NEW w \in Qualifiers, RunGraph(w)
  PROVE  QInv'
<1>1. /\ QAt(w, "graph") /\ UNCHANGED <<job, finding, asked>>
  BY DEF RunGraph, jobVars
<1>2. /\ \E j \in Jobs : qlocal[w].task = Qualify(j)
      /\ qlocal[w].data \in Findings
      /\ QOwns(w) => finding[Job(w)] = qlocal[w].data
  BY <1>1 DEF QInv, QHolds, QHold, QPlaces, QPlace, QIn, QAt, Having
<1>3. /\ QMoved(w) /\ qlocal'[w].pc = "publish" /\ qlocal'[w].task = qlocal[w].task
      /\ qlocal'[w].data = qlocal[w].data
  BY QGoes DEF RunGraph, QInv, QSteps, Having
<1>4. QPlace(w)' /\ ~QAt(w, "ask")' /\ (QOwns(w) => QHold(w)')
  BY <1>1, <1>2, <1>3 DEF QPlace, QHold, QIn, QAt, Job
<1>5. QED
  BY <1>1, <1>3, <1>4, QGoesOn DEF QInv, QTypes

LEMMA PublishStep ==
  ASSUME QInv, NoNewOwner, NEW w \in Qualifiers, PublishJob(w)
  PROVE  QInv'
<1>1. "finish" \in QSteps /\ UNCHANGED <<finding, asked>> /\ QTypes
  BY DEF QSteps, PublishJob, evidenceVars, QInv
<1>2. job' \in [Jobs -> {"NONE", "NEW", "ACTIVE"} \cup Decided]
  <2>1. StatusOf(Outcome(qlocal[w].data.facts, Job(w) \in late)) \in Decided
    BY DEF StatusOf, Decided
  <2>2. QED
    BY <1>1, <2>1 DEF PublishJob, QTypes
<1>3. QMoved(w) /\ qlocal'[w].pc = "finish"
  BY <1>1, QGoes DEF PublishJob
<1>4. QED
  BY <1>1, <1>2, <1>3, QRests

LEMMA QEndStep ==
  ASSUME QInv, NoNewOwner, NEW w \in Qualifiers,
         FinishQualifier(w) \/ QualifierRaises(w) \/ QualifierLeaseLost(w) \/ QualifierFails(w) \/ QualifierStops(w)
           \/ QualifierCrashes(w)
  PROVE  QInv'
<1>1. QLeave(w) /\ UNCHANGED <<job, finding, asked>> /\ QTypes
  BY DEF FinishQualifier, QualifierRaises, QualifierLeaseLost, QualifierFails, QualifierStops,
     Released, QualifierCrashes,
         jobVars, evidenceVars, QInv
<1>2. QMoved(w) /\ qlocal'[w].pc = "idle"
  BY <1>1, QLeaves
<1>3. QED
  BY <1>1, <1>2, QRests DEF QTypes

\* Of the owners of the task, there is one.
LEMMA QAlone ==
  ASSUME QInv, NEW w \in Qualifiers, QOwns(w), NEW v \in Qualifiers \ {w}, QOwns(v),
         QIn(v, Reading \cup Having), QIn(w, Reading \cup Having)
  PROVE  Job(v) # Job(w)
<1>1. qlocal[v].task = Qualify(Job(v)) /\ qlocal[w].task = Qualify(Job(w))
  BY QJob
<1>2. QED
  BY <1>1 DEF QOwns, Fence

\* What the owner works on becomes the memory of its task.
LEMMA StoreStep ==
  ASSUME QInv, NoNewOwner, NEW w \in Qualifiers, Store(w)
  PROVE  QInv'
<1>1. /\ QOwns(w) /\ UNCHANGED <<job, asked>> /\ QIn(w, Having) /\ QTypes
      /\ qlocal[w] \in QLocals /\ qlocal[w].data \in Findings
      /\ finding' = [finding EXCEPT ![Job(w)] = qlocal[w].data]
  BY QOwn DEF Store, jobVars, QAt, QIn, Having, QInv, QPlaces, QPlace
<1>2. Job(w) \in Jobs /\ qlocal[w].task = Qualify(Job(w))
  BY <1>1, QJob DEF QIn
<1>3. PICK j \in Jobs : j = Job(w)
  BY <1>2
<1>4. PICK data \in Findings : data = qlocal[w].data
  BY <1>1
<1>5. /\ finding' \in [Jobs -> Findings \cup {NoData}] /\ finding'[j] = data
      /\ \A i \in Jobs \ {j} : finding'[i] = finding[i]
  BY <1>1, <1>3, <1>4 DEF QTypes
<1>6. PICK step \in {"evaluate", "ask", "graph"} :
        /\ QMoved(w) /\ qlocal'[w].pc = step /\ qlocal'[w].task = qlocal[w].task
        /\ qlocal'[w].data = qlocal[w].data
        /\ \/ QAt(w, "store") /\ step = "evaluate"
           \/ QAt(w, "mark") /\ step = "ask"
           \/ QAt(w, "answered") /\ step = "graph"
  <2>1. PICK step \in {"evaluate", "ask", "graph"} :
          /\ QGoto(w, step)
          /\ \/ QAt(w, "store") /\ step = "evaluate"
             \/ QAt(w, "mark") /\ step = "ask"
             \/ QAt(w, "answered") /\ step = "graph"
    BY DEF Store
  <2>2. step \in QSteps
    BY DEF QSteps, Having
  <2>3. QED
    BY <1>1, <2>1, <2>2, QGoes
<1>7. Job(w)' = j /\ qlocal'[w].data = data /\ QPlace(w)'
  <2>1. QPlace(w)
    BY DEF QInv, QPlaces
  <2>2. QED
    BY <1>1, <1>2, <1>3, <1>4, <1>6, <2>1 DEF Job, QPlace, QIn, QAt, Having, Reading
<1>8. QTypes' /\ QPlaces'
  BY <1>1, <1>5, <1>6, <1>7 DEF QTypes, QInv, QPlaces, QPlace, QIn, QMoved
<1>9. QHolds'
  <2> SUFFICES ASSUME NEW v \in Qualifiers, QOwns(v)' PROVE QHold(v)'
    BY DEF QHolds, QHold
  <2>1. CASE v = w
    BY <1>5, <1>6, <1>7, <2>1 DEF QHold, QIn, QAt
  <2>2. CASE v # w
    <3>1. qlocal'[v] = qlocal[v] /\ QOwns(v) /\ QHold(v)
      BY <1>6, <2>2, QOthersOwn DEF QMoved, QInv, QHolds
    <3>2. CASE QIn(v, Reading \cup Having)
      <4>1. Job(v) # j /\ Job(v) \in Jobs
        BY <1>1, <1>3, <2>2, <3>1, <3>2, QAlone, QJob DEF QIn
      <4>2. PICK i \in Jobs \ {j} : i = Job(v)
        BY <4>1
      <4>3. Job(v)' = i
        BY <3>1, <4>2 DEF Job
      <4>4. finding'[i] = finding[i]
        BY <1>5
      <4>5. QED
        BY <3>1, <4>2, <4>3, <4>4 DEF QHold, QIn, QAt
    <3>3. CASE ~QIn(v, Reading \cup Having)
      BY <3>1, <3>3 DEF QHold, QIn, QAt, Reading, Having
    <3>4. QED
      BY <3>2, <3>3
  <2>3. QED
    BY <2>1, <2>2
\* Where nothing was marked, no model was asked, nor is one being asked.
<1>10. /\ QAt(w, "store") \/ QAt(w, "mark") => ~finding[j].started
       /\ ~QAt(w, "store") => data.started
  <2>1. QAt(w, "store") => finding[j] = NoData
    BY <1>1, <1>3 DEF QInv, QHolds, QHold, QIn, QAt
  <2>2. QAt(w, "mark") => ~finding[j].started
    BY <1>1, <1>3 DEF QInv, QHolds, QHold
  <2>3. ~QAt(w, "store") => qlocal[w].data.started
    BY <1>6 DEF QInv, QPlaces, QPlace, QIn, QAt
  <2>4. QED
    BY <1>4, <2>1, <2>2, <2>3 DEF NoData
<1>11. QAsks'
  <2>1. ASSUME NEW i \in Jobs PROVE asked'[i] <= 1 /\ (~finding'[i].started => asked'[i] = 0)
    BY <1>1, <1>5, <1>6, <1>10 DEF QInv, QAsks
  <2>2. ASSUME NEW v \in Qualifiers, QAt(v, "ask"), qlocal'[v] = qlocal[v]
        PROVE  /\ finding'[Job(v)'].started /\ asked'[Job(v)'] = 0
               /\ QAt(w, "ask")' => Job(v)' # j
    <3>1. finding[Job(v)].started /\ asked[Job(v)] = 0
      BY <2>2 DEF QInv, QAsks
    <3>2. PICK i \in Jobs : i = Job(v)
      BY <2>2, QJob DEF QIn, QAt, Having
    <3>3. Job(v)' = i
      BY <2>2, <3>2 DEF Job
    <3>4. QAt(w, "ask")' => QAt(w, "mark")
      BY <1>6 DEF QAt
    <3>5. QAt(w, "mark") \/ QAt(w, "store") => i # j
      BY <1>10, <3>1, <3>2
    <3>6. finding'[i].started
      BY <1>5, <1>10, <3>1, <3>2, <3>5
    <3>7. QED
      BY <1>1, <3>1, <3>2, <3>3, <3>4, <3>5, <3>6
  <2>3. QAt(w, "ask")' => finding'[j].started /\ asked'[j] = 0
    <3>1. QAt(w, "ask")' => QAt(w, "mark")
      BY <1>6 DEF QAt
    <3>2. ~finding[j].started => asked[j] = 0
      BY DEF QInv, QAsks
    <3>3. QED
      BY <1>1, <1>5, <1>10, <3>1, <3>2 DEF QAt
  <2>4. \A v \in Qualifiers : QAt(v, "ask")' => v = w \/ (QAt(v, "ask") /\ qlocal'[v] = qlocal[v])
    BY <1>6 DEF QMoved, QAt
  <2>5. \A v \in Qualifiers : QAt(v, "ask")' => (finding[Job(v)].started /\ asked[Job(v)] = 0)'
    BY <1>7, <2>2, <2>3, <2>4
  <2>6. ASSUME NEW u \in Qualifiers, NEW v \in Qualifiers, QAt(u, "ask")', QAt(v, "ask")', Job(u)' = Job(v)'
        PROVE  u = v
    <3>1. CASE u = w \/ v = w
      BY <1>7, <2>2, <2>4, <2>6, <3>1
    <3>2. CASE u # w /\ v # w
      <4>1. QAt(u, "ask") /\ QAt(v, "ask") /\ Job(u) = Job(v)
        BY <2>4, <2>6, <3>2 DEF Job
      <4>2. QED
        BY <4>1 DEF QInv, QAsks
    <3>3. QED
      BY <3>1, <3>2
  <2>7. QED
    BY <2>1, <2>5, <2>6 DEF QAsks
<1>12. QED
  BY <1>8, <1>9, <1>11 DEF QInv

\* The answer, of a worker that may have lost its lease.
LEMMA AskStep ==
  ASSUME QInv, NoNewOwner, NEW w \in Qualifiers, AskModel(w)
  PROVE  QInv'
<1>1. /\ QAt(w, "ask") /\ UNCHANGED <<job, finding>> /\ QTypes /\ qlocal[w] \in QLocals
      /\ qlocal[w].data \in Findings /\ qlocal[w].data.started
  BY QOwn DEF AskModel, jobVars, QInv, QAt, QIn, Having, QPlaces, QPlace
<1>2. Job(w) \in Jobs /\ qlocal[w].task = Qualify(Job(w))
  BY <1>1, QJob DEF QAt, QIn, Having
<1>3. PICK j \in Jobs : j = Job(w)
  BY <1>2
<1>4. PICK meaning \in Verdicts :
        qlocal' = [qlocal EXCEPT ![w].pc = "answered", ![w].data.facts.meaning = meaning]
  BY DEF AskModel, Verdicts
<1> DEFINE facts == [qlocal[w].data.facts EXCEPT !.meaning = meaning]
           data == [qlocal[w].data EXCEPT !.facts = facts]
           new == [qlocal[w] EXCEPT !.pc = "answered", !.data = data]
<1>5. qlocal' = [qlocal EXCEPT ![w] = new]
  BY <1>4
<1>6. facts \in Facts
  <2>1. qlocal[w].data.facts \in Facts
    BY <1>1 DEF Findings
  <2>2. QED
    BY <2>1 DEF Facts
<1> HIDE DEF facts
<1>7. data \in Findings /\ data.started
  BY <1>1, <1>6 DEF Findings
<1> HIDE DEF data
<1>8. new \in QLocals /\ new.pc = "answered" /\ new.data = data /\ new.task = qlocal[w].task
  BY <1>1, <1>7 DEF QLocals, QSteps, Having
<1> HIDE DEF new
<1>9. QMoved(w) /\ qlocal'[w] = new
  BY <1>1, <1>5, <1>8, QMoves
<1>10. /\ asked[j] = 0 /\ finding[j].started /\ asked' \in [Jobs -> Nat] /\ asked'[j] = 1
       /\ \A i \in Jobs \ {j} : asked'[i] = asked[i]
  <2>1. asked[j] = 0 /\ finding[j].started
    BY <1>1, <1>3 DEF QInv, QAsks
  <2>2. asked' = [asked EXCEPT ![j] = asked[j] + 1]
    BY <1>3 DEF AskModel
  <2>3. QED
    BY <1>1, <2>1, <2>2 DEF QTypes
<1>11. QTypes' /\ QPlaces'
  <2>1. QPlace(w)'
    BY <1>2, <1>7, <1>8, <1>9 DEF QPlace, QIn
  <2>2. QED
    BY <1>1, <1>9, <1>10, <2>1 DEF QTypes, QInv, QPlaces, QPlace, QIn, QMoved
<1>12. QHolds'
  <2>1. QHold(w)'
    BY <1>8, <1>9 DEF QHold, QIn, QAt
  <2>2. \A v \in Qualifiers \ {w} : QHold(v)'
    BY <1>1, <1>9, QOthersOwn DEF QInv, QHolds, QHold, QIn, QAt, Job, QMoved
  <2>3. QED
    BY <2>1, <2>2 DEF QHolds
<1>13. QAsks'
  <2>1. ASSUME NEW i \in Jobs PROVE asked'[i] <= 1 /\ (~finding'[i].started => asked'[i] = 0)
    BY <1>1, <1>10 DEF QInv, QAsks
  <2>2. ASSUME NEW v \in Qualifiers, QAt(v, "ask")'
        PROVE  /\ v # w /\ QAt(v, "ask") /\ Job(v)' = Job(v)
               /\ finding'[Job(v)'].started /\ asked'[Job(v)'] = 0
    <3>1. v # w /\ QAt(v, "ask") /\ Job(v)' = Job(v)
      BY <1>8, <1>9, <2>2 DEF QAt, Job, QMoved
    <3>2. Job(v) # j /\ Job(v) \in Jobs
      <4>1. Job(v) # Job(w)
        BY <1>1, <3>1 DEF QInv, QAsks
      <4>2. QED
        BY <1>3, <3>1, <4>1, QJob DEF QIn, QAt, Having
    <3>3. PICK i \in Jobs \ {j} : i = Job(v)
      BY <3>2
    <3>4. finding[i].started /\ asked[i] = 0
      BY <3>1, <3>3 DEF QInv, QAsks
    <3>5. QED
      BY <1>1, <1>10, <3>1, <3>3, <3>4
  <2>3. QED
    BY <2>1, <2>2 DEF QInv, QAsks
<1>14. QED
  BY <1>11, <1>12, <1>13 DEF QInv

\* Every step of a qualifier keeps the invariant.
LEMMA QualifierSteps ==
  ASSUME QInv, RowsOK, NEW w \in Qualifiers,
         Qualification(w) \/ QualifierFails(w) \/ QualifierStops(w) \/ QualifierCrashes(w)
  PROVE  QInv'
<1>1. NoNewOwner
  BY QualifierRows
<1>2. CASE Retrieve(w) \/ LoadFinding(w) \/ StartJob(w) \/ FetchPage(w) \/ Store(w) \/ Evaluate(w)
  BY <1>1, <1>2, RetrieveStep, LoadStep, StartJobStep, FetchStep, StoreStep, EvaluateStep
<1>3. CASE AskModel(w) \/ RunGraph(w) \/ PublishJob(w)
  BY <1>1, <1>3, AskStep, GraphStep, PublishStep
<1>4. CASE FinishQualifier(w) \/ QualifierRaises(w) \/ QualifierLeaseLost(w) \/ QualifierFails(w) \/ QualifierStops(w)
             \/ QualifierCrashes(w)
  BY <1>1, <1>4, QEndStep
<1>5. QED
  BY <1>2, <1>3, <1>4 DEF Qualification

-----------------------------------------------------------------------------
(* Documents *)

Asking == {"model", "chosen"}
DMoved(w) == dlocal' \in [Writers -> DLocals] /\ \A v \in Writers \ {w} : dlocal'[v] = dlocal[v]
DInv == DTypes /\ DHolds /\ DAsks /\ DPlanned /\ DSince

LEMMA DOwn ==
  ASSUME DTypes, NEW w \in Writers
  PROVE  dlocal[w] \in DLocals /\ w \in Workers /\ Data(w) \in Drafts
BY WriterAssumption DEF DTypes, DLocals, Data

\* A document has a sequence of different operations.
LEMMA OpsOf ==
  ASSUME NEW t \in DocumentTasks
  PROVE  /\ Ops(t) \in Seq(ModelOperations) /\ Len(Ops(t)) \in Nat
         /\ \A i \in 1 .. Len(Ops(t)) : Ops(t)[i] \in ModelOperations /\ <<t, Ops(t)[i]>> \in Steps
         /\ \A i, k \in 1 .. Len(Ops(t)) : Ops(t)[i] = Ops(t)[k] => i = k
<1>1. t[1] \in {"BUILD_RESUME", "BUILD_COVER_LETTER"}
  BY DEF DocumentTasks, Resume, Cover
<1>2. /\ Ops(t) \in Seq(ModelOperations)
      /\ \A i, k \in DOMAIN Ops(t) : Ops(t)[i] = Ops(t)[k] => i = k
  BY <1>1, OperationsAssumption DEF Ops
<1>3. DOMAIN Ops(t) = 1 .. Len(Ops(t)) /\ \A i \in 1 .. Len(Ops(t)) : Ops(t)[i] \in ModelOperations
  BY <1>2
<1>4. QED
  BY <1>2, <1>3 DEF Steps

LEMMA DMoves ==
  ASSUME DTypes, NEW w \in Writers, NEW new \in DLocals, dlocal' = [dlocal EXCEPT ![w] = new]
  PROVE  DMoved(w) /\ dlocal'[w] = new
BY DEF DTypes, DMoved

LEMMA DGoes ==
  ASSUME DTypes, NEW w \in Writers, NEW step \in DSteps, DGoto(w, step)
  PROVE  /\ DMoved(w) /\ dlocal'[w].pc = step /\ dlocal'[w].task = dlocal[w].task
         /\ dlocal'[w].data = dlocal[w].data /\ dlocal'[w].since = dlocal[w].since
<1> DEFINE new == [dlocal[w] EXCEPT !.pc = step]
<1>1. dlocal[w] \in DLocals
  BY DOwn
<1>2. /\ new \in DLocals /\ new.pc = step /\ new.task = dlocal[w].task
      /\ new.data = dlocal[w].data /\ new.since = dlocal[w].since
  BY <1>1 DEF DLocals
<1>3. dlocal' = [dlocal EXCEPT ![w] = new]
  BY DEF DGoto
<1> HIDE DEF new
<1>4. QED
  BY <1>2, <1>3, DMoves

LEMMA DTakes ==
  ASSUME DTypes, NEW w \in Writers, NEW step \in DSteps, NEW data \in Drafts,
         dlocal' = [dlocal EXCEPT ![w].data = data, ![w].pc = step]
  PROVE  /\ DMoved(w) /\ dlocal'[w].pc = step /\ dlocal'[w].task = dlocal[w].task
         /\ dlocal'[w].data = data /\ dlocal'[w].since = dlocal[w].since
<1> DEFINE new == [dlocal[w] EXCEPT !.data = data, !.pc = step]
<1>1. dlocal[w] \in DLocals
  BY DOwn
<1>2. /\ new \in DLocals /\ new.pc = step /\ new.task = dlocal[w].task
      /\ new.data = data /\ new.since = dlocal[w].since
  BY <1>1 DEF DLocals
<1>3. dlocal' = [dlocal EXCEPT ![w] = new]
  OBVIOUS
<1> HIDE DEF new
<1>4. QED
  BY <1>2, <1>3, DMoves

LEMMA NoDraft == NoDocument \in Drafts /\ NoDocument.done = <<>> /\ ~NoDocument.pending
BY DEF NoDocument, Drafts

LEMMA DLeaves ==
  ASSUME DTypes, NEW w \in Writers, DLeave(w), sources \in Nat
  PROVE  DMoved(w) /\ dlocal'[w].pc = "idle" /\ dlocal'[w].since = 0
<1>1. DIdle \in DLocals /\ DIdle.pc = "idle" /\ DIdle.since = 0
  BY NoDraft DEF DIdle, DLocals, DSteps
<1>2. QED
  BY <1>1, DMoves DEF DLeave

LEMMA DStillOwns ==
  ASSUME DTypes, NoNewOwner, NEW v \in Writers, dlocal'[v].task = dlocal[v].task, DOwns(v)'
  PROVE  DOwns(v)
<1>1. dlocal[v].task \in Tasks /\ v \in Workers
  BY DOwn DEF DLocals, DOwns, Document
<1>2. PICK t \in Tasks : t = dlocal[v].task
  BY <1>1
<1>3. Fence(t, v)'
  BY <1>2 DEF DOwns, Document
<1>4. QED
  BY <1>1, <1>2, <1>3 DEF NoNewOwner, DOwns, Document

LEMMA DOthersOwn ==
  ASSUME DTypes, NoNewOwner, NEW w \in Writers, DMoved(w)
  PROVE  \A v \in Writers \ {w} : DOwns(v)' => DOwns(v)
BY DStillOwns DEF DMoved

\* A step that leaves the memories alone.
LEMMA DKept ==
  ASSUME DInv, NEW w \in Writers, DMoved(w), UNCHANGED <<sources, snapshot, planned>>,
         published' \in [DocumentTasks -> Nat],
         ~DIn(w, Asking)', DHold(w)', DSeen(w)',
         ~DAt(w, "idle")' => Document(w)' \in DocumentTasks,
         \A v \in Writers \ {w} : DOwns(v)' => DOwns(v)
  PROVE  DInv'
<1>1. DTypes'
  BY DEF DInv, DTypes, DMoved, DAt, Document
<1>2. DHolds'
  BY DEF DInv, DHolds, DHold, DMoved, DIn, DAt, Document, Data
<1>3. DAsks'
  <2>1. \A v \in Writers \ {w} : DAsk(v)'
    BY DEF DInv, DAsks, DAsk, DMoved, DIn, DAt, Document, Data, ToDo, Operation
  <2>2. DAsk(w)'
    BY DEF DAsk, Asking
  <2>3. QED
    BY <2>1, <2>2 DEF DInv, DAsks, DMoved, DIn, Document, Asking
<1>4. DPlanned'
  BY DEF DInv, DPlanned
<1>5. DSince'
  BY DEF DInv, DSince, DSeen, DMoved, DAt, Data
<1>6. QED
  BY <1>1, <1>2, <1>3, <1>4, <1>5 DEF DInv

\* Attempts that go on without their memory, and the ends of attempts.
LEMMA DRests ==
  ASSUME DInv, NoNewOwner, NEW w \in Writers, DMoved(w), UNCHANGED <<sources, snapshot, planned>>,
         published' \in [DocumentTasks -> Nat],
         \/ dlocal'[w].pc = "idle" /\ dlocal'[w].since = 0
         \/ /\ ~DAt(w, "idle") /\ dlocal'[w].pc \in {"finish", "review"}
            /\ dlocal'[w].task = dlocal[w].task /\ dlocal'[w].since = dlocal[w].since
  PROVE  DInv'
<1>1. ~DIn(w, Asking)' /\ DHold(w)'
  BY DEF DIn, Asking, DHold, DAt
<1>2. DSeen(w)' /\ (~DAt(w, "idle")' => Document(w)' \in DocumentTasks)
  BY DEF DInv, DSince, DSeen, DAt, DTypes, Document
<1>3. QED
  BY <1>1, <1>2, DKept, DOthersOwn DEF DInv

\* Attempts that go on with what their memory holds.
LEMMA DGoesOn ==
  ASSUME DInv, NoNewOwner, NEW w \in Writers, DMoved(w),
         UNCHANGED <<sources, snapshot, planned, published>>, ~DAt(w, "idle"),
         dlocal'[w].pc \in {"start", "select", "generate", "check", "register"},
         dlocal'[w].task = dlocal[w].task, dlocal'[w].since = dlocal[w].since,
         DOwns(w) => IF dlocal'[w].pc = "start" THEN snapshot[Document(w)] = NoDocument
                     ELSE snapshot[Document(w)] = dlocal'[w].data,
         dlocal'[w].pc = "register" => dlocal'[w].data.sources = sources
  PROVE  DInv'
<1>1. ~DIn(w, Asking)'
  BY DEF DIn, Asking
<1>2. DHold(w)'
  <2>1. DOwns(w)' => DOwns(w)
    BY DStillOwns DEF DInv
  <2>2. QED
    BY <2>1 DEF DHold, DAt, DIn, Document, Data
<1>3. DSeen(w)' /\ (~DAt(w, "idle")' => Document(w)' \in DocumentTasks)
  <2>1. sources \in Nat /\ dlocal[w].since <= sources /\ dlocal[w].since \in Nat
    BY DOwn DEF DInv, DTypes, DSince, DSeen, DLocals
  <2>2. QED
    BY <2>1 DEF DInv, DSeen, DAt, DTypes, Document, Data
<1>4. QED
  BY <1>1, <1>2, <1>3, DKept, DOthersOwn DEF DInv, DTypes

LEMMA DClaims ==
  ASSUME DInv, RowsOK, NEW w \in Writers, NEW t \in Tasks, ClaimDocument(w, t)
  PROVE  DInv' /\ RowsOK' /\ \A s \in Tasks, v \in Workers : v # w /\ Fence(s, v)' => Fence(s, v)
<1>1. /\ t \in DocumentTasks
      /\ dlocal' = [dlocal EXCEPT ![w] = [DIdle EXCEPT !.task = t, !.pc = "load", !.since = sources]]
      /\ task' = [task EXCEPT ![t] = Granted(@, w, t \in continues)]
      /\ UNCHANGED <<sources, snapshot, published, planned>>
  BY DEF ClaimDocument
<1>2. RowsOK' /\ \A s \in Tasks, v \in Workers : Fence(s, v)' => Fence(s, v) \/ (s = t /\ v = w)
  <2>1. (t \in continues) \in BOOLEAN /\ w \in Workers
    BY WriterAssumption
  <2>2. QED
    BY <1>1, <2>1, GrantsRow
<1>3. DTypes /\ sources \in Nat
  BY DEF DInv, DTypes
<1> DEFINE new == [DIdle EXCEPT !.task = t, !.pc = "load", !.since = sources]
<1>4. new \in DLocals /\ new.pc = "load" /\ new.task = t /\ new.since = sources
  BY <1>3, NoDraft DEF DIdle, DLocals, DSteps
<1>5. DMoved(w) /\ dlocal'[w] = new
  <2>1. dlocal' = [dlocal EXCEPT ![w] = new]
    BY <1>1
  <2> HIDE DEF new
  <2>2. QED
    BY <2>1, <1>3, <1>4, DMoves
<1> HIDE DEF new
<1>6. ~DIn(w, Asking)' /\ DHold(w)'
  BY <1>4, <1>5 DEF DIn, Asking, DHold, DAt
<1>7. DSeen(w)' /\ Document(w)' \in DocumentTasks
  BY <1>1, <1>3, <1>4, <1>5 DEF DSeen, DAt, Document
<1>8. \A v \in Writers \ {w} : DOwns(v)' => DOwns(v)
  <2> SUFFICES ASSUME NEW v \in Writers \ {w}, DOwns(v)' PROVE DOwns(v)
    OBVIOUS
  <2>1. dlocal[v].task \in Tasks /\ v \in Workers /\ dlocal'[v].task = dlocal[v].task
    BY <1>3, <1>5, DOwn DEF DMoved, DLocals, DOwns, Document
  <2>2. PICK s \in Tasks : s = dlocal[v].task
    BY <2>1
  <2>3. Fence(s, v)'
    BY <2>1, <2>2 DEF DOwns, Document
  <2>4. QED
    BY <1>2, <2>1, <2>2, <2>3 DEF DOwns, Document
<1>9. published' \in [DocumentTasks -> Nat]
  BY <1>1, <1>3 DEF DTypes
<1>10. QED
  BY <1>1, <1>2, <1>5, <1>6, <1>7, <1>8, <1>9, DKept

LEMMA LoadDocumentStep ==
  ASSUME DInv, NoNewOwner, NEW w \in Writers, LoadDocument(w)
  PROVE  DInv'
<1>1. /\ DTypes /\ DAt(w, "load") /\ UNCHANGED <<sources, snapshot, published, planned>>
      /\ Document(w) \in DocumentTasks
  BY DEF LoadDocument, DInv, DTypes, DAt
<1>2. PICK data \in Drafts : data = snapshot[Document(w)]
  BY <1>1 DEF DTypes
<1>3. PICK step \in {"start", "select", "review"} :
        /\ dlocal' = [dlocal EXCEPT ![w].data = data, ![w].pc = step]
        /\ step = "start" => data = NoDocument
  <2>1. PICK step \in IF data = NoDocument THEN {"start"} ELSE {"select", "review"} :
          dlocal' = [dlocal EXCEPT ![w].pc = step, ![w].data = data]
    BY <1>2 DEF LoadDocument
  <2>2. QED
    BY <2>1
<1>4. step \in DSteps
  BY DEF DSteps
<1>5. /\ DMoved(w) /\ dlocal'[w].pc = step /\ dlocal'[w].task = dlocal[w].task
      /\ dlocal'[w].data = data /\ dlocal'[w].since = dlocal[w].since
  BY <1>1, <1>3, <1>4, DTakes
<1>6. CASE step = "review"
  BY <1>1, <1>5, <1>6, DRests DEF DTypes, DAt
<1>7. CASE step # "review"
  BY <1>1, <1>2, <1>3, <1>5, <1>7, DGoesOn DEF DAt
<1>8. QED
  BY <1>6, <1>7

\* The owner's work becomes the memory of its task; nobody else is asking for it,
\* or what is asked for stays open.
LEMMA SaveKeeps ==
  ASSUME DInv, NoNewOwner, NEW w \in Writers, DOwns(w), ~DAt(w, "idle"), NEW data \in Drafts,
         NEW step \in {"select", "model", "generate", "check"}, Save(w, data, step),
         UNCHANGED <<sources, published, planned>>,
         \A v \in Writers \ {w} : DIn(v, Asking) /\ Document(v) = Document(w) =>
           step # "model" /\ data.pending /\ data.done = snapshot[Document(w)].done,
         step = "model" =>
           /\ data.pending /\ Len(data.done) < Len(Ops(Document(w)))
           /\ planned[<<Document(w), Ops(Document(w))[Len(data.done) + 1]>>] = 0,
         \A i \in 1 .. Len(Ops(Document(w))) :
           i > Len(data.done) + 1 \/ (i = Len(data.done) + 1 /\ ~data.pending) =>
             planned[<<Document(w), Ops(Document(w))[i]>>] = 0
  PROVE  DInv'
<1>1. DTypes /\ Document(w) \in DocumentTasks /\ step \in DSteps /\ sources \in Nat
  BY DEF DInv, DTypes, DSteps
<1>2. /\ DMoved(w) /\ dlocal'[w].pc = step /\ dlocal'[w].task = dlocal[w].task
      /\ dlocal'[w].data = data /\ dlocal'[w].since = dlocal[w].since
  BY <1>1, DTakes DEF Save
<1>3. PICK t \in DocumentTasks : t = Document(w)
  BY <1>1
<1>4. /\ snapshot' \in [DocumentTasks -> Drafts] /\ snapshot'[t] = data
      /\ \A s \in DocumentTasks \ {t} : snapshot'[s] = snapshot[s]
  BY <1>1, <1>3 DEF Save, DTypes
<1>5. DTypes' /\ Document(w)' = t
  BY <1>1, <1>2, <1>3, <1>4 DEF DTypes, DMoved, DAt, Document
<1>6. DHolds'
  <2>1. DHold(w)'
    BY <1>2, <1>4, <1>5 DEF DHold, DAt, DIn, Data
  <2>2. ASSUME NEW v \in Writers \ {w}, DOwns(v)' PROVE DHold(v)'
    <3>1. DOwns(v) /\ dlocal'[v] = dlocal[v] /\ DHold(v)
      BY <1>1, <1>2, <2>2, DOthersOwn DEF DMoved, DInv, DHolds
    <3>2. CASE DAt(v, "idle")
      BY <3>1, <3>2 DEF DHold, DAt, DIn
    <3>3. CASE ~DAt(v, "idle")
      <4>1. Document(v) # t /\ Document(v) \in DocumentTasks
        BY <1>1, <1>3, <2>2, <3>1, <3>3 DEF DTypes, DOwns, Fence
      <4>2. PICK s \in DocumentTasks \ {t} : s = Document(v)
        BY <4>1
      <4>3. Document(v)' = s /\ snapshot'[s] = snapshot[s]
        BY <1>4, <3>1, <4>2 DEF Document
      <4>4. QED
        BY <3>1, <4>2, <4>3 DEF DHold, DIn, DAt, Data
    <3>4. QED
      BY <3>2, <3>3
  <2>3. QED
    BY <2>1, <2>2 DEF DHolds, DHold
<1>7. DAsks'
  <2>1. ASSUME NEW v \in Writers \ {w}, DIn(v, Asking)'
        PROVE  /\ DIn(v, Asking) /\ Document(v)' = Document(v) /\ DAsk(v)'
               /\ Document(v) = t => ~DIn(w, Asking)'
    <3>1. /\ dlocal'[v] = dlocal[v] /\ DIn(v, Asking) /\ DAsk(v)
          /\ Document(v)' = Document(v)
      BY <1>2, <2>1 DEF DMoved, DIn, DInv, DAsks, Document
    <3>2. Document(v) \in DocumentTasks
      BY <1>1, <3>1 DEF DTypes, DAt, DIn, Asking
    <3>3. PICK s \in DocumentTasks : s = Document(v)
      BY <3>2
    <3>4. snapshot'[s].pending /\ snapshot'[s].done = Data(v).done
      BY <1>3, <1>4, <3>1, <3>3 DEF DAsk, Asking
    <3>5. /\ Data(v)' = Data(v) /\ ToDo(v)' = ToDo(v) /\ Operation(v)' = Operation(v)
          /\ DAt(v, "model")' = DAt(v, "model") /\ ToDo(v)
          /\ DAt(v, "model") => planned[<<s, Operation(v)>>] = 0
      BY <3>1, <3>3 DEF Data, ToDo, Operation, Document, DAt, DAsk, Asking
    <3>6. DAsk(v)'
      BY <3>1, <3>3, <3>4, <3>5 DEF DAsk
    <3>7. Document(v) = t => ~DIn(w, Asking)'
      BY <1>2, <1>3, <3>1 DEF DIn, Asking
    <3>8. QED
      BY <3>1, <3>6, <3>7
  <2>2. DAsk(w)'
    BY <1>2, <1>3, <1>4, <1>5 DEF DAsk, DIn, DAt, Data, ToDo, Operation, Ops
  <2>3. ASSUME NEW u \in Writers, NEW v \in Writers, DIn(u, Asking)', DIn(v, Asking)',
               Document(u)' = Document(v)'
        PROVE  u = v
    <3>1. CASE u = w \/ v = w
      BY <1>5, <2>1, <2>3, <3>1
    <3>2. CASE u # w /\ v # w
      <4>1. DIn(u, Asking) /\ DIn(v, Asking) /\ Document(u) = Document(v)
        BY <2>1, <2>3, <3>2
      <4>2. QED
        BY <4>1 DEF DInv, DAsks, Asking
    <3>3. QED
      BY <3>1, <3>2
  <2>4. \A v \in Writers : DAsk(v)'
    <3>1. \A v \in Writers \ {w} : DAsk(v)'
      BY <2>1 DEF DAsk, Asking
    <3>2. QED
      BY <2>2, <3>1
  <2>5. QED
    BY <2>3, <2>4 DEF DAsks, Asking
<1>8. DPlanned'
  <2>1. \A s \in Steps : planned'[s] <= 1
    BY DEF DInv, DPlanned
  <2>2. ASSUME NEW s \in DocumentTasks, NEW i \in 1 .. Len(Ops(s)),
               LET n == Len(snapshot'[s].done)
               IN  i > n + 1 \/ (i = n + 1 /\ ~snapshot'[s].pending)
        PROVE  planned'[<<s, Ops(s)[i]>>] = 0
    <3>1. CASE s = t
      BY <1>3, <1>4, <2>2, <3>1
    <3>2. CASE s # t
      <4>1. snapshot'[s] = snapshot[s]
        BY <1>4, <3>2
      <4>2. QED
        BY <2>2, <4>1 DEF DInv, DPlanned
    <3>3. QED
      BY <3>1, <3>2
  <2>3. QED
    BY <2>1, <2>2 DEF DPlanned, Ops
<1>9. DSince'
  BY <1>2 DEF DInv, DSince, DSeen, DMoved, DAt, Data
<1>10. QED
  BY <1>5, <1>6, <1>7, <1>8, <1>9 DEF DInv

\* What an owner may rely on; and nobody asks where no mark is.
LEMMA Relies ==
  ASSUME DInv, NEW w \in Writers, ~DAt(w, "idle")
  PROVE  /\ Document(w) \in DocumentTasks /\ snapshot[Document(w)] \in Drafts
         /\ Len(snapshot[Document(w)].done) \in Nat
         /\ DOwns(w) /\ DAt(w, "start") => snapshot[Document(w)] = NoDocument
         /\ DOwns(w) /\ DIn(w, {"select", "generate", "check", "register"}) =>
              snapshot[Document(w)] = Data(w)
         /\ ~snapshot[Document(w)].pending =>
              \A v \in Writers \ {w} : DIn(v, Asking) => Document(v) # Document(w)
         /\ \A i \in 1 .. Len(Ops(Document(w))) :
              \/ i > Len(snapshot[Document(w)].done) + 1
              \/ i = Len(snapshot[Document(w)].done) + 1 /\ ~snapshot[Document(w)].pending
              => planned[<<Document(w), Ops(Document(w))[i]>>] = 0
<1>1. Document(w) \in DocumentTasks /\ snapshot[Document(w)] \in Drafts
  BY DEF DInv, DTypes
<1>2. Len(snapshot[Document(w)].done) \in Nat
  BY <1>1 DEF Drafts
<1>3. DHold(w)
  BY DEF DInv, DHolds
<1>4. ~snapshot[Document(w)].pending =>
        \A v \in Writers \ {w} : DIn(v, Asking) => Document(v) # Document(w)
  BY DEF DInv, DAsks, DAsk, Asking
<1>5. \A i \in 1 .. Len(Ops(Document(w))) :
        \/ i > Len(snapshot[Document(w)].done) + 1
        \/ i = Len(snapshot[Document(w)].done) + 1 /\ ~snapshot[Document(w)].pending
        => planned[<<Document(w), Ops(Document(w))[i]>>] = 0
  BY <1>1 DEF DInv, DPlanned, Ops
<1>6. QED
  BY <1>1, <1>2, <1>3, <1>4, <1>5 DEF DHold

LEMMA StartDocumentStep ==
  ASSUME DInv, NoNewOwner, NEW w \in Writers, StartDocument(w)
  PROVE  DInv'
<1>1. /\ DTypes /\ DAt(w, "start") /\ ~DAt(w, "idle") /\ DOwns(w)
      /\ UNCHANGED <<sources, published, planned>>
  BY DEF StartDocument, DInv, DAt
<1>2. CASE DGoto(w, "review") /\ UNCHANGED snapshot
  <2>1. "review" \in DSteps
    BY DEF DSteps
  <2>2. /\ DMoved(w) /\ dlocal'[w].pc = "review" /\ dlocal'[w].task = dlocal[w].task
        /\ dlocal'[w].since = dlocal[w].since
    BY <1>1, <1>2, <2>1, DGoes
  <2>3. QED
    BY <1>1, <1>2, <2>2, DRests DEF DTypes
<1>3. CASE Save(w, Pool, "select")
  <2>1. snapshot[Document(w)] = NoDocument
    BY <1>1, Relies
  <2>2. PICK data \in Drafts : data = Pool /\ data.done = <<>> /\ ~data.pending
    <3>1. sources \in Nat
      BY <1>1 DEF DTypes
    <3>2. Pool \in Drafts /\ Pool.done = <<>> /\ ~Pool.pending
      BY <3>1, NoDraft DEF Pool, Drafts
    <3>3. QED
      BY <3>2
  <2>3. Save(w, data, "select")
    BY <1>3, <2>2
  <2>4. /\ data.done = snapshot[Document(w)].done /\ ~snapshot[Document(w)].pending
    BY <2>1, <2>2, NoDraft
  <2>5. \A v \in Writers \ {w} : DIn(v, Asking) => Document(v) # Document(w)
    BY <1>1, <2>4, Relies
  <2>6. \A i \in 1 .. Len(Ops(Document(w))) :
          i > Len(data.done) + 1 \/ (i = Len(data.done) + 1 /\ ~data.pending) =>
             planned[<<Document(w), Ops(Document(w))[i]>>] = 0
    BY <1>1, <2>4, Relies
  <2>7. QED
    BY <1>1, <2>3, <2>5, <2>6, SaveKeeps
<1>4. QED
  BY <1>2, <1>3 DEF StartDocument

LEMMA PlanStep ==
  ASSUME DInv, NoNewOwner, NEW w \in Writers, Plan(w)
  PROVE  DInv'
<1>1. /\ DTypes /\ DAt(w, "select") /\ ~DAt(w, "idle") /\ DOwns(w)
      /\ UNCHANGED <<sources, published, planned>>
  BY DEF Plan, DInv, DAt
<1>2. /\ snapshot[Document(w)] = Data(w) /\ Data(w) \in Drafts /\ Len(Data(w).done) \in Nat
      /\ Document(w) \in DocumentTasks
  BY <1>1, Relies DEF DAt, DIn
<1>3. ASSUME NEW step \in {"generate", "check", "review"}, DGoto(w, step), UNCHANGED snapshot
      PROVE  DInv'
  <2>1. step \in DSteps
    BY DEF DSteps
  <2>2. /\ DMoved(w) /\ dlocal'[w].pc = step /\ dlocal'[w].task = dlocal[w].task
        /\ dlocal'[w].data = dlocal[w].data /\ dlocal'[w].since = dlocal[w].since
    BY <1>1, <1>3, <2>1, DGoes
  <2>3. CASE step = "review"
    BY <1>1, <1>3, <2>2, <2>3, DRests DEF DTypes
  <2>4. CASE step # "review"
    BY <1>1, <1>2, <1>3, <2>2, <2>4, DGoesOn DEF Data
  <2>5. QED
    BY <2>3, <2>4
<1>4. CASE ToDo(w) /\ ~Data(w).pending /\ Save(w, [Data(w) EXCEPT !.pending = TRUE], "model")
  <2>1. PICK data \in Drafts : /\ data = [Data(w) EXCEPT !.pending = TRUE]
                               /\ data.pending /\ data.done = Data(w).done
    <3> DEFINE new == [Data(w) EXCEPT !.pending = TRUE]
    <3>1. new \in Drafts /\ new.pending /\ new.done = Data(w).done
      BY <1>2 DEF Drafts
    <3>2. QED
      BY <3>1
  <2>2. Save(w, data, "model")
    BY <1>4, <2>1
  <2>3. \A v \in Writers \ {w} : DIn(v, Asking) => Document(v) # Document(w)
    BY <1>1, <1>2, <1>4, Relies
  <2>4. \A i \in 1 .. Len(Ops(Document(w))) :
          i >= Len(data.done) + 1 => planned[<<Document(w), Ops(Document(w))[i]>>] = 0
    BY <1>1, <1>2, <1>4, <2>1, Relies
  <2>5. Len(data.done) < Len(Ops(Document(w)))
    BY <1>4, <2>1 DEF ToDo, Ops
  <2>6. planned[<<Document(w), Ops(Document(w))[Len(data.done) + 1]>>] = 0
    <3>1. Len(data.done) + 1 \in 1 .. Len(Ops(Document(w)))
      BY <1>2, <2>1, <2>5, OpsOf
    <3>2. QED
      BY <2>4, <3>1
  <2>7. \A i \in 1 .. Len(Ops(Document(w))) :
          i > Len(data.done) + 1 \/ (i = Len(data.done) + 1 /\ ~data.pending) =>
             planned[<<Document(w), Ops(Document(w))[i]>>] = 0
    BY <2>4, <1>2, <2>1
  <2>8. QED
    BY <1>1, <2>1, <2>2, <2>3, <2>5, <2>6, <2>7, SaveKeeps
<1>5. QED
  BY <1>3, <1>4 DEF Plan

\* Only what nobody has asked for is asked.
LEMMA AskPlannerStep ==
  ASSUME DInv, NoNewOwner, NEW w \in Writers, AskPlanner(w)
  PROVE  DInv'
<1>1. /\ DTypes /\ DAt(w, "model") /\ ~DAt(w, "idle") /\ UNCHANGED <<sources, published, snapshot>>
      /\ Data(w) \in Drafts /\ dlocal[w] \in DLocals
  BY DOwn DEF AskPlanner, DInv, DAt
<1>2. PICK t \in DocumentTasks : t = Document(w)
  BY <1>1, Relies
<1>3. /\ snapshot[t].pending /\ snapshot[t].done = Data(w).done
      /\ Len(Data(w).done) < Len(Ops(t)) /\ Len(Data(w).done) \in Nat
      /\ planned[<<t, Operation(w)>>] = 0
  BY <1>1, <1>2, Relies DEF DInv, DAsks, DAsk, DAt, DIn, ToDo, Ops
<1> DEFINE n == Len(Data(w).done) + 1
<1>4. n \in 1 .. Len(Ops(t)) /\ Operation(w) = Ops(t)[n]
  BY <1>2, <1>3, OpsOf DEF Operation, Ops
<1>5. PICK step \in Steps : step = <<t, Operation(w)>>
  BY <1>4, OpsOf
<1>6. /\ planned' \in [Steps -> Nat] /\ planned'[step] = 1
      /\ \A s \in Steps \ {step} : planned'[s] = planned[s]
  BY <1>1, <1>2, <1>3, <1>5 DEF AskPlanner, DTypes
<1>7. PICK place \in {"chosen", "review"}, data \in Drafts :
        /\ DMoved(w) /\ dlocal'[w].pc = place /\ dlocal'[w].task = dlocal[w].task
        /\ dlocal'[w].data = data /\ dlocal'[w].since = dlocal[w].since
        /\ data.done = Data(w).done
  <2>1. CASE DGoto(w, "review")
    <3>1. "review" \in DSteps
      BY DEF DSteps
    <3>2. QED
      BY <1>1, <2>1, <3>1, DGoes DEF Data
  <2>2. ASSUME NEW m \in 1 .. MaxClaims,
               dlocal' = [dlocal EXCEPT ![w].pc = "chosen", ![w].data.claims = m]
        PROVE  \E data \in Drafts :
                 /\ DMoved(w) /\ dlocal'[w].pc = "chosen" /\ dlocal'[w].task = dlocal[w].task
                 /\ dlocal'[w].data = data /\ dlocal'[w].since = dlocal[w].since
                 /\ data.done = Data(w).done
    <3>1. PICK data \in Drafts : data = [Data(w) EXCEPT !.claims = m] /\ data.done = Data(w).done
      <4> DEFINE new == [Data(w) EXCEPT !.claims = m]
      <4>1. new \in Drafts /\ new.done = Data(w).done
        BY <1>1 DEF Drafts
      <4>2. QED
        BY <4>1
    <3>2. dlocal' = [dlocal EXCEPT ![w].data = data, ![w].pc = "chosen"]
      BY <1>1, <2>2, <3>1 DEF Data, DLocals
    <3>3. "chosen" \in DSteps
      BY DEF DSteps
    <3>4. /\ DMoved(w) /\ dlocal'[w].pc = "chosen" /\ dlocal'[w].task = dlocal[w].task
          /\ dlocal'[w].data = data /\ dlocal'[w].since = dlocal[w].since
      BY <1>1, <3>2, <3>3, DTakes
    <3>5. QED
      BY <3>1, <3>4
  <2>3. QED
    BY <2>1, <2>2 DEF AskPlanner
<1>8. DTypes' /\ Document(w)' = t
  BY <1>1, <1>2, <1>6, <1>7 DEF DTypes, DMoved, DAt, Document
<1>9. DHolds'
  <2>1. DHold(w)'
    BY <1>7 DEF DHold, DAt, DIn
  <2>2. ASSUME NEW v \in Writers \ {w} PROVE DHold(v)'
    <3>1. (DOwns(v)' => DOwns(v)) /\ dlocal'[v] = dlocal[v] /\ DHold(v)
      BY <1>1, <1>7, DOthersOwn DEF DMoved, DInv, DHolds
    <3>2. QED
      BY <1>1, <3>1 DEF DHold, DAt, DIn, Data, Document
  <2>3. QED
    BY <2>1, <2>2 DEF DHolds
<1>10. DAsks'
  <2>1. ASSUME NEW v \in Writers \ {w}, DIn(v, Asking)'
        PROVE  DIn(v, Asking) /\ Document(v)' = Document(v) /\ DAsk(v)' /\ Document(v) # t
    <3>1. /\ dlocal'[v] = dlocal[v] /\ DIn(v, Asking) /\ DAsk(v)
          /\ Document(v)' = Document(v)
      BY <1>7, <2>1 DEF DMoved, DIn, DInv, DAsks, Document
    <3>2. Document(v) \in DocumentTasks /\ Document(v) # t
      BY <1>1, <1>2, <3>1 DEF DTypes, DAt, DIn, Asking, DInv, DAsks
    <3>3. PICK s \in DocumentTasks \ {t} : s = Document(v)
      BY <3>2
    <3>4. /\ Data(v)' = Data(v) /\ ToDo(v)' = ToDo(v) /\ Operation(v)' = Operation(v)
          /\ DAt(v, "model")' = DAt(v, "model") /\ ToDo(v)
          /\ snapshot[s].pending /\ snapshot[s].done = Data(v).done
          /\ DAt(v, "model") => planned[<<s, Operation(v)>>] = 0
      BY <3>1, <3>3 DEF Data, ToDo, Operation, Document, DAt, DAsk, Asking
    <3>5. Operation(v) \in ModelOperations
      <4>1. Data(v) \in Drafts
        BY <1>1, DOwn
      <4>2. Len(Data(v).done) + 1 \in 1 .. Len(Ops(s))
        BY <3>3, <3>4, <4>1, OpsOf DEF ToDo, Ops, Drafts
      <4>3. QED
        BY <3>3, <4>2, OpsOf DEF Operation, Ops
    <3>6. PICK op \in ModelOperations : op = Operation(v)
      BY <3>5
    <3>7. <<s, op>> \in Steps \ {step}
      BY <1>5, <3>3 DEF Steps
    <3>8. DAsk(v)'
      BY <1>1, <1>6, <3>1, <3>3, <3>4, <3>6, <3>7 DEF DAsk
    <3>9. QED
      BY <3>1, <3>2, <3>8
  <2>2. DAsk(w)'
    BY <1>1, <1>2, <1>3, <1>7, <1>8 DEF DAsk, DIn, DAt, Data, ToDo, Document, Ops
  <2>3. \A u, v \in Writers : DIn(u, Asking)' /\ DIn(v, Asking)' /\ Document(u)' = Document(v)' => u = v
    BY <1>8, <2>1 DEF DInv, DAsks, Asking
  <2>4. \A v \in Writers : DAsk(v)'
    <3>1. \A v \in Writers \ {w} : DAsk(v)'
      BY <2>1 DEF DAsk, Asking
    <3>2. QED
      BY <2>2, <3>1
  <2>5. QED
    BY <2>3, <2>4 DEF DAsks, Asking
<1>11. DPlanned'
  <2>1. \A s \in Steps : planned'[s] <= 1
    BY <1>6 DEF DInv, DPlanned
  <2>2. ASSUME NEW s \in DocumentTasks, NEW i \in 1 .. Len(Ops(s)),
               LET m == Len(snapshot[s].done)
               IN  i > m + 1 \/ (i = m + 1 /\ ~snapshot[s].pending)
        PROVE  planned'[<<s, Ops(s)[i]>>] = 0
    <3>1. planned[<<s, Ops(s)[i]>>] = 0 /\ <<s, Ops(s)[i]>> \in Steps
      BY <2>2, OpsOf DEF DInv, DPlanned, Ops
    <3>2. s = t => Ops(s)[i] # Operation(w)
      BY <1>3, <1>4, <2>2, OpsOf
    <3>3. QED
      BY <1>5, <1>6, <3>1, <3>2
  <2>3. QED
    BY <1>1, <2>1, <2>2 DEF DPlanned, Ops
<1>12. DSince'
  BY <1>1, <1>7 DEF DInv, DSince, DSeen, DMoved, DAt, Data
<1>13. QED
  BY <1>8, <1>9, <1>10, <1>11, <1>12 DEF DInv

LEMMA SaveChoiceStep ==
  ASSUME DInv, NoNewOwner, NEW w \in Writers, SaveChoice(w)
  PROVE  DInv'
<1>1. /\ DTypes /\ DAt(w, "chosen") /\ ~DAt(w, "idle") /\ DOwns(w)
      /\ UNCHANGED <<sources, published, planned>> /\ Data(w) \in Drafts
  BY DOwn DEF SaveChoice, DInv, DAt
<1>2. PICK t \in DocumentTasks : t = Document(w)
  BY <1>1, Relies
<1>3. /\ snapshot[t].done = Data(w).done /\ Len(Data(w).done) \in Nat
      /\ Len(Data(w).done) < Len(Ops(t))
  BY <1>1, <1>2, Relies DEF DInv, DAsks, DAsk, DAt, DIn, ToDo, Ops
<1>4. PICK op \in ModelOperations : op = Operation(w)
  <2>1. Len(Data(w).done) + 1 \in 1 .. Len(Ops(t))
    BY <1>2, <1>3, OpsOf
  <2>2. QED
    BY <1>2, <2>1, OpsOf DEF Operation, Ops
<1> DEFINE done == Append(Data(w).done, op)
           data == [Data(w) EXCEPT !.done = done, !.pending = FALSE]
<1>5. done \in Seq(ModelOperations) /\ Len(done) = Len(Data(w).done) + 1
  BY <1>1 DEF Drafts
<1>6. Save(w, data, "select")
  BY <1>4 DEF SaveChoice
<1> HIDE DEF done
<1>7. data \in Drafts /\ ~data.pending /\ data.done = done
  BY <1>1, <1>5 DEF Drafts
<1> HIDE DEF data
<1>8. \A v \in Writers \ {w} : DIn(v, Asking) => Document(v) # Document(w)
  BY <1>1 DEF DInv, DAsks, Asking, DAt, DIn
<1>9. \A i \in 1 .. Len(Ops(Document(w))) :
        i > Len(data.done) + 1 \/ (i = Len(data.done) + 1 /\ ~data.pending) =>
           planned[<<Document(w), Ops(Document(w))[i]>>] = 0
  <2>1. \A i \in 1 .. Len(Ops(t)) : i > Len(Data(w).done) + 1 => planned[<<t, Ops(t)[i]>>] = 0
    BY <1>1, <1>2, <1>3, Relies
  <2>2. QED
    BY <1>2, <1>3, <1>5, <1>7, <2>1, OpsOf
<1>10. QED
  BY <1>1, <1>6, <1>7, <1>8, <1>9, SaveKeeps

LEMMA GenerateStep ==
  ASSUME DInv, NoNewOwner, NEW w \in Writers, Generate(w)
  PROVE  DInv'
<1>1. /\ DTypes /\ DAt(w, "generate") /\ ~DAt(w, "idle") /\ DOwns(w)
      /\ UNCHANGED <<sources, published, planned>>
  BY DEF Generate, DInv, DAt
<1>2. snapshot[Document(w)] = Data(w) /\ Data(w) \in Drafts /\ Document(w) \in DocumentTasks
  BY <1>1, Relies DEF DAt, DIn
<1>3. CASE DGoto(w, "review") /\ UNCHANGED snapshot
  <2>1. "review" \in DSteps
    BY DEF DSteps
  <2>2. /\ DMoved(w) /\ dlocal'[w].pc = "review" /\ dlocal'[w].task = dlocal[w].task
        /\ dlocal'[w].since = dlocal[w].since
    BY <1>1, <1>3, <2>1, DGoes
  <2>3. QED
    BY <1>1, <1>3, <2>2, DRests DEF DTypes
<1>4. ASSUME NEW data \in Drafts, NEW step \in {"generate", "check"}, Save(w, data, step),
             data.done = Data(w).done, data.pending = Data(w).pending
      PROVE  DInv'
  <2>1. \A v \in Writers \ {w} : DIn(v, Asking) /\ Document(v) = Document(w) =>
          step # "model" /\ data.pending /\ data.done = snapshot[Document(w)].done
    BY <1>1, <1>2, <1>4, Relies
  <2>2. \A i \in 1 .. Len(Ops(Document(w))) :
          i > Len(data.done) + 1 \/ (i = Len(data.done) + 1 /\ ~data.pending) =>
             planned[<<Document(w), Ops(Document(w))[i]>>] = 0
    BY <1>1, <1>2, <1>4, Relies
  <2>3. QED
    BY <1>1, <1>4, <2>1, <2>2, SaveKeeps
<1>5. CASE Save(w, [Data(w) EXCEPT !.built = TRUE], "check")
  <2> DEFINE data == [Data(w) EXCEPT !.built = TRUE]
  <2>1. data \in Drafts /\ data.done = Data(w).done /\ data.pending = Data(w).pending
    BY <1>2 DEF Drafts
  <2>2. Save(w, data, "check")
    BY <1>5
  <2> HIDE DEF data
  <2>3. QED
    BY <1>4, <2>1, <2>2
<1>6. CASE Save(w, Compressed(Data(w)), "generate")
  <2> DEFINE data == Compressed(Data(w))
  <2>1. data \in Drafts /\ data.done = Data(w).done /\ data.pending = Data(w).pending
    <3> DEFINE claims == Data(w).claims - 1
               round == Data(w).round + 1
    <3>1. claims \in Int /\ round \in Nat
      BY <1>2 DEF Drafts
    <3>2. data = [Data(w) EXCEPT !.claims = claims, !.round = round]
      BY <1>2 DEF Compressed, Drafts
    <3> HIDE DEF data, claims, round
    <3>3. QED
      BY <1>2, <3>1, <3>2 DEF Drafts
  <2>2. Save(w, data, "generate")
    BY <1>6
  <2> HIDE DEF data
  <2>3. QED
    BY <1>4, <2>1, <2>2
<1>7. QED
  BY <1>3, <1>5, <1>6 DEF Generate

LEMMA CheckStep ==
  ASSUME DInv, NoNewOwner, NEW w \in Writers, CheckSources(w)
  PROVE  DInv'
<1>1. /\ DTypes /\ DAt(w, "check") /\ ~DAt(w, "idle") /\ DOwns(w)
      /\ UNCHANGED <<sources, snapshot, published, planned>>
  BY DEF CheckSources, DInv, DAt
<1>2. snapshot[Document(w)] = Data(w)
  BY <1>1, Relies DEF DAt, DIn
<1>3. PICK step \in {"review", "register"} :
        DGoto(w, step) /\ (step = "register" => Data(w).sources = sources)
  BY DEF CheckSources, Outdated
<1>4. step \in DSteps
  BY DEF DSteps
<1>5. /\ DMoved(w) /\ dlocal'[w].pc = step /\ dlocal'[w].task = dlocal[w].task
      /\ dlocal'[w].data = dlocal[w].data /\ dlocal'[w].since = dlocal[w].since
  BY <1>1, <1>3, <1>4, DGoes
<1>6. CASE step = "review"
  BY <1>1, <1>5, <1>6, DRests DEF DTypes, DAt
<1>7. CASE step = "register"
  BY <1>1, <1>2, <1>3, <1>5, <1>7, DGoesOn DEF Data
<1>8. QED
  BY <1>6, <1>7

LEMMA RegisterStep ==
  ASSUME DInv, NoNewOwner, NEW w \in Writers, Register(w)
  PROVE  DInv'
<1>1. /\ DTypes /\ DAt(w, "register") /\ ~DAt(w, "idle") /\ Document(w) \in DocumentTasks
      /\ UNCHANGED <<sources, snapshot, planned>>
  BY DEF Register, DInv, DTypes, DAt
<1>2. PICK step \in {"finish", "review"} : DGoto(w, step)
  BY DEF Register
<1>3. published' \in [DocumentTasks -> Nat]
  <2>1. PICK t \in DocumentTasks : t = Document(w)
    BY <1>1
  <2>2. UNCHANGED published \/ published' = [published EXCEPT ![t] = published[t] + 1]
    BY <2>1 DEF Register
  <2>3. QED
    BY <1>1, <2>2 DEF DTypes
<1>4. step \in DSteps
  BY DEF DSteps
<1>5. /\ DMoved(w) /\ dlocal'[w].pc = step /\ dlocal'[w].task = dlocal[w].task
      /\ dlocal'[w].since = dlocal[w].since
  BY <1>1, <1>2, <1>4, DGoes
<1>6. QED
  BY <1>1, <1>3, <1>5, DRests

LEMMA DEndStep ==
  ASSUME DInv, NoNewOwner, NEW w \in Writers,
         \/ FinishDocument(w) \/ AskReview(w) \/ CompileFails(w) \/ DocumentFails(w) \/ WriterStops(w)
         \/ DocumentLeaseLost(w) \/ WriterCrashes(w)
  PROVE  DInv'
<1>1. DTypes /\ sources \in Nat /\ UNCHANGED <<sources, snapshot, published, planned>>
  BY DEF DInv, DTypes, FinishDocument, AskReview, CompileFails, DocumentFails, WriterStops,
     Released, DocumentLeaseLost, WriterCrashes
<1>2. CASE DLeave(w)
  <2>1. DMoved(w) /\ dlocal'[w].pc = "idle" /\ dlocal'[w].since = 0
    BY <1>1, <1>2, DLeaves
  <2>2. QED
    BY <1>1, <2>1, DRests DEF DTypes
<1>3. CASE DAt(w, "generate") /\ DGoto(w, "review")
  <2>1. "review" \in DSteps
    BY DEF DSteps
  <2>2. /\ DMoved(w) /\ dlocal'[w].pc = "review" /\ dlocal'[w].task = dlocal[w].task
        /\ dlocal'[w].since = dlocal[w].since
    BY <1>1, <1>3, <2>1, DGoes
  <2>3. QED
    BY <1>1, <1>3, <2>2, DRests DEF DTypes, DAt
<1>4. QED
  BY <1>2, <1>3
     DEF FinishDocument, AskReview, CompileFails, DocumentFails, WriterStops, Released,
         DocumentLeaseLost, WriterCrashes

\* Every step of a writer keeps the invariant.
LEMMA WriterSteps ==
  ASSUME DInv, RowsOK, NEW w \in Writers,
         Writing(w) \/ CompileFails(w) \/ DocumentFails(w) \/ WriterStops(w) \/ WriterCrashes(w)
  PROVE  DInv'
<1>1. NoNewOwner
  BY WriterRows
<1>2. CASE LoadDocument(w) \/ StartDocument(w) \/ Plan(w) \/ AskPlanner(w) \/ SaveChoice(w)
  BY <1>1, <1>2, LoadDocumentStep, StartDocumentStep, PlanStep, AskPlannerStep, SaveChoiceStep
<1>3. CASE Generate(w) \/ CheckSources(w) \/ Register(w)
  BY <1>1, <1>3, GenerateStep, CheckStep, RegisterStep
<1>4. CASE FinishDocument(w) \/ AskReview(w) \/ CompileFails(w) \/ DocumentFails(w) \/ WriterStops(w) \/ DocumentLeaseLost(w) \/ WriterCrashes(w)
  BY <1>1, <1>4, DEndStep
<1>5. QED
  BY <1>2, <1>3, <1>4 DEF Writing

\* The sources of the others' steps are no older.
LEMMA DUntouched ==
  ASSUME DInv, UNCHANGED <<snapshot, published, planned, dlocal>>, sources' \in Nat, sources' >= sources,
         \A w \in Writers : DOwns(w)' => DOwns(w)
  PROVE  DInv'
<1>1. DTypes' /\ DAsks' /\ DPlanned'
  BY DEF DInv, DTypes, DAsks, DAsk, DPlanned, DAt, DIn, Document, Data, ToDo, Operation
<1>2. DHolds'
  BY DEF DInv, DHolds, DHold, DAt, DIn, Document, Data
<1>3. DSince'
  <2>1. ASSUME NEW w \in Writers PROVE DSeen(w)'
    <3>1. DSeen(w) /\ dlocal[w].since \in Nat /\ sources \in Nat
      BY DOwn DEF DInv, DTypes, DSince, DLocals
    <3>2. QED
      BY <3>1 DEF DSeen, DAt, Data
  <2>2. QED
    BY <2>1 DEF DSince
<1>4. QED
  BY <1>1, <1>2, <1>3 DEF DInv

\* What the steps leave alone.
LEMMA WriterFrame ==
  ASSUME NEW w \in Writers,
         Writing(w) \/ CompileFails(w) \/ DocumentFails(w) \/ WriterStops(w) \/ WriterCrashes(w)
  PROVE  UNCHANGED <<job, finding, asked, qlocal>>
<1>1. CASE LoadDocument(w) \/ StartDocument(w) \/ Plan(w) \/ AskPlanner(w) \/ SaveChoice(w)
  BY <1>1 DEF LoadDocument, StartDocument, Plan, AskPlanner, SaveChoice, jobVars, evidenceVars
<1>2. CASE Generate(w) \/ CheckSources(w) \/ Register(w) \/ FinishDocument(w) \/ AskReview(w)
  BY <1>2 DEF Generate, CheckSources, Register, FinishDocument, AskReview, jobVars, evidenceVars
<1>3. CASE CompileFails(w) \/ DocumentFails(w) \/ WriterStops(w) \/ DocumentLeaseLost(w) \/ WriterCrashes(w)
  BY <1>3
     DEF CompileFails, DocumentFails, WriterStops, Released, DocumentLeaseLost, WriterCrashes,
         jobVars, evidenceVars
<1>4. QED
  BY <1>1, <1>2, <1>3 DEF Writing

LEMMA RegisterFrame ==
  ASSUME NEW w \in Writers,
         Writing(w) \/ CompileFails(w) \/ DocumentFails(w) \/ WriterStops(w) \/ WriterCrashes(w), ~Register(w)
  PROVE  UNCHANGED published
<1>1. CASE LoadDocument(w) \/ StartDocument(w) \/ Plan(w) \/ AskPlanner(w) \/ SaveChoice(w)
  BY <1>1 DEF LoadDocument, StartDocument, Plan, AskPlanner, SaveChoice
<1>2. CASE Generate(w) \/ CheckSources(w) \/ FinishDocument(w) \/ AskReview(w)
  BY <1>2 DEF Generate, CheckSources, FinishDocument, AskReview
<1>3. CASE CompileFails(w) \/ DocumentFails(w) \/ WriterStops(w) \/ DocumentLeaseLost(w) \/ WriterCrashes(w)
  BY <1>3 DEF CompileFails, DocumentFails, WriterStops, Released, DocumentLeaseLost, WriterCrashes
<1>4. QED
  BY <1>1, <1>2, <1>3 DEF Writing

LEMMA QualifierFrame ==
  ASSUME NEW w \in Qualifiers, ~UNCHANGED job,
         \/ Qualification(w) \/ QualifierFails(w) \/ QualifierStops(w) \/ QualifierCrashes(w)
         \/ \E t \in Tasks : ClaimQualifier(w, t)
  PROVE  Retrieve(w) \/ StartJob(w) \/ PublishJob(w)
<1>1. CASE LoadFinding(w) \/ FetchPage(w) \/ Store(w) \/ Evaluate(w) \/ AskModel(w) \/ RunGraph(w)
  BY <1>1 DEF LoadFinding, FetchPage, Store, Evaluate, AskModel, RunGraph, jobVars
<1>2. CASE FinishQualifier(w) \/ QualifierRaises(w) \/ QualifierLeaseLost(w) \/ QualifierFails(w) \/ QualifierStops(w)
             \/ QualifierCrashes(w)
  BY <1>2
     DEF FinishQualifier, QualifierRaises, QualifierLeaseLost, QualifierFails, QualifierStops,
         Released, QualifierCrashes,
     jobVars
<1>3. CASE \E t \in Tasks : ClaimQualifier(w, t)
  BY <1>3 DEF ClaimQualifier, jobVars
<1>4. QED
  BY <1>1, <1>2, <1>3 DEF Qualification

-----------------------------------------------------------------------------
(* The pipeline *)

\* What does not give a worker a row leaves it with those that it has.
LEMMA OthersHold ==
  ASSUME QTypes, DTypes, NEW u, UNCHANGED <<qlocal>> \/ UNCHANGED <<dlocal>>,
         \A s \in Tasks, v \in Workers : v # u /\ Fence(s, v)' => Fence(s, v)
  PROVE  /\ UNCHANGED <<qlocal>> => \A v \in Qualifiers \ {u} : QOwns(v)' => QOwns(v)
         /\ UNCHANGED <<dlocal>> => \A v \in Writers \ {u} : DOwns(v)' => DOwns(v)
<1>1. ASSUME UNCHANGED <<qlocal>>, NEW v \in Qualifiers \ {u}, QOwns(v)' PROVE QOwns(v)
  <2>1. qlocal[v].task \in Tasks /\ v \in Workers /\ qlocal'[v].task = qlocal[v].task
    BY <1>1, QOwn DEF QLocals, QOwns
  <2>2. PICK s \in Tasks : s = qlocal[v].task
    BY <2>1
  <2>3. Fence(s, v)'
    BY <1>1, <2>1, <2>2 DEF QOwns
  <2>4. QED
    BY <1>1, <2>1, <2>2, <2>3 DEF QOwns
<1>2. ASSUME UNCHANGED <<dlocal>>, NEW v \in Writers \ {u}, DOwns(v)' PROVE DOwns(v)
  <2>1. dlocal[v].task \in Tasks /\ v \in Workers /\ dlocal'[v].task = dlocal[v].task
    BY <1>2, DOwn DEF DLocals, DOwns, Document
  <2>2. PICK s \in Tasks : s = dlocal[v].task
    BY <2>1
  <2>3. Fence(s, v)'
    BY <1>2, <2>1, <2>2 DEF DOwns, Document
  <2>4. QED
    BY <1>2, <2>1, <2>2, <2>3 DEF DOwns, Document
<1>3. QED
  BY <1>1, <1>2

LEMMA PipelineInvInit == PipelineInit => PipelineInv
<1> SUFFICES ASSUME PipelineInit PROVE PipelineInv
  OBVIOUS
<1>1. RowsOK
  <2>1. Absent \in Rows /\ Published("READY") \in Rows
    BY DEF Absent, Published, Rows, Statuses
  <2>2. QED
    BY <2>1 DEF PipelineInit, QualificationInit, RowsOK
<1>2. QIdle \in QLocals /\ QIdle.pc = "idle" /\ QIdle.task = Null /\ ~NoData.started
  BY DEF QIdle, QLocals, QSteps, NoData
<1>3. QTypes
  BY <1>2 DEF PipelineInit, QualificationInit, QTypes
<1>4. QPlaces /\ QHolds /\ QAsks
  BY <1>2 DEF PipelineInit, QualificationInit, QPlaces, QPlace, QHolds, QHold, QAsks, QOwns, QIn,
     QAt, Reading, Having
<1>5. DIdle \in DLocals /\ DIdle.pc = "idle" /\ DIdle.since = 0
  BY NoDraft DEF DIdle, DLocals, DSteps
<1>6. DTypes
  BY <1>5, NoDraft DEF PipelineInit, DocumentsInit, DTypes, DAt
<1>7. DHolds /\ DAsks /\ DSince
  BY <1>5 DEF PipelineInit, DocumentsInit, DHolds, DHold, DAsks, DAsk, DSince, DSeen, DIn, DAt
<1>8. DPlanned
  <2>1. \A t \in DocumentTasks : \A i \in 1 .. Len(Ops(t)) : <<t, Ops(t)[i]>> \in Steps
    BY OpsOf
  <2>2. \A s \in Steps : planned[s] = 0
    BY DEF PipelineInit, DocumentsInit
  <2>3. QED
    BY <2>1, <2>2 DEF DPlanned
<1>9. QED
  BY <1>1, <1>3, <1>4, <1>6, <1>7, <1>8 DEF PipelineInv, RowsOK

LEMMA PipelineInvStep == PipelineInv /\ [PipelineNext]_pipelineVars => PipelineInv'
<1> SUFFICES ASSUME PipelineInv, [PipelineNext]_pipelineVars PROVE PipelineInv'
  OBVIOUS
<1>1. QInv /\ DInv /\ RowsOK /\ QTypes /\ DTypes /\ sources \in Nat
  BY DEF PipelineInv, QInv, DInv, RowsOK, DTypes
<1> SUFFICES RowsOK' /\ QInv' /\ DInv'
  BY DEF PipelineInv, QInv, DInv, RowsOK
\* A step of one half of the pipeline, as the other half sees it.
<1>2. ASSUME RowsOK', NoNewOwner, UNCHANGED <<job, finding, asked, qlocal>> PROVE QInv'
  <2>1. \A w \in Qualifiers : QOwns(w)' => QOwns(w)
    BY <1>1, <1>2, QStillOwns
  <2>2. QED
    BY <1>1, <1>2, <2>1, QUntouched
<1>3. ASSUME NoNewOwner, UNCHANGED <<snapshot, published, planned, dlocal>>,
             sources' \in Nat, sources' >= sources
      PROVE  DInv'
  <2>1. \A w \in Writers : DOwns(w)' => DOwns(w)
    BY <1>1, <1>3, DStillOwns
  <2>2. QED
    BY <1>1, <1>3, <2>1, DUntouched
<1>4. CASE UNCHANGED pipelineVars
  <2>1. /\ UNCHANGED <<task, job, finding, asked, qlocal>>
        /\ UNCHANGED <<sources, snapshot, published, planned, dlocal>>
    BY <1>4 DEF pipelineVars, qualificationVars, jobVars, evidenceVars, documentVars
  <2>2. RowsOK' /\ NoNewOwner
    BY <1>1, <2>1, StaysRow
  <2>3. QED
    BY <1>1, <1>2, <1>3, <2>1, <2>2
<1>5. CASE Elsewhere
  <2>1. RowsOK' /\ NoNewOwner
    BY <1>1, <1>5, ElsewhereRows
  <2>2. UNCHANGED <<job, finding, asked, qlocal, snapshot, published, planned, dlocal>>
    BY <1>5 DEF Elsewhere, HumanAnswers, DeadlinePasses, OperatorRetries, SourcesChange,
       RecoverPipeline, Outlives, jobVars, evidenceVars, documentVars
  <2>3. sources' = sources \/ sources' = sources + 1
    BY <1>5 DEF Elsewhere, HumanAnswers, DeadlinePasses, OperatorRetries, SourcesChange,
       RecoverPipeline, Outlives, documentVars
  <2>4. QED
    BY <1>1, <1>2, <1>3, <2>1, <2>2, <2>3
<1>6. ASSUME NEW w \in Qualifiers, UNCHANGED documentVars,
             Qualification(w) \/ QualifierFails(w) \/ QualifierStops(w) \/ QualifierCrashes(w)
      PROVE  RowsOK' /\ QInv' /\ DInv'
  <2>1. RowsOK' /\ NoNewOwner
    BY <1>1, <1>6, QualifierRows
  <2>2. QInv'
    BY <1>1, <1>6, QualifierSteps
  <2>3. DInv'
    BY <1>1, <1>3, <1>6, <2>1 DEF documentVars
  <2>4. QED
    BY <2>1, <2>2, <2>3
<1>7. ASSUME NEW w \in Qualifiers, UNCHANGED documentVars, NEW t \in Tasks, ClaimQualifier(w, t)
      PROVE  RowsOK' /\ QInv' /\ DInv'
  <2>1. QInv' /\ RowsOK' /\ \A s \in Tasks, v \in Workers : v # w /\ Fence(s, v)' => Fence(s, v)
    BY <1>1, <1>7, QClaims
  <2>2. UNCHANGED <<sources, snapshot, published, planned, dlocal>>
    BY <1>7 DEF documentVars
  <2>3. \A v \in Writers : DOwns(v)' => DOwns(v)
    BY <1>1, <2>1, <2>2, OthersHold, WriterAssumption
  <2>4. DInv'
    BY <1>1, <2>2, <2>3, DUntouched
  <2>5. QED
    BY <2>1, <2>4
<1>8. ASSUME NEW w \in Writers,
             Writing(w) \/ CompileFails(w) \/ DocumentFails(w) \/ WriterStops(w) \/ WriterCrashes(w)
      PROVE  RowsOK' /\ QInv' /\ DInv'
  <2>1. RowsOK' /\ NoNewOwner
    BY <1>1, <1>8, WriterRows
  <2>2. DInv'
    BY <1>1, <1>8, WriterSteps
  <2>3. UNCHANGED <<job, finding, asked, qlocal>>
    BY <1>8, WriterFrame
  <2>4. QED
    BY <1>2, <2>1, <2>2, <2>3
<1>9. ASSUME NEW w \in Writers, NEW t \in Tasks, ClaimDocument(w, t)
      PROVE  RowsOK' /\ QInv' /\ DInv'
  <2>1. DInv' /\ RowsOK' /\ \A s \in Tasks, v \in Workers : v # w /\ Fence(s, v)' => Fence(s, v)
    BY <1>1, <1>9, DClaims
  <2>2. UNCHANGED <<job, finding, asked, qlocal>>
    BY <1>9 DEF ClaimDocument, jobVars, evidenceVars
  <2>3. \A v \in Qualifiers : QOwns(v)' => QOwns(v)
    BY <1>1, <2>1, <2>2, OthersHold, WriterAssumption
  <2>4. QInv'
    BY <1>1, <2>2, <2>3, QUntouched
  <2>5. QED
    BY <2>1, <2>4
<1>10. QED
  BY <1>4, <1>5, <1>6, <1>7, <1>8, <1>9, PipelineSteps

\* The memory of a task is what its owner works on, and a model is asked behind
\* a mark: in every state, for any links, pages, workers and faults.
THEOREM PipelineInvariance == PipelineSpec => []PipelineInv
<1>1. QED
  BY PipelineInvInit, PipelineInvStep, PTL DEF PipelineSpec

\* No model is asked the same question twice for one task (agents/worker.py,
\* resume/worker.py), whatever crashes and whoever outlives a lease.
THEOREM AskedOnce == PipelineSpec => []ModelAskedOnce
<1>1. PipelineInv => ModelAskedOnce
  BY DEF PipelineInv, QAsks, DPlanned, ModelAskedOnce
<1>2. QED
  BY <1>1, PipelineInvariance, PTL

-----------------------------------------------------------------------------
(* The steps that publish *)

\* A job passes only where its decision is published, by the rules as they are
\* then, on the evidence that the task's memory holds.
LEMMA PassesInTime ==
  ASSUME PipelineInv, [PipelineNext]_pipelineVars, NEW j \in Jobs, job'[j] = "PASSED", job[j] # "PASSED"
  PROVE  Outcome(finding[j].facts, j \in late) = "PASS"
<1>1. QInv /\ job \in [Jobs -> {"NONE", "NEW", "ACTIVE"} \cup Decided]
  BY DEF PipelineInv, QInv, QTypes
<1>2. \E w \in Qualifiers : PublishJob(w)
  <2>1. ASSUME NEW w \in Qualifiers, Retrieve(w) \/ StartJob(w)
        PROVE  FALSE
    <3>1. job'[j] \in {job[j], "NEW", "ACTIVE"}
      BY <1>1, <2>1 DEF Retrieve, StartJob
    <3>2. QED
      BY <3>1
  <2>2. ASSUME NEW w \in Qualifiers,
               Qualification(w) \/ QualifierFails(w) \/ QualifierStops(w) \/ QualifierCrashes(w)
                 \/ \E t \in Tasks : ClaimQualifier(w, t)
        PROVE  Retrieve(w) \/ StartJob(w) \/ PublishJob(w)
    BY <2>2, QualifierFrame
  <2>3. ~UNCHANGED job
    OBVIOUS
  <2>4. ~UNCHANGED pipelineVars /\ ~Elsewhere
    BY <2>3 DEF pipelineVars, qualificationVars, jobVars, Elsewhere, HumanAnswers, DeadlinePasses,
       OperatorRetries, SourcesChange, RecoverPipeline, Outlives
  <2>5. ASSUME NEW w \in Writers, \/ Writing(w) \/ CompileFails(w) \/ DocumentFails(w) \/ WriterStops(w) \/ WriterCrashes(w)
                                  \/ \E t \in Tasks : ClaimDocument(w, t)
        PROVE  FALSE
    BY <2>3, <2>5, WriterFrame DEF ClaimDocument, jobVars
  <2>6. QED
    BY <2>1, <2>2, <2>4, <2>5, PipelineSteps
<1>3. PICK w \in Qualifiers : PublishJob(w)
  BY <1>2
<1>4. QAt(w, "publish") /\ QOwns(w) /\ finding[Job(w)] = qlocal[w].data /\ Job(w) \in Jobs
  BY <1>1, <1>3, QJob DEF PublishJob, QInv, QHolds, QHold, QIn, QAt, Having
<1>5. j = Job(w) /\ StatusOf(Outcome(qlocal[w].data.facts, j \in late)) = "PASSED"
  BY <1>1, <1>3, <1>4 DEF PublishJob
<1>6. Outcome(qlocal[w].data.facts, j \in late) \in {"FAIL", "REVIEW", "PASS"}
  BY DEF Outcome
<1>7. QED
  BY <1>4, <1>5, <1>6 DEF StatusOf

\* A job that passes had not missed its deadline when the decision was committed.
THEOREM InTime == PipelineSpec => PassedInTime
<1>1. PipelineInv /\ [PipelineNext]_pipelineVars =>
        [\A j \in Jobs : job'[j] = "PASSED" /\ job[j] # "PASSED" =>
           Outcome(finding[j].facts, j \in late) = "PASS"]_pipelineVars
  BY PassesInTime
<1>2. QED
  BY <1>1, PipelineInvariance, PTL DEF PipelineSpec, PassedInTime

\* A document is published where it is registered, by the owner of its task.
LEMMA PublishesFromSources ==
  ASSUME PipelineInv, [PipelineNext]_pipelineVars, NEW t \in DocumentTasks, published'[t] # published[t]
  PROVE  /\ published[t] = 0
         /\ \E w \in Writers : dlocal[w].task = t /\ snapshot[t].sources >= dlocal[w].since
<1>1. DInv /\ published \in [DocumentTasks -> Nat]
  BY DEF PipelineInv, DInv, DTypes
<1>2. PICK w \in Writers : Register(w)
  <2>1. ~UNCHANGED published
    OBVIOUS
  <2>2. ~UNCHANGED pipelineVars /\ ~UNCHANGED documentVars /\ ~Elsewhere
    BY <2>1 DEF pipelineVars, documentVars, Elsewhere, OperatorRetries, SourcesChange,
       RecoverPipeline, Outlives
  <2>3. ASSUME NEW w \in Writers, \/ Writing(w) \/ CompileFails(w) \/ DocumentFails(w) \/ WriterStops(w) \/ WriterCrashes(w)
                                  \/ \E s \in Tasks : ClaimDocument(w, s)
        PROVE  Register(w)
    BY <2>1, <2>3, RegisterFrame DEF ClaimDocument
  <2>4. QED
    BY <2>2, <2>3, PipelineSteps
<1>3. /\ DAt(w, "register") /\ DOwns(w) /\ published[Document(w)] = 0
      /\ published' = [published EXCEPT ![Document(w)] = @ + 1]
  <2>1. Document(w) \in DocumentTasks
    BY <1>1, <1>2, Relies DEF Register, DAt
  <2>2. published[Document(w)] \in Nat
    BY <1>1, <2>1
  <2>3. QED
    BY <1>2, <2>2 DEF Register
<1>4. Document(w) = t
  BY <1>1, <1>3
<1>5. snapshot[t] = Data(w) /\ Data(w).sources >= dlocal[w].since
  BY <1>1, <1>3, <1>4 DEF DInv, DHolds, DHold, DSince, DSeen, DIn, DAt
<1>6. QED
  BY <1>3, <1>4, <1>5 DEF Document

\* A document is published once, from sources no older than the attempt.
THEOREM FromSources == PipelineSpec => PublishedFromSources
<1>1. PipelineInv /\ [PipelineNext]_pipelineVars =>
        [\A t \in DocumentTasks : published'[t] # published[t] =>
           /\ published[t] = 0
           /\ \E w \in Writers : dlocal[w].task = t /\ snapshot[t].sources >= dlocal[w].since]_pipelineVars
  BY PublishesFromSources
<1>2. QED
  BY <1>1, PipelineInvariance, PTL DEF PipelineSpec, PublishedFromSources

-----------------------------------------------------------------------------
(* What the pipeline asks of the queue *)

\* The tasks that are yet to be published: none after a job that is undecided,
\* and none after the one that its application is at.
NotYet(t) == t \in Tasks => task[t].status = "ABSENT"
Ahead(j) ==
  /\ job[j] \notin Decided => application[j].stage = "NONE"
  /\ application[j].stage = "NONE" => NotYet(Resume(j))
  /\ application[j].stage = "NONE" \/ application[j].current = Resume(j) => NotYet(Cover(j))
  /\ application[j].stage # "FORM" => NotYet(Form(j))
AllAhead == DOMAIN application = Jobs /\ \A j \in Jobs : Ahead(j)

StaysAhead == \A j \in Jobs : \A t \in {Resume(j), Cover(j), Form(j)} : NotYet(t) => NotYet(t)'

\* How one row moves, and the others do not.
LEMMA RowMoves ==
  ASSUME RowsOK, NEW t, NEW row, task' = [task EXCEPT ![t] = row],
         t \in Tasks /\ task'[t] = row => RowStep(t) /\ task[t].status # "ABSENT"
  PROVE  (\A s \in Tasks : RowStep(s)) /\ StaysAhead
<1>1. \A s \in Tasks : RowStep(s) /\ (task[s].status = "ABSENT" => task'[s] = task[s])
  <2> SUFFICES ASSUME NEW s \in Tasks
               PROVE  RowStep(s) /\ (task[s].status = "ABSENT" => task'[s] = task[s])
    OBVIOUS
  <2>1. CASE s = t
    BY <2>1 DEF RowsOK
  <2>2. CASE s # t
    BY <2>2 DEF RowsOK, RowStep
  <2>3. QED
    BY <2>1, <2>2
<1>2. QED
  BY <1>1 DEF StaysAhead, NotYet

LEMMA OwnedRow ==
  ASSUME RowsOK, NEW t, NEW w \in Workers, Fence(t, w), NEW row,
         \/ row \in {Ended(task[t], "SUCCEEDED"), Ended(task[t], "WAITING_HUMAN"), Released(task[t]),
                    Lapsed(task[t], t)}
         \/ \E retryable \in BOOLEAN : row = Retried(task[t], t, retryable),
         task' = [task EXCEPT ![t] = row]
  PROVE  (\A s \in Tasks : RowStep(s)) /\ StaysAhead
<1>1. task[t].status = "ACTIVE"
  BY DEF Fence
<1>2. task'[t] = row => EndRow(t)
  BY <1>1 DEF EndRow
<1>3. QED
  BY <1>1, <1>2, RowMoves DEF RowStep

LEMMA WokenRow ==
  ASSUME RowsOK, NEW t, task[t].status \in {"WAITING_HUMAN", "WAITING_RETRY"},
         task' = [task EXCEPT ![t].status = "READY"]
  PROVE  (\A s \in Tasks : RowStep(s)) /\ StaysAhead
<1>1. task' = [task EXCEPT ![t] = [task[t] EXCEPT !.status = "READY"]]
  OBVIOUS
<1>2. QED
  BY <1>1, RowMoves DEF RowStep, WakeRow

LEMMA LapsedRow ==
  ASSUME RowsOK, NEW t, task[t].status = "ACTIVE", task' = [task EXCEPT ![t] = Lapsed(task[t], t)]
  PROVE  (\A s \in Tasks : RowStep(s)) /\ StaysAhead
<1>1. task'[t] = Lapsed(task[t], t) => EndRow(t)
  BY DEF EndRow
<1>2. QED
  BY <1>1, RowMoves DEF RowStep

LEMMA ClaimedRow ==
  ASSUME RowsOK, NEW t \in Tasks, NEW w \in Workers, NEW again \in BOOLEAN,
         task[t].status = "READY", again \/ Claimable(t),
         task' = [task EXCEPT ![t] = Granted(task[t], w, again)]
  PROVE  (\A s \in Tasks : RowStep(s)) /\ StaysAhead
<1>1. task'[t] = Granted(task[t], w, again) => GrantRow(t)
  BY DEF GrantRow
<1>2. QED
  BY <1>1, RowMoves DEF RowStep

LEMMA SameRows ==
  ASSUME UNCHANGED task
  PROVE  (\A s \in Tasks : RowStep(s)) /\ StaysAhead
BY DEF RowStep, StaysAhead, NotYet

LEMMA PublishedRow ==
  ASSUME RowsOK, NEW t, NotYet(t), task' = [task EXCEPT ![t] = Published("READY")]
  PROVE  /\ \A s \in Tasks : RowStep(s)
         /\ \A s : s # t => (NotYet(s) => NotYet(s)')
<1>1. ASSUME NEW s \in Tasks PROVE RowStep(s)
  <2>1. CASE s = t
    BY <2>1 DEF RowsOK, RowStep, PublishRow, NotYet
  <2>2. CASE s # t
    BY <2>2 DEF RowsOK, RowStep
  <2>3. QED
    BY <2>1, <2>2
<1>2. QED
  BY <1>1 DEF RowsOK, NotYet

LEMMA AheadKept ==
  ASSUME AllAhead, StaysAhead, UNCHANGED application,
         \A j \in Jobs : job'[j] \notin Decided => job[j] \notin Decided
  PROVE  AllAhead'
<1> SUFFICES ASSUME NEW j \in Jobs PROVE Ahead(j)'
  BY DEF AllAhead
<1>1. Ahead(j) /\ \A t \in {Resume(j), Cover(j), Form(j)} : NotYet(t) => NotYet(t)'
  BY DEF AllAhead, StaysAhead
<1>2. QED
  BY <1>1 DEF Ahead

LEMMA TaskNames ==
  /\ \A j, k : Resume(j) # Cover(k) /\ Resume(j) # Form(k) /\ Cover(j) # Form(k)
  /\ \A j, k : Qualify(j) # Resume(k) /\ Qualify(j) # Cover(k) /\ Qualify(j) # Form(k)
  /\ \A j, k : /\ Resume(j) = Resume(k) => j = k
               /\ Cover(j) = Cover(k) => j = k
               /\ Form(j) = Form(k) => j = k
BY DEF Resume, Cover, Form, Qualify

\* Links publish tasks of new jobs only.
LEMMA RetrieveRows ==
  ASSUME RowsOK, NEW w \in Qualifiers, Retrieve(w)
  PROVE  (\A s \in Tasks : RowStep(s)) /\ StaysAhead
<1> DEFINE new == {Qualify(j) : j \in Links(qlocal[w].task)}
<1>1. task' = [t \in Tasks |-> IF t \in new /\ task[t].status = "ABSENT" THEN Published("READY") ELSE task[t]]
  BY DEF Retrieve
<1>2. \A j : Resume(j) \notin new /\ Cover(j) \notin new /\ Form(j) \notin new
  BY TaskNames
<1> HIDE DEF new
<1>3. \A s \in Tasks : RowStep(s)
  BY <1>1 DEF RowStep, PublishRow
<1>4. QED
  BY <1>1, <1>2, <1>3 DEF StaysAhead, NotYet

\* A decision publishes the resume of a job that was undecided.
LEMMA PublishJobRows ==
  ASSUME PipelineInv, AllAhead, NEW w \in Qualifiers, PublishJob(w)
  PROVE  (\A s \in Tasks : RowStep(s)) /\ AllAhead'
<1> DEFINE k == Job(w)
           status == StatusOf(Outcome(qlocal[w].data.facts, k \in late))
<1>1. k \in Jobs /\ RowsOK /\ DOMAIN job = Jobs
  BY DEF PipelineInv, RowsOK, QTypes, QPlaces, QPlace, QIn, Having, PublishJob, QAt, Job, Qualify
<1>2. status \in Decided
  BY DEF StatusOf, Decided
<1>3. \/ UNCHANGED <<job, application, task>>
      \/ /\ job[k] \notin Decided /\ job' = [job EXCEPT ![k] = status]
         /\ \/ UNCHANGED <<application, task>>
            \/ /\ application' = [application EXCEPT ![k] = Applied(k)]
               /\ task' = [task EXCEPT ![Resume(k)] = Published("READY")]
  BY DEF PublishJob
<1> HIDE DEF k, status
<1>4. CASE UNCHANGED <<job, application, task>>
  BY <1>4, AheadKept, SameRows
<1>5. CASE job' = [job EXCEPT ![k] = status] /\ UNCHANGED <<application, task>>
  BY <1>1, <1>2, <1>5, AheadKept, SameRows
<1>6. CASE /\ job[k] \notin Decided /\ job' = [job EXCEPT ![k] = status]
           /\ application' = [application EXCEPT ![k] = Applied(k)]
           /\ task' = [task EXCEPT ![Resume(k)] = Published("READY")]
  <2>1. application[k].stage = "NONE" /\ NotYet(Resume(k)) /\ NotYet(Cover(k)) /\ NotYet(Form(k))
    BY <1>1, <1>6 DEF AllAhead, Ahead
  <2>2. /\ \A s \in Tasks : RowStep(s)
        /\ \A s : s # Resume(k) => (NotYet(s) => NotYet(s)')
    BY <1>1, <1>6, <2>1, PublishedRow
  <2>3. DOMAIN application' = Jobs
    BY <1>6 DEF AllAhead
  <2>4. ASSUME NEW j \in Jobs PROVE Ahead(j)'
    <3>1. CASE j = k
      <4>1. job'[j] \in Decided /\ application'[j] = [stage |-> "RESUME", current |-> Resume(k)]
        BY <1>1, <1>2, <1>6, <3>1 DEF AllAhead, Applied
      <4>2. NotYet(Cover(j))' /\ NotYet(Form(j))'
        BY <2>1, <2>2, <3>1, TaskNames
      <4>3. QED
        BY <4>1, <4>2 DEF Ahead
    <3>2. CASE j # k
      <4>1. job'[j] = job[j] /\ application'[j] = application[j]
        BY <1>1, <1>6, <3>2 DEF AllAhead
      <4>2. \A t \in {Resume(j), Cover(j), Form(j)} : NotYet(t) => NotYet(t)'
        BY <2>2, <3>2, TaskNames
      <4>3. QED
        BY <4>1, <4>2 DEF AllAhead, Ahead
    <3>3. QED
      BY <3>1, <3>2
  <2>5. QED
    BY <2>2, <2>3, <2>4 DEF AllAhead
<1>7. QED
  BY <1>3, <1>4, <1>5, <1>6

\* An artifact publishes the task that follows at the application.
LEMMA RegisterRows ==
  ASSUME PipelineInv, AllAhead, NEW w \in Writers, Register(w)
  PROVE  (\A s \in Tasks : RowStep(s)) /\ AllAhead'
<1> DEFINE t == Document(w)
           k == t[2]
           next == IF t = Resume(k) /\ CoverLetter THEN Cover(k) ELSE Form(k)
           stage == IF next = Form(k) THEN "FORM" ELSE "RESUME"
<1>1. t \in DocumentTasks /\ RowsOK
  BY DEF PipelineInv, RowsOK, DTypes, Register, DAt
<1>2. k \in Jobs /\ (t = Resume(k) \/ t = Cover(k))
  BY <1>1 DEF DocumentTasks, Resume, Cover
<1>3. UNCHANGED job
  BY DEF Register
<1>4. \/ UNCHANGED <<task, application>>
      \/ /\ application[k] = [stage |-> "RESUME", current |-> t]
         /\ task' = [task EXCEPT ![next] = Published("READY")]
         /\ application' = [application EXCEPT ![k] = [stage |-> stage, current |-> next]]
  BY DEF Register, Application
<1>5. CASE UNCHANGED <<task, application>>
  BY <1>3, <1>5, AheadKept, SameRows
<1>6. CASE /\ application[k] = [stage |-> "RESUME", current |-> t]
           /\ task' = [task EXCEPT ![next] = Published("READY")]
           /\ application' = [application EXCEPT ![k] = [stage |-> stage, current |-> next]]
  <2>1. \/ next = Cover(k) /\ stage = "RESUME" /\ t = Resume(k)
        \/ next = Form(k) /\ stage = "FORM"
    BY <1>2, TaskNames
  <2> HIDE DEF next, stage, t, k
  <2>2. /\ application[k].stage = "RESUME" /\ application[k].current = t
        /\ Ahead(k)
    BY <1>2, <1>6 DEF AllAhead
  <2>3. NotYet(next)
    BY <2>1, <2>2 DEF Ahead
  <2>4. /\ \A s \in Tasks : RowStep(s)
        /\ \A s : s # next => (NotYet(s) => NotYet(s)')
    BY <1>1, <1>6, <2>3, PublishedRow
  <2>5. DOMAIN application' = Jobs
    BY <1>6 DEF AllAhead
  <2>6. ASSUME NEW j \in Jobs PROVE Ahead(j)'
    <3>1. CASE j = k
      <4>1. application'[j] = [stage |-> stage, current |-> next]
        BY <1>2, <1>6, <3>1 DEF AllAhead
      <4>2. job'[j] = job[j] /\ job[j] \in Decided
        BY <1>3, <2>2, <3>1 DEF Ahead
      <4>3. stage # "NONE" /\ next # Resume(j)
        BY <2>1, TaskNames
      <4>4. stage # "FORM" => NotYet(Form(j))'
        BY <2>1, <2>2, <2>4, <3>1, TaskNames DEF Ahead
      <4>5. QED
        BY <4>1, <4>2, <4>3, <4>4 DEF Ahead
    <3>2. CASE j # k
      <4>1. job'[j] = job[j] /\ application'[j] = application[j]
        BY <1>3, <1>6, <3>2 DEF AllAhead
      <4>2. \A s \in {Resume(j), Cover(j), Form(j)} : NotYet(s) => NotYet(s)'
        BY <2>1, <2>4, <3>2, TaskNames
      <4>3. QED
        BY <4>1, <4>2 DEF AllAhead, Ahead
    <3>3. QED
      BY <3>1, <3>2
  <2>7. QED
    BY <2>4, <2>5, <2>6 DEF AllAhead
<1>7. QED
  BY <1>4, <1>5, <1>6

LEMMA QualifierAsks ==
  ASSUME PipelineInv, AllAhead, NEW w \in Qualifiers,
         \/ Qualification(w) \/ QualifierFails(w) \/ QualifierStops(w) \/ QualifierCrashes(w)
         \/ \E t \in Tasks : ClaimQualifier(w, t)
  PROVE  (\A s \in Tasks : RowStep(s)) /\ AllAhead'
<1>1. RowsOK /\ w \in Workers /\ DOMAIN job = Jobs
  BY QualifierAssumption DEF PipelineInv, RowsOK, QTypes
<1>2. CASE PublishJob(w)
  BY <1>2, PublishJobRows
<1>3. CASE Retrieve(w)
  <2>1. UNCHANGED application /\ \A j \in Jobs : job'[j] \notin Decided => job[j] \notin Decided
    BY <1>3 DEF Retrieve, Decided
  <2>2. QED
    BY <1>1, <1>3, <2>1, RetrieveRows, AheadKept
<1>4. CASE StartJob(w)
  <2>1. UNCHANGED task /\ UNCHANGED application
    BY <1>4 DEF StartJob
  <2>2. UNCHANGED job \/ \E j : job[j] \notin Decided /\ job' = [job EXCEPT ![j] = "ACTIVE"]
    BY <1>4 DEF StartJob, Decided
  <2>3. \A j \in Jobs : job'[j] \notin Decided => job[j] \notin Decided
    BY <1>1, <2>2
  <2>4. QED
    BY <2>1, <2>3, SameRows, AheadKept
<1>5. CASE \/ LoadFinding(w) \/ FetchPage(w) \/ Store(w) \/ Evaluate(w)
           \/ AskModel(w) \/ RunGraph(w) \/ QualifierLeaseLost(w) \/ QualifierCrashes(w)
  <2>1. UNCHANGED task /\ UNCHANGED job /\ UNCHANGED application
    BY <1>5 DEF LoadFinding, FetchPage, Store, Evaluate, AskModel, RunGraph, QualifierLeaseLost,
       QualifierCrashes, jobVars
  <2>2. QED
    BY <2>1, SameRows, AheadKept
<1>6. CASE FinishQualifier(w) \/ QualifierRaises(w) \/ QualifierFails(w) \/ QualifierStops(w)
  <2> DEFINE t == qlocal[w].task
  <2>1. Fence(t, w) /\ UNCHANGED job /\ UNCHANGED application
    BY <1>6 DEF FinishQualifier, QualifierRaises, QualifierFails, QualifierStops, QOwns, jobVars
  <2>2. PICK row : /\ \/ row \in {Ended(task[t], "SUCCEEDED"), Ended(task[t], "WAITING_HUMAN"),
                                Released(task[t])}
                      \/ \E retryable \in BOOLEAN : row = Retried(task[t], t, retryable)
                   /\ task' = [task EXCEPT ![t] = row]
    BY <1>6 DEF FinishQualifier, QualifierRaises, QualifierFails, QualifierStops
  <2> HIDE DEF t
  <2>3. (\A s \in Tasks : RowStep(s)) /\ StaysAhead
    BY <1>1, <2>1, <2>2, OwnedRow
  <2>4. QED
    BY <2>1, <2>3, AheadKept
<1>7. ASSUME NEW t \in Tasks, ClaimQualifier(w, t) PROVE (\A s \in Tasks : RowStep(s)) /\ AllAhead'
  <2>1. task' = [task EXCEPT ![t] = Granted(task[t], w, t \in continues)]
    BY <1>7 DEF ClaimQualifier
  <2>2. /\ task[t].status = "READY" /\ (t \in continues \/ Claimable(t))
        /\ UNCHANGED job /\ UNCHANGED application
    BY <1>7 DEF ClaimQualifier, jobVars
  <2>3. (\A s \in Tasks : RowStep(s)) /\ StaysAhead
    <3> DEFINE again == t \in continues
    <3>1. /\ again \in BOOLEAN /\ (again \/ Claimable(t))
          /\ task' = [task EXCEPT ![t] = Granted(task[t], w, again)]
      BY <2>1, <2>2
    <3> HIDE DEF again
    <3>2. QED
      BY <1>1, <2>2, <3>1, ClaimedRow
  <2>4. QED
    BY <2>2, <2>3, AheadKept
<1>8. QED
  BY <1>2, <1>3, <1>4, <1>5, <1>6, <1>7 DEF Qualification

LEMMA WriterAsks ==
  ASSUME PipelineInv, AllAhead, NEW w \in Writers,
         \/ Writing(w) \/ CompileFails(w) \/ DocumentFails(w) \/ WriterStops(w) \/ WriterCrashes(w)
         \/ \E t \in Tasks : ClaimDocument(w, t)
  PROVE  (\A s \in Tasks : RowStep(s)) /\ AllAhead'
<1>1. RowsOK /\ w \in Workers
  BY WriterAssumption DEF PipelineInv, RowsOK
<1>2. CASE Register(w)
  BY <1>2, RegisterRows
<1>3. CASE \/ LoadDocument(w) \/ StartDocument(w) \/ Plan(w) \/ AskPlanner(w) \/ SaveChoice(w)
           \/ Generate(w) \/ CheckSources(w) \/ DocumentLeaseLost(w) \/ WriterCrashes(w)
  <2>1. UNCHANGED task /\ UNCHANGED job /\ UNCHANGED application
    BY <1>3 DEF LoadDocument, StartDocument, Plan, AskPlanner, SaveChoice, Generate, CheckSources,
       DocumentLeaseLost, WriterCrashes, jobVars
  <2>2. QED
    BY <2>1, SameRows, AheadKept
<1>4. CASE FinishDocument(w) \/ AskReview(w) \/ CompileFails(w) \/ DocumentFails(w) \/ WriterStops(w)
  <2> DEFINE t == Document(w)
  <2>1. UNCHANGED job /\ UNCHANGED application
    BY <1>4 DEF FinishDocument, AskReview, CompileFails, DocumentFails, WriterStops, jobVars
  <2>2. CASE UNCHANGED task
    BY <2>1, <2>2, SameRows, AheadKept
  <2>3. CASE ~ UNCHANGED task
    <3>1. Fence(t, w)
      BY <1>4, <2>3 DEF FinishDocument, AskReview, CompileFails, DocumentFails, WriterStops, DOwns
    <3>2. PICK row : /\ \/ row \in {Ended(task[t], "SUCCEEDED"), Ended(task[t], "WAITING_HUMAN"),
                                  Released(task[t])}
                        \/ \E retryable \in BOOLEAN : row = Retried(task[t], t, retryable)
                     /\ task' = [task EXCEPT ![t] = row]
      BY <1>4, <2>3 DEF FinishDocument, AskReview, CompileFails, DocumentFails, WriterStops
    <3> HIDE DEF t
    <3>3. (\A s \in Tasks : RowStep(s)) /\ StaysAhead
      BY <1>1, <3>1, <3>2, OwnedRow
    <3>4. QED
      BY <2>1, <3>3, AheadKept
  <2>4. QED
    BY <2>2, <2>3
<1>5. ASSUME NEW t \in Tasks, ClaimDocument(w, t) PROVE (\A s \in Tasks : RowStep(s)) /\ AllAhead'
  <2>1. task' = [task EXCEPT ![t] = Granted(task[t], w, t \in continues)]
    BY <1>5 DEF ClaimDocument
  <2>2. /\ task[t].status = "READY" /\ (t \in continues \/ Claimable(t))
        /\ UNCHANGED job /\ UNCHANGED application
    BY <1>5 DEF ClaimDocument, jobVars
  <2>3. (\A s \in Tasks : RowStep(s)) /\ StaysAhead
    <3> DEFINE again == t \in continues
    <3>1. /\ again \in BOOLEAN /\ (again \/ Claimable(t))
          /\ task' = [task EXCEPT ![t] = Granted(task[t], w, again)]
      BY <2>1, <2>2
    <3> HIDE DEF again
    <3>2. QED
      BY <1>1, <2>2, <3>1, ClaimedRow
  <2>4. QED
    BY <2>2, <2>3, AheadKept
<1>6. QED
  BY <1>2, <1>3, <1>4, <1>5 DEF Writing

LEMMA OthersAsk ==
  ASSUME PipelineInv, AllAhead, Elsewhere
  PROVE  (\A s \in Tasks : RowStep(s)) /\ AllAhead'
<1>1. RowsOK /\ UNCHANGED job /\ UNCHANGED application
  BY DEF PipelineInv, RowsOK, Elsewhere, HumanAnswers, DeadlinePasses, OperatorRetries,
     SourcesChange,
     RecoverPipeline, Outlives, jobVars
<1>2. (\A s \in Tasks : RowStep(s)) /\ StaysAhead
  <2>1. CASE SourcesChange \/ \E j \in Jobs : DeadlinePasses(j)
    BY <2>1, SameRows DEF SourcesChange, DeadlinePasses
  <2>2. CASE (\E j \in Jobs : HumanAnswers(j)) \/ \E t \in DocumentTasks : OperatorRetries(t)
    <3>1. PICK t : task[t].status = "WAITING_HUMAN" /\ task' = [task EXCEPT ![t].status = "READY"]
      BY <2>2 DEF HumanAnswers, OperatorRetries
    <3>2. task[t].status \in {"WAITING_HUMAN", "WAITING_RETRY"}
      BY <3>1
    <3>3. task' = [task EXCEPT ![t] = [task[t] EXCEPT !.status = "READY"]]
      BY <3>1
    <3>4. QED
      BY <1>1, <3>2, <3>3, RowMoves DEF RowStep, WakeRow
  <2>3. ASSUME NEW t \in Tasks, RecoverPipeline(t) \/ Outlives(t)
        PROVE  (\A s \in Tasks : RowStep(s)) /\ StaysAhead
    BY <1>1, <2>3, LapsedRow, WokenRow DEF RecoverPipeline, Outlives, RecoverTask
  <2>4. QED
    BY <2>1, <2>2, <2>3 DEF Elsewhere
<1>3. QED
  BY <1>1, <1>2, AheadKept

\* Whatever qualifiers, writers, humans and recoveries do, each row moves only as
\* one of the transactions of QueueService moves it: a decision and an artifact
\* in particular publish a task that nobody has published yet, although neither
\* looks whether it is there.
THEOREM PipelineTasksConform == PipelineSpec => [][\A t \in Tasks : RowStep(t)]_pipelineVars
<1>1. PipelineInit => AllAhead
  <2> SUFFICES ASSUME PipelineInit PROVE AllAhead
    OBVIOUS
  <2>1. \A t : t \in Tasks \ Intakes => task[t].status = "ABSENT"
    BY DEF PipelineInit, QualificationInit, Absent
  <2>2. \A j \in Jobs : NotYet(Resume(j)) /\ NotYet(Cover(j)) /\ NotYet(Form(j))
    BY <2>1, IntakesAssumption DEF NotYet
  <2>3. DOMAIN application = Jobs /\ \A j \in Jobs : job[j] = "NONE" /\ application[j].stage = "NONE"
    BY DEF PipelineInit, QualificationInit
  <2>4. QED
    BY <2>2, <2>3 DEF AllAhead, Ahead
<1>2. ASSUME PipelineInv, AllAhead, [PipelineNext]_pipelineVars
      PROVE  (\A t \in Tasks : RowStep(t)) /\ AllAhead'
  <2>1. CASE UNCHANGED pipelineVars
    BY <1>2, <2>1, SameRows, AheadKept DEF pipelineVars, qualificationVars, jobVars
  <2>2. QED
    BY <1>2, <2>1, PipelineSteps, QualifierAsks, WriterAsks, OthersAsk
<1>3. /\ PipelineInv /\ AllAhead /\ [PipelineNext]_pipelineVars => AllAhead'
      /\ PipelineInv /\ AllAhead /\ [PipelineNext]_pipelineVars => [\A t \in Tasks : RowStep(t)]_pipelineVars
  BY <1>2
<1>4. QED
  BY <1>1, <1>3, PipelineInvariance, PTL DEF PipelineSpec
=============================================================================
