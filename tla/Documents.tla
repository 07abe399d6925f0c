----------------------------- MODULE Documents -----------------------------
(***************************************************************************)
(* The resume and cover letter worker: resume/worker.py with its planning  *)
(* (planning.py), templates and compiler (latex.py) and artifacts          *)
(* (artifacts.py, database/repositories/artifacts.py).                     *)
(*                                                                         *)
(* What the candidate's verified facts and the template say is a version,  *)
(* sources; a document's selection is the number of claims that it still   *)
(* makes, the ranked rest being dropped when the page overflows.  A build  *)
(* file is named by its task and round and immutable; its content is a     *)
(* function of the snapshot.                                               *)
(***************************************************************************)
EXTENDS Qualification

CONSTANTS
  Writers,       \* the workers of this module
  CoverLetter,   \* policy.cover_letter
  Operations,    \* per kind of task: the models' operations, in order
  MaxClaims,     \* bound: claims of a first selection
  PageHolds,     \* the claims that fit on one page
  MaxRounds,     \* policy.max_compression_rounds
  MaxSources     \* bound: versions of the sources

ASSUME WriterAssumption == Writers \subseteq Workers /\ Writers \cap Qualifiers = {}
\* What a model is asked for; a document's operations are different ones.
ModelOperations == {"resume_planning", "resume_finalization", "cover_letter"}

ASSUME OperationsAssumption ==
  \A kind \in {"BUILD_RESUME", "BUILD_COVER_LETTER"} :
    /\ Operations[kind] \in Seq(ModelOperations)
    /\ \A i, k \in DOMAIN Operations[kind] : Operations[kind][i] = Operations[kind][k] => i = k
ASSUME ClaimsAssumption == MaxClaims \in Nat \ {0} /\ PageHolds \in Nat /\ MaxRounds \in Nat

Cover(j) == <<"BUILD_COVER_LETTER", j>>
Form(j) == <<"FORM_PROCESS", j>>
DocumentTasks == {Resume(j) : j \in Jobs} \cup {Cover(j) : j \in Jobs}
\* A message's task is of another kind.
ASSUME IntakesAssumption == \A j \in Jobs : {Resume(j), Cover(j), Form(j)} \cap Intakes = {}
Steps == {<<t, op>> : t \in DocumentTasks, op \in ModelOperations}

VARIABLES
  sources,     \* what facts and templates say now
  snapshot,    \* per task: resume_snapshot, as its memory has it
  published,   \* per task: how often its artifacts were registered
  planned,     \* per step: how often a model was asked
  dlocal       \* per worker: its task, place, data, and the sources at its start

documentVars == <<sources, snapshot, published, planned, dlocal>>

NoDocument == [sources |-> 0, done |-> <<>>, pending |-> FALSE, claims |-> 0, round |-> 0, built |-> FALSE]
DIdle == [pc |-> "idle", task |-> Null, data |-> NoDocument, since |-> 0]

DAt(w, step) == dlocal[w].pc = step
DGoto(w, step) == dlocal' = [dlocal EXCEPT ![w].pc = step]
DLeave(w) == dlocal' = [dlocal EXCEPT ![w] = DIdle]
Document(w) == dlocal[w].task
DOwns(w) == Document(w) # Null /\ Fence(Document(w), w)
Data(w) == dlocal[w].data
Application(w) == application[Document(w)[2]]
\* _save: the worker's data and the task's memory are the same from here on.
Save(w, data, step) ==
  /\ snapshot' = [snapshot EXCEPT ![Document(w)] = data]
  /\ dlocal' = [dlocal EXCEPT ![w].data = data, ![w].pc = step]

\* The pool of verified claims for a selection; whether they are still what the
\* sources say; and the selection without its last claim.
Pool == [NoDocument EXCEPT !.sources = sources]
Outdated(data) == data.sources # sources
Compressed(data) == [data EXCEPT !.claims = @ - 1, !.round = @ + 1]

DocumentsInit ==
  /\ sources = 1
  /\ snapshot = [t \in DocumentTasks |-> NoDocument]
  /\ published = [t \in DocumentTasks |-> 0]
  /\ planned = [s \in Steps |-> 0]
  /\ dlocal = [w \in Writers |-> DIdle]

ClaimDocument(w, t) ==
  /\ DAt(w, "idle") /\ t \in DocumentTasks
  /\ task[t].status = "READY" /\ (t \in continues \/ Claimable(t))
  /\ task' = [task EXCEPT ![t] = Granted(@, w, t \in continues)]
  /\ continues' = continues \ {t}
  /\ dlocal' = [dlocal EXCEPT ![w] = [DIdle EXCEPT !.task = t, !.pc = "load", !.since = sources]]
  /\ UNCHANGED <<jobVars, evidenceVars, qlocal, faults, sources, snapshot, published, planned>>

\* _load: a document that was begun under another policy is left to a human.
LoadDocument(w) ==
  /\ DAt(w, "load")
  /\ LET data == snapshot[Document(w)]
     IN  \E step \in IF data = NoDocument THEN {"start"} ELSE {"select", "review"} :
           dlocal' = [dlocal EXCEPT ![w].pc = step, ![w].data = data]
  /\ UNCHANGED <<task, jobVars, evidenceVars, continues, qlocal, faults, sources, snapshot, published,
                 planned>>

\* _start: the application must be at this task, and a cover letter's resume be
\* built; the pool is what the candidate's facts say now, if any of it is relevant.
StartDocument(w) ==
  /\ DAt(w, "start") /\ DOwns(w)
  /\ LET t == Document(w)
     IN  \/ /\ Application(w) = [stage |-> "RESUME", current |-> t]
            /\ t = Cover(t[2]) => snapshot[Resume(t[2])].built
            /\ Save(w, Pool, "select")
         \/ DGoto(w, "review") /\ UNCHANGED snapshot
  /\ UNCHANGED <<task, jobVars, evidenceVars, continues, qlocal, faults, sources, published, planned>>

-----------------------------------------------------------------------------
(* The selection *)

ToDo(w) == Len(Data(w).done) < Len(Operations[Document(w)[1]])
Operation(w) == Operations[Document(w)[1]][Len(Data(w).done) + 1]

\* Mutant: a call whose result is not known is made once more.
PlanAgain(w) ==
  /\ DAt(w, "select") /\ DOwns(w)
  /\ IF ~ToDo(w) THEN DGoto(w, IF Data(w).built THEN "check" ELSE "generate") /\ UNCHANGED snapshot
     ELSE Save(w, [Data(w) EXCEPT !.pending = TRUE], "model")
  /\ UNCHANGED <<task, jobVars, evidenceVars, continues, qlocal, faults, sources, published, planned>>

\* _select, up to the call: a call that an earlier attempt left open is not
\* repeated.
Plan(w) ==
  /\ DAt(w, "select") /\ DOwns(w)
  /\ IF ~ToDo(w) THEN DGoto(w, IF Data(w).built THEN "check" ELSE "generate") /\ UNCHANGED snapshot
     ELSE IF Data(w).pending THEN DGoto(w, "review") /\ UNCHANGED snapshot
     ELSE Save(w, [Data(w) EXCEPT !.pending = TRUE], "model")
  /\ UNCHANGED <<task, jobVars, evidenceVars, continues, qlocal, faults, sources, published, planned>>

\* The gateway's answer: a selection from the pool, or one that is not.
AskPlanner(w) ==
  /\ DAt(w, "model")
  /\ planned' = [planned EXCEPT ![<<Document(w), Operation(w)>>] = @ + 1]
  /\ \/ \E n \in 1 .. MaxClaims :
          dlocal' = [dlocal EXCEPT ![w].pc = "chosen", ![w].data.claims = n]
     \/ DGoto(w, "review")
  /\ UNCHANGED <<task, jobVars, evidenceVars, continues, qlocal, faults, sources, snapshot, published>>

SaveChoice(w) ==
  /\ DAt(w, "chosen") /\ DOwns(w)
  /\ Save(w, [Data(w) EXCEPT !.done = Append(@, Operation(w)), !.pending = FALSE], "select")
  /\ UNCHANGED <<task, jobVars, evidenceVars, continues, qlocal, faults, sources, published, planned>>

-----------------------------------------------------------------------------
(* The document *)

\* _generate_round: the sources are those of the selection; a page that
\* overflows loses its last claim, as long as there is one and a round left.
Generate(w) ==
  /\ DAt(w, "generate") /\ DOwns(w)
  /\ LET data == Data(w)
     IN  IF Outdated(data) THEN DGoto(w, "review") /\ UNCHANGED snapshot
         ELSE IF data.claims <= PageHolds THEN Save(w, [data EXCEPT !.built = TRUE], "check")
         ELSE IF data.claims > 1 /\ data.round < MaxRounds
         THEN Save(w, Compressed(data), "generate")
         ELSE DGoto(w, "review") /\ UNCHANGED snapshot
  /\ UNCHANGED <<task, jobVars, evidenceVars, continues, qlocal, faults, sources, published, planned>>

\* Mutant: what was built is published without another look at the sources.
CheckNothing(w) ==
  /\ DAt(w, "check") /\ DOwns(w)
  /\ DGoto(w, "register")
  /\ UNCHANGED <<task, jobVars, evidenceVars, continues, qlocal, faults, sources, snapshot, published,
                 planned>>

\* _publish, first transaction.
CheckSources(w) ==
  /\ DAt(w, "check") /\ DOwns(w)
  /\ DGoto(w, IF Outdated(Data(w)) THEN "review" ELSE "register")
  /\ UNCHANGED <<task, jobVars, evidenceVars, continues, qlocal, faults, sources, snapshot, published,
                 planned>>

\* _publish, second transaction: what is registered already stays; else the
\* application must still be at this task, and a cover letter's resume current.
Register(w) ==
  /\ DAt(w, "register") /\ DOwns(w)
  /\ LET t == Document(w)
         j == t[2]
         next == IF t = Resume(j) /\ CoverLetter THEN Cover(j) ELSE Form(j)
     IN  IF published[t] > 0
         THEN DGoto(w, "finish") /\ UNCHANGED <<task, application, published>>
         ELSE IF \/ Application(w) # [stage |-> "RESUME", current |-> t]
                 \/ t = Cover(j) /\ (published[Resume(j)] = 0 \/ Outdated(snapshot[Resume(j)]))
         THEN DGoto(w, "review") /\ UNCHANGED <<task, application, published>>
         ELSE /\ published' = [published EXCEPT ![t] = @ + 1]
              /\ task' = [task EXCEPT ![next] = Published("READY")]
              /\ application' = [application EXCEPT ![j] =
                   [stage |-> IF next = Form(j) THEN "FORM" ELSE "RESUME", current |-> next]]
              /\ DGoto(w, "finish")
  /\ UNCHANGED <<job, late, evidenceVars, continues, qlocal, faults, sources, snapshot, planned>>

FinishDocument(w) ==
  /\ DAt(w, "finish") /\ DOwns(w)
  /\ task' = [task EXCEPT ![Document(w)] = Ended(@, "SUCCEEDED")]
  /\ DLeave(w)
  /\ UNCHANGED <<jobVars, evidenceVars, continues, qlocal, faults, sources, snapshot, published, planned>>

-----------------------------------------------------------------------------
(* Reviews, errors, and what changes around the worker *)

\* ReviewRequired leaves the task to a human.
AskReview(w) ==
  /\ DAt(w, "review") /\ DOwns(w)
  /\ task' = [task EXCEPT ![Document(w)] = Ended(@, "WAITING_HUMAN")]
  /\ DLeave(w)
  /\ UNCHANGED <<jobVars, evidenceVars, continues, qlocal, faults, sources, snapshot, published, planned>>

\* The compiler fails, or its output is not a document: ReviewRequired.
CompileFails(w) ==
  /\ DAt(w, "generate") /\ DGoto(w, "review")
  /\ faults < MaxFaults /\ faults' = faults + 1
  /\ UNCHANGED <<task, jobVars, evidenceVars, continues, qlocal, sources, snapshot, published, planned>>

\* Worker._attempt: the gateway fails, a database stays locked, a file is not
\* what was recorded.
DocumentFails(w) ==
  /\ ~DAt(w, "idle") /\ DOwns(w)
  /\ faults < MaxFaults /\ faults' = faults + 1
  /\ \E retryable \in BOOLEAN :
       task' = [task EXCEPT ![Document(w)] = Retried(@, Document(w), retryable)]
  /\ DLeave(w)
  /\ UNCHANGED <<jobVars, evidenceVars, continues, qlocal, sources, snapshot, published, planned>>

\* A worker that is stopped gives its task back, to be continued.
WriterStops(w) ==
  /\ ~DAt(w, "idle") /\ DOwns(w)
  /\ faults < MaxFaults /\ faults' = faults + 1
  /\ task' = [task EXCEPT ![Document(w)] = Released(@)]
  /\ continues' = continues \cup {Document(w)}
  /\ DLeave(w)
  /\ UNCHANGED <<jobVars, evidenceVars, qlocal, sources, snapshot, published, planned>>

\* Found by a fence, by the heartbeat or when a failure is to be recorded.
DocumentLeaseLost(w) ==
  /\ ~DAt(w, "idle") /\ ~DOwns(w)
  /\ DLeave(w)
  /\ UNCHANGED <<task, jobVars, evidenceVars, continues, qlocal, faults, sources, snapshot, published,
                 planned>>

WriterCrashes(w) ==
  /\ ~DAt(w, "idle")
  /\ faults < MaxFaults /\ faults' = faults + 1
  /\ DLeave(w)
  /\ UNCHANGED <<task, jobVars, evidenceVars, continues, qlocal, sources, snapshot, published, planned>>

\* The operator corrects the issue and resumes the task.
OperatorRetries(t) ==
  /\ task[t].status = "WAITING_HUMAN"
  /\ task' = [task EXCEPT ![t].status = "READY"]
  /\ continues' = continues \cup {t}
  /\ UNCHANGED <<jobVars, evidenceVars, qlocal, faults, documentVars>>

\* A fact is revoked or changed, or the template is.
SourcesChange ==
  /\ sources < MaxSources /\ sources' = sources + 1
  /\ UNCHANGED <<task, jobVars, evidenceVars, continues, qlocal, faults, snapshot, published, planned,
                 dlocal>>

Writing(w) ==
  \/ LoadDocument(w) \/ StartDocument(w) \/ Plan(w) \/ AskPlanner(w) \/ SaveChoice(w) \/ Generate(w)
  \/ CheckSources(w) \/ Register(w) \/ FinishDocument(w) \/ AskReview(w) \/ DocumentLeaseLost(w)

DocumentsNext ==
  \/ \E w \in Writers :
       \/ Writing(w) \/ CompileFails(w) \/ DocumentFails(w) \/ WriterStops(w) \/ WriterCrashes(w)
       \/ \E t \in Tasks : ClaimDocument(w, t)
  \/ \E t \in DocumentTasks : OperatorRetries(t)
  \/ SourcesChange
=============================================================================
