------------------------------ MODULE Pipeline ------------------------------
(***************************************************************************)
(* The pipeline from a link in Slack to an application whose documents are *)
(* ready: the qualification workers and the document workers on one queue. *)
(***************************************************************************)
EXTENDS Documents

pipelineVars == <<qualificationVars, documentVars>>

PipelineInit == QualificationInit /\ DocumentsInit

\* Recovery wakes a due retry, and takes back the row of an attempt that is no
\* longer under way.
RecoverPipeline(t) ==
  /\ RecoverTask(t)
  /\ \A w \in Qualifiers : qlocal[w].task # t \/ ~Fence(t, w)
  /\ \A w \in Writers : dlocal[w].task # t \/ ~Fence(t, w)
  /\ UNCHANGED <<jobVars, evidenceVars, continues, qlocal, faults, documentVars>>

\* An attempt outlives its lease, and goes on.
Outlives(t) ==
  /\ task[t].status = "ACTIVE"
  /\ \/ \E w \in Qualifiers : qlocal[w].task = t /\ Fence(t, w)
     \/ \E w \in Writers : dlocal[w].task = t /\ Fence(t, w)
  /\ faults < MaxFaults /\ faults' = faults + 1
  /\ task' = [task EXCEPT ![t] = Lapsed(@, t)]
  /\ UNCHANGED <<jobVars, evidenceVars, continues, qlocal, documentVars>>

PipelineNext ==
  \/ QualificationNext /\ UNCHANGED documentVars
  \/ DocumentsNext
  \/ \E t \in Tasks : RecoverPipeline(t) \/ Outlives(t)

\* Workers poll and go on, and recovery runs periodically; the humans who are
\* asked may stay away.
PipelineFairness ==
  /\ \A w \in Qualifiers :
       /\ WF_pipelineVars(Qualification(w) /\ UNCHANGED documentVars)
       /\ WF_pipelineVars(\E t \in Tasks : ClaimQualifier(w, t) /\ UNCHANGED documentVars)
  /\ \A w \in Writers :
       /\ WF_pipelineVars(Writing(w))
       /\ WF_pipelineVars(\E t \in Tasks : ClaimDocument(w, t))
  /\ \A t \in Tasks : WF_pipelineVars(RecoverPipeline(t))

PipelineSpec == PipelineInit /\ [][PipelineNext]_pipelineVars
FairPipelineSpec == PipelineSpec /\ PipelineFairness

-----------------------------------------------------------------------------
(* Properties *)

\* No model is asked the same question twice for one task: neither a crash with
\* the answer on its way, nor a second attempt beside the first, repeats it
\* (agents/worker.py: an interrupted model request is not blindly billed again).
ModelAskedOnce ==
  /\ \A j \in Jobs : asked[j] <= 1
  /\ \A s \in Steps : planned[s] <= 1

\* A job that passes had not missed its deadline when the decision was
\* committed, however long its task had waited before.
PassedInTime ==
  [][\A j \in Jobs : job'[j] = "PASSED" /\ job[j] # "PASSED" => Outcome(finding[j].facts, j \in late) = "PASS"]_pipelineVars

\* A document is published once, and never with claims that had been revoked or
\* changed before the publishing attempt began.
PublishedFromSources ==
  [][\A t \in DocumentTasks : published'[t] # published[t] =>
       /\ published[t] = 0
       /\ \E w \in Writers : dlocal[w].task = t /\ snapshot[t].sources >= dlocal[w].since]_pipelineVars

\* A link gets somewhere: its job is decided or its task has failed, and an
\* application gets to its form, or is left to a human or to the operator.
PipelineSettles ==
  \A j \in Jobs :
    /\ <>(job[j] \in Decided \/ \E t \in Intakes \cup {Qualify(j)} : task[t].status = "FAILED")
    /\ job[j] = "PASSED" ~>
         (application[j].stage = "FORM"
            \/ \E t \in {Resume(j), Cover(j)} : task[t].status \in {"WAITING_HUMAN", "FAILED"})
=============================================================================
