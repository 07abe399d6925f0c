----------------------------- MODULE MCPipeline -----------------------------
(* The pipeline on a small instance: a message that names a job, whose page   *)
(* leaves a question to a model or shows a challenge; two workers that        *)
(* qualify and one that writes, a resume with two model operations and a      *)
(* cover letter with one.                                                     *)
EXTENDS Pipeline

CONSTANTS opening, first

MCTasks == {first, Qualify(opening), Resume(opening), Cover(opening), Form(opening)}
MCMaxAttempts == [t \in Tasks |-> 2]
MCNames == [e \in Intakes |-> {opening}]
MCPage(meaning, challenge) ==
  [open |-> "PASS", meaning |-> meaning, rest |-> "PASS", challenge |-> challenge, dated |-> TRUE]
MCShows == [x \in Jobs |-> {MCPage("REVIEW", FALSE), MCPage("PASS", TRUE)}]
MCOperations == [BUILD_RESUME |-> <<"resume_planning", "resume_finalization">>,
                 BUILD_COVER_LETTER |-> <<"cover_letter">>]
=============================================================================
