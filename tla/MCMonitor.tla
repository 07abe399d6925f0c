----------------------------- MODULE MCMonitor -----------------------------
(* The monitor on small instances: mail about a review and an interview, a   *)
(* page that says nothing and one that rejects the application.              *)
EXTENDS Monitor

CONSTANTS app1, app2, review, interview, blank, verdict, other

MCUnchecked == {"UNDER_REVIEW"}
MCMaxAttempts == [t \in Tasks |-> IF t = app1 THEN 2 ELSE 1]
MCAbout == [s \in Sources |-> IF s = other THEN {app2} ELSE {app1}]
MCReadings == [s \in Sources |->
  CASE s = review -> {[status |-> "UNDER_REVIEW", confidence |-> "certain"]}
    [] s = interview -> {[status |-> "INTERVIEW", confidence |-> "fair"]}
    [] s \in {blank, other} -> {[status |-> "NONE", confidence |-> "none"]}
    [] OTHER -> {[status |-> "REJECTED", confidence |-> "certain"]}]
=============================================================================
