-------------------------- MODULE MCFormPreparation --------------------------
(* FormPreparation on a small instance: a page with a field that is known   *)
(* and one that must be asked for, and a page that has only the final       *)
(* control, which the first page may have as well.                          *)
EXTENDS FormPreparation

CONSTANTS f1, f2, v1, v2

MCMaxAttempts == [t \in Tasks |-> 2]
MCPages == <<<<f1, f2>>, <<>>>>
MCOffers == [f \in {f1, f2} |-> IF f = f1 THEN {v1, v2} ELSE {v1}]
MCKnown == [f \in {f1, f2} |-> IF f = f1 THEN v1 ELSE Null]
=============================================================================
