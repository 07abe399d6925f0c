--------------------------- MODULE ExternalEffect ---------------------------
(***************************************************************************)
(* What the ledger of external actions promises about a call that cannot   *)
(* take part in a transaction (a Slack post, a mail draft, an email): it   *)
(* begins before it is performed, is performed at most once, is called     *)
(* confirmed only if it was performed, and is never begun again, however   *)
(* little is known about it.  Where a refusal proves that nothing was done,*)
(* it is called failed only if it was not performed.                       *)
(***************************************************************************)
EXTENDS Integers

CONSTANTS
  Effects,
  Refusable   \* the effects whose refusal proves that they were not performed

VARIABLES
  stage,      \* what the ledger says of an effect
  performed   \* how often it has happened in the world outside

effectVars == <<stage, performed>>

EffectInit ==
  /\ stage = [x \in Effects |-> "NONE"]
  /\ performed = [x \in Effects |-> 0]

Stay(x) == stage'[x] = stage[x] /\ performed'[x] = performed[x]

Plan(x) == stage[x] = "NONE" /\ stage'[x] = "PLANNED" /\ performed'[x] = performed[x]

Begin(x) ==
  /\ stage[x] \in {"NONE", "PLANNED"} /\ stage'[x] = "EXECUTING"
  /\ performed'[x] = performed[x]

\* The call may arrive when the ledger has already given up on it.
Perform(x) ==
  /\ stage[x] \in {"EXECUTING", "UNKNOWN_RESULT"} /\ stage'[x] = stage[x]
  /\ performed[x] = 0 /\ performed'[x] = 1

Conclude(x) ==
  /\ stage[x] = "EXECUTING"
  /\ \/ stage'[x] = "UNKNOWN_RESULT"
     \/ stage'[x] = "SUCCEEDED" /\ performed[x] = 1
     \/ stage'[x] = "FAILED" /\ (x \in Refusable => performed[x] = 0)
  /\ performed'[x] = performed[x]

\* Evidence of the effect settles a result that was unknown.
Reconcile(x) ==
  /\ stage[x] = "UNKNOWN_RESULT" /\ stage'[x] = "SUCCEEDED"
  /\ performed[x] = 1 /\ performed'[x] = 1

EffectNext ==
  /\ DOMAIN stage' = Effects /\ DOMAIN performed' = Effects
  /\ \A x \in Effects :
       Stay(x) \/ Plan(x) \/ Begin(x) \/ Perform(x) \/ Conclude(x) \/ Reconcile(x)

EffectSpec == EffectInit /\ [][EffectNext]_effectVars
=============================================================================
