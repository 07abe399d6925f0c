--------------------------- MODULE MCSlackDelivery ---------------------------
(* SlackDelivery on small instances: a message of each kind in turn, in one *)
(* of them followed by a notice, and things said about them (or links); one *)
(* listener that is started again, or two that overtake each other.         *)
EXTENDS SlackDelivery

MCMaxAttempts == [t \in Tasks |-> 2]
MCMayBe == [m \in Messages |-> IF m = 1 THEN Kinds ELSE {"notice"}]
=============================================================================
