--------------------------- MODULE MCModelGateway ---------------------------
(* ModelGateway on a small instance: two tasks of one application, a route  *)
(* of two tiers, three days of two months, ceilings that only a few requests *)
(* fit under.                                                               *)
EXTENDS ModelGateway

CONSTANTS c1, c2, app

MCApplication == [c \in Callers |-> app]
MCMaximum == <<2, 3>>
MCTaskLimit == [c \in Callers |-> IF c = c1 THEN 5 ELSE 3]
MCMonthOf == <<1, 1, 2>>
=============================================================================
