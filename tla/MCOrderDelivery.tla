-------------------------- MODULE MCOrderDelivery --------------------------
(***************************************************************************)
(* Small instances of OrderDelivery for TLC.                               *)
(***************************************************************************)
EXTENDS OrderDelivery, TLC

CONSTANTS o1, o2, w1, w2

\* o1: one SOAP command; o2: one SOAP command and the training transaction.
MCPlanLen == [o \in Orders |-> IF o = o1 THEN 1 ELSE 2]
\* Each order has one step.
MCShortPlan == [o \in Orders |-> 1]
MCSymmetry == Permutations({w1, w2})
=============================================================================
