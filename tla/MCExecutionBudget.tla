-------------------------- MODULE MCExecutionBudget --------------------------
(* Instances of ExecutionBudget for TLC.                                     *)
EXTENDS ExecutionBudget

CONSTANTS a1, a2, a3, a4, b1, d1, tA, tB, tD, cA, cC

\* An event (a1) and a run (a2) of one contact, an event and a run of another contact of the same
\* tenant, and an event without a contact in each of two other tenants.
MCKind == [j \in Job |-> IF j \in {a2, a4} THEN "RUN" ELSE "EVENT"]
MCTenant == [j \in Job |-> IF j = b1 THEN tB ELSE IF j = d1 THEN tD ELSE tA]
MCContact == [j \in Job |-> IF j \in {b1, d1} THEN NoContact ELSE IF j \in {a3, a4} THEN cC ELSE cA]
=============================================================================
