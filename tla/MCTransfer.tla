------------------------------ MODULE MCTransfer ------------------------------
(* Budgets for model-checking Transfer: how often each fault or user action  *)
(* may happen in a behaviour.                                                *)
EXTENDS Transfer

Allow(faults) == [f \in Faults |-> IF f \in faults THEN 1 ELSE 0]

Everything == Allow(Faults)
=============================================================================
