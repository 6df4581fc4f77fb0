---------------------------- MODULE MCTransferPages ----------------------------
(* The budget for model-checking TransferPages: every fault and user action  *)
(* a page has.                                                               *)
EXTENDS TransferPages

AllButPause == [f \in Faults |-> IF f = "pause" THEN 0 ELSE 1]
=============================================================================
