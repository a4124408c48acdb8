----------------------------- MODULE MCSpiffeCSI -----------------------------
(* An instance of the SpiffeCSIDriver controller with its SecurityContext-  *)
(* Constraints, which are reconciled without asking for create-only mode.   *)
EXTENDS OperandController, OperandSteps

SCCSteps == CSIValidation \o CSISCC

OneSpec == {[id |-> 1, invalid |-> {}, enabled |-> {}]}
=============================================================================
