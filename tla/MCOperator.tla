----------------------------- MODULE MCOperator -----------------------------
(* The operator with the controller of one operand and its workload: the    *)
(* SpiffeCSIDriver or the SpireOIDCDiscoveryProvider.                       *)
EXTENDS Operator, OperandSteps

CSIWorkload == CSIDaemonSet

OIDCWorkload == OIDCValidation \o OIDCDeployment

OneSpec == {[id |-> 1, invalid |-> {}, enabled |-> {}]}
=============================================================================
