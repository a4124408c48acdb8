---------------------------- MODULE MCSpireAgent ----------------------------
(* An instance of the SpireAgent controller: its workload, after the verdict *)
(* on the RBAC objects, which are in place all along and left out.           *)
EXTENDS OperandController, OperandSteps

DaemonSetSteps == AgentValidation \o AgentRBACAvailable \o AgentDaemonSet

GoodAndBadSpec == {[id |-> 1, invalid |-> {}, enabled |-> {}],
                   [id |-> 2, invalid |-> {"ConfigurationValid"}, enabled |-> {}]}
=============================================================================
