--------------------------- MODULE MCSpireServer ---------------------------
(* Instances of the SpireServer controller.  The reconcile functions act on *)
(* one object each and meet only in the conditions and in the order of the  *)
(* pass, so an instance keeps the checks, the order and a few objects.      *)
EXTENDS OperandController, OperandSteps

\* The workload, after both checks of the spec.
StatefulSetSteps == ServerValidation \o ServerStatefulSet

\* The bundle ConfigMap, which is never read, and the Route, which has no owner and can
\* be switched off.
ConfigSteps == ServerValidation \o BundleConfigMap \o ServerRoute

\* The controller-manager ConfigMap, whose failed read leaves no condition.
SilentSteps == ServerValidation \o ControllerManagerConfigMap \o BundleConfigMap

Plain == [id |-> 1, invalid |-> {}, enabled |-> {}]
Other == [id |-> 2, invalid |-> {}, enabled |-> {}]
TwoSpecs == {Plain, Other}

RouteOnAndOff == {[id |-> 1, invalid |-> {}, enabled |-> {"federation", "managedRoute"}],
                  [id |-> 2, invalid |-> {}, enabled |-> {"federation"}]}
=============================================================================
