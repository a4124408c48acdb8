----------------------------- MODULE Conditions -----------------------------
(***************************************************************************)
(* The status conditions of a custom resource and the status manager that  *)
(* collects and publishes them (pkg/controller/status/status.go).          *)
(*                                                                         *)
(* A condition is abstracted to what the code tells apart:                 *)
(*   "None"         no such condition                                      *)
(*   "Reconciling"  False, reason Progressing, message "Reconciling <CR>": *)
(*                  what a pass publishes before it does anything          *)
(*   "Progressing"  False with a reason that means a rollout under way     *)
(*   "False"        False with any other reason (Failed)                   *)
(*   "True"         True                                                   *)
(***************************************************************************)

CondVal == {"None", "Reconciling", "Progressing", "False", "True"}

\* The conditions no pass has said anything about yet (NewManager).
NoConditions(types) == [c \in types |-> "None"]

\* SetReadyCondition looks at none of these.
NotOperational == {"Ready", "Degraded", "CreateOnlyMode"}

\* The summary of the conditions collected by one pass.  A failure wins over a
\* rollout in progress; a condition this pass did not set counts as healthy.
SetReadyCondition(conds) ==
    LET seen == {conds[c] : c \in DOMAIN conds \ NotOperational}
    IN  IF "False" \in seen THEN "False"
        ELSE IF "Progressing" \in seen THEN "Progressing"
        ELSE "True"

\* ApplyStatus: the Ready summary unless the controller set Ready itself, merged
\* over the conditions the resource already has.
Published(old, conds) ==
    LET ready == IF conds["Ready"] = "None" THEN SetReadyCondition(conds)
                                            ELSE conds["Ready"]
    IN  [c \in DOMAIN old |-> IF c = "Ready" THEN ready
                              ELSE IF conds[c] = "None" THEN old[c]
                              ELSE conds[c]]
=============================================================================
