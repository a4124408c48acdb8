----------------------------- MODULE OperandCR -----------------------------
(***************************************************************************)
(* What an operand controller promises to anybody who watches nothing but  *)
(* the operand CR, the controller of the ZTWIM CR among them: users and    *)
(* the garbage collector own the existence and the spec of the CR, the     *)
(* controller owns its Ready condition.  It says "Reconciling" first and   *)
(* gives at most one verdict per pass.  OperandController, with its cache, *)
(* queue, objects and conflicts, implements this.                          *)
(***************************************************************************)
EXTENDS Naturals

CONSTANTS
    Specs,      \* the specs users may write
    MaxUid      \* bound: incarnations of the CR

VARIABLES
    cr,         \* [uid, spec, ready], uid 0 when there is none
    phase       \* of the controller: "idle", "started", "working"

crVars == <<cr, phase>>

Verdicts == {"True", "False", "Progressing"}

Init ==
    /\ cr.uid \in 0..MaxUid
    /\ cr.ready \in Verdicts \cup {"None"}
    /\ phase = "idle"

Create(u, s) ==
    /\ cr.uid = 0
    /\ cr' = [uid |-> u, spec |-> s, ready |-> "None"]
    /\ UNCHANGED phase

\* An edit leaves the verdict on the old spec in place.
Edit(s) ==
    /\ cr.uid # 0
    /\ cr' = [cr EXCEPT !.spec = s]
    /\ UNCHANGED phase

\* By a user, or by the garbage collector after its owner.
Delete ==
    /\ cr'.uid = 0 /\ cr'.ready = "None"
    /\ UNCHANGED phase

\* A pass reads some version of the CR, which may be gone by now.
Start ==
    /\ phase = "idle" /\ phase' = "started"
    /\ UNCHANGED cr

\* Nothing is said when the version read says so already, or when the CR is gone.
Announce ==
    /\ phase = "started" /\ phase' = "working"
    /\ \/ cr.uid # 0 /\ cr' = [cr EXCEPT !.ready = "Reconciling"]
       \/ UNCHANGED cr

\* The verdict is never the first a CR says.
Conclude(v) ==
    /\ phase = "working" /\ phase' = "idle"
    /\ cr.uid # 0 /\ cr.ready # "None"
    /\ cr' = [cr EXCEPT !.ready = v]

\* The CR is gone, or another one, by the time of the verdict.
GiveUp ==
    /\ phase = "working" /\ phase' = "idle"
    /\ UNCHANGED cr

\* The process is replaced.
Crash ==
    /\ phase' = "idle"
    /\ UNCHANGED cr

Controller == Announce \/ (\E v \in Verdicts : Conclude(v)) \/ GiveUp

Next ==
    \/ \E u \in 1..MaxUid, s \in Specs : Create(u, s)
    \/ \E s \in Specs : Edit(s)
    \/ Delete
    \/ Start \/ Controller \/ Crash

Safety == Init /\ [][Next]_crVars

\* A pass ends, and a CR that has no Ready condition yet is looked at.
Spec ==
    /\ Safety
    /\ WF_crVars(Controller)
    /\ WF_crVars(cr.uid # 0 /\ cr.ready = "None" /\ Start)
=============================================================================
