------------------------- MODULE MCZTWIMController -------------------------
(* Model-checking instances of ZTWIMController. *)
EXTENDS ZTWIMController
=============================================================================
