-------------------------- MODULE MCResourceUpdate --------------------------
(* Every kind of object the operator writes, and an operator that runs      *)
(* without a proxy, behind one, behind another one with its own exceptions, *)
(* behind one whose CA bundle was forgotten, or in create-only mode.        *)
EXTENDS ResourceUpdate

Run(http, https, noProxy, ca, createOnly) ==
    [proxy |-> [http |-> http, https |-> https, noProxy |-> noProxy, ca |-> ca],
     createOnly |-> createOnly]

FiveProcesses ==
    { Run(<<>>, <<>>, <<>>, <<>>, FALSE),
      Run(<< "a" >>, << "a" >>, <<>>, << "ca" >>, FALSE),
      Run(<<>>, << "b" >>, << "local" >>, << "ca" >>, FALSE),
      Run(<< "a" >>, <<>>, <<>>, <<>>, FALSE),
      Run(<< "a" >>, << "a" >>, <<>>, << "ca" >>, TRUE) }
=============================================================================
