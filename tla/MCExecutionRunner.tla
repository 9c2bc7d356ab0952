------------------------- MODULE MCExecutionRunner -------------------------
(***************************************************************************)
(* Instances of ExecutionRunner for TLC.                                   *)
(*                                                                         *)
(* A plan of three steps.  "build" needs "design", "verify" needs both,    *)
(* and the plan does not list them in that order, so the first step in     *)
(* order is not always the first ready one.                                *)
(***************************************************************************)
EXTENDS ExecutionRunner

Steps        == {"design", "build", "verify"}
Dependencies == [design |-> {}, build |-> {"design"}, verify |-> {"design", "build"}]
PlanOrder    == [verify |-> 1, design |-> 2, build |-> 3]
==============================================================================
