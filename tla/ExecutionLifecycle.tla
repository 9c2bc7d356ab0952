------------------------- MODULE ExecutionLifecycle -------------------------
(***************************************************************************)
(* What an execution promises whoever approved its plan: the selected      *)
(* steps are done one at a time, each after the steps it depends on; a     *)
(* checkpoint is kept through pauses; and an execution that has ended has  *)
(* ended for good, COMPLETED only with every selected step done.           *)
(*                                                                         *)
(* The runner, its awaits, requests that race it, crashes and restarts do  *)
(* not appear here: ExecutionRunner implements this module.                *)
(***************************************************************************)
CONSTANTS Node, None, DependsOn, Selected

VARIABLES phase,     \* "active", "PAUSED" or how it ended
          done,      \* steps with a checkpoint
          working    \* the step in flight, or None

vars == <<phase, done, working>>

Init ==
    /\ phase = "active"
    /\ done \in {nodes \in SUBSET Node : \A n \in nodes : DependsOn[n] \subseteq nodes}
    /\ working = None

Begin(n) ==
    /\ phase = "active" /\ working = None
    /\ n \in Selected \ done
    /\ DependsOn[n] \subseteq done
    /\ working' = n
    /\ UNCHANGED <<phase, done>>

Finish ==
    /\ phase = "active" /\ working # None
    /\ done' = done \cup {working}
    /\ working' = None
    /\ UNCHANGED phase

\* A step in flight when the server died is given up, not its predecessors.
Pause ==
    /\ phase = "active"
    /\ phase' = "PAUSED"
    /\ working' = None
    /\ UNCHANGED done

Resume ==
    /\ phase = "PAUSED"
    /\ phase' = "active"
    /\ UNCHANGED <<done, working>>

Complete ==
    /\ phase = "active" /\ working = None
    /\ Selected \subseteq done
    /\ phase' = "COMPLETED"
    /\ UNCHANGED <<done, working>>

Fail ==
    /\ phase = "active"
    /\ phase' = "FAILED"
    /\ working' = None
    /\ UNCHANGED done

Cancel ==
    /\ phase \in {"active", "PAUSED"}
    /\ phase' = "CANCELLED"
    /\ working' = None
    /\ UNCHANGED done

Supersede ==
    /\ phase = "PAUSED"
    /\ phase' = "SUPERSEDED"
    /\ UNCHANGED <<done, working>>

Next ==
    \/ \E n \in Node : Begin(n)
    \/ Finish \/ Pause \/ Resume
    \/ Complete \/ Fail \/ Cancel \/ Supersede

Spec == Init /\ [][Next]_vars
==============================================================================
