--------------------------- MODULE CheckpointReuse ---------------------------
(***************************************************************************)
(* The executions of one lineage: each continues its predecessor with a    *)
(* new plan, takes over the checkpoints that still hold, and hands every   *)
(* node the evidence its prerequisites left, wherever in the lineage they  *)
(* were run.                                                               *)
(*                                                                         *)
(* A plan gives each of its nodes prerequisites and an input: whatever     *)
(* else goes into inputDigest, the agent's prompt and the workspace        *)
(* baseline included, so two plans may agree on some nodes only.  Nodes    *)
(* are numbered in the order of the plan's steps.  A lineage is a sequence *)
(* because an execution is superseded once.  Every step is a live one, and *)
(* what can make a step fail apart from its evidence is left out.          *)
(***************************************************************************)
EXTENDS Naturals, Sequences, SequencesExt, FiniteSets, FiniteSetsExt

CONSTANTS Nodes,      \* the nodes of all plans, numbers
          Intents,    \* draft nodes a run may be asked for
          Plans,      \* records with nodes, deps, input, intents and binding
          Requests,   \* the nodeIds a run is asked for: sets, or {} for none
          MaxRuns     \* bound of the lineage

Digest(p, n) == <<p.input[n], p.deps[n]>>

PlanAssumption ==
    /\ Nodes \subseteq Nat /\ MaxRuns \in Nat
    /\ \A p \in Plans :
          /\ p.nodes \subseteq Nodes /\ p.nodes # {}
          /\ DOMAIN p.deps = p.nodes /\ DOMAIN p.input = p.nodes /\ DOMAIN p.intents = p.nodes
          /\ \A n \in p.nodes : /\ p.deps[n] \subseteq {m \in p.nodes : m < n}
                                /\ p.intents[n] \subseteq Intents

VARIABLES runs,    \* the executions of the lineage, the root first; none selected is all
          given    \* given[i][n]: the runs whose evidence node n was handed in run i

vars == <<runs, given>>

Closed(p, S)   == \A n \in S : p.deps[n] \subseteq S
\* `visit`, from a set of nodes
Reached(p, S)  == {n \in p.nodes : \A T \in SUBSET p.nodes : (S \subseteq T /\ Closed(p, T)) => n \in T}

Current  == Len(runs)
Plan(i)  == runs[i].plan

TypeOK ==
    /\ Current \in 1 .. MaxRuns /\ Len(given) = Current
    /\ \A i \in 1 .. Current :
          /\ runs[i].status \in {"running", "paused", "superseded", "completed", "failed"}
          /\ (runs[i].status = "superseded") <=> (i < Current)
          /\ runs[i].selected \subseteq Plan(i).nodes
          /\ runs[i].completed = runs[i].reused \cup runs[i].own
          /\ runs[i].reused \cap runs[i].own = {}
          /\ DOMAIN given[i] = runs[i].own

-----------------------------------------------------------------------------
(* selectedExecutionNodes                                                  *)

Matches(p, id) == IF id \in p.nodes THEN {id} ELSE {n \in p.nodes : id \in p.intents[n]}
Known(p, ids)  == \A id \in ids : Matches(p, id) # {}

\* Mutant: a selection does not bring its prerequisites.
SelectedAlone(p, ids) == UNION {Matches(p, id) : id \in ids}

Selected(p, ids) == Reached(p, UNION {Matches(p, id) : id \in ids})

-----------------------------------------------------------------------------
(* reusableCheckpoints                                                     *)

Changed(old, new) ==
    {n \in new.nodes : n \notin old.nodes \/ Digest(old, n) # Digest(new, n)}

\* Mutant: a node whose prerequisite has changed keeps its checkpoint.
InvalidatedAlone(old, new) == Changed(old, new)

Invalidated(old, new) == {n \in new.nodes : Reached(new, {n}) \cap Changed(old, new) # {}}

Reusable(old, new, completed) == (completed \cap new.nodes) \ Invalidated(old, new)

-----------------------------------------------------------------------------
(* executionDependencyContext: the walk from a run to the one whose events *)
(* hold the node's completion.                                             *)

\* Mutant: the walk looks at the predecessor only.
FollowsOnce(k, i, n) ==
    i = k \/ (i + 1 = k /\ n \in runs[k].reused /\ Plan(i).binding = Plan(k).binding)

\* Mutant: the folders are not compared.
FollowsAnywhere(k, i, n) ==
    \A j \in i + 1 .. k :
        /\ n \notin runs[j].own /\ n \in runs[j].reused
        /\ n \in Reusable(Plan(j - 1), Plan(j), runs[j - 1].completed)
        /\ Digest(Plan(j - 1), n) = Digest(Plan(k), n)

Follows(k, i, n) ==
    \A j \in i + 1 .. k :
        /\ n \notin runs[j].own /\ n \in runs[j].reused
        /\ Plan(j - 1).binding = Plan(k).binding
        /\ n \in Reusable(Plan(j - 1), Plan(j), runs[j - 1].completed)
        /\ Digest(Plan(j - 1), n) = Digest(Plan(k), n)

Sources(k, n) == {i \in 1 .. k : n \in runs[i].own /\ n \in runs[k].completed /\ Follows(k, i, n)}
Found(k, n)   == Sources(k, n) # {}
Source(k, n)  == Max(Sources(k, n))
Required(p, n) == Reached(p, {n}) \ {n}

-----------------------------------------------------------------------------
NewRun(p, selected, reused) ==
    [plan |-> p, status |-> "running", selected |-> selected, reused |-> reused,
     completed |-> reused, own |-> {}]

NoneGiven == [n \in {} |-> {}]

Init ==
    \E p \in Plans, ids \in Requests :
        /\ Known(p, ids)
        /\ runs = <<NewRun(p, Selected(p, ids), {})>> /\ given = <<NoneGiven>>

Run == runs[Current]

\* Mutant: only what the run has done itself counts.
IncompleteHere == (IF Run.selected = {} THEN Run.plan.nodes ELSE Run.selected) \ Run.own

Incomplete == (IF Run.selected = {} THEN Run.plan.nodes ELSE Run.selected) \ Run.completed
Ready      == {n \in Incomplete : Run.plan.deps[n] \subseteq Run.completed}

Running == Run.status = "running" /\ Incomplete # {} /\ Ready # {}

\* The first ready step is handed its evidence and is completed.
RunsNode ==
    /\ Running
    /\ LET n == Min(Ready)
           required == Required(Run.plan, n)
       IN  /\ \A d \in required : Found(Current, d)
           /\ runs' = [runs EXCEPT ![Current].own = @ \cup {n}, ![Current].completed = @ \cup {n}]
           /\ given' = [given EXCEPT ![Current] =
                 [m \in runs[Current].own \cup {n} |->
                     IF m = n THEN [d \in required |-> Source(Current, d)] ELSE @[m]]]

\* DEPENDENCY_EVIDENCE_MISSING, or no step is ready.
FailsNode ==
    /\ Run.status = "running" /\ Incomplete # {}
    /\ Ready # {} => \E d \in Required(Run.plan, Min(Ready)) : ~Found(Current, d)
    /\ runs' = [runs EXCEPT ![Current].status = "failed"] /\ UNCHANGED given

Completes ==
    /\ Run.status = "running" /\ Incomplete = {}
    /\ runs' = [runs EXCEPT ![Current].status = "completed"] /\ UNCHANGED given

Pauses ==
    /\ Run.status = "running"
    /\ runs' = [runs EXCEPT ![Current].status = "paused"] /\ UNCHANGED given

ResumesPinned ==
    /\ Run.status = "paused"
    /\ runs' = [runs EXCEPT ![Current].status = "running"] /\ UNCHANGED given

\* Continues with an approved plan, for the nodes that are asked for or for
\* those of the predecessor; refused when one is not in the new plan.
Continues(p, ids) ==
    /\ Run.status = "paused" /\ Current < MaxRuns
    /\ LET asked == IF ids = {} THEN Run.selected ELSE ids
       IN  /\ Known(p, asked)
           /\ runs' = Append([runs EXCEPT ![Current].status = "superseded"],
                             NewRun(p, Selected(p, asked), Reusable(Run.plan, p, Run.completed)))
    /\ given' = Append(given, NoneGiven)

Next ==
    \/ RunsNode \/ FailsNode \/ Completes \/ Pauses \/ ResumesPinned
    \/ \E p \in Plans, ids \in Requests : Continues(p, ids)

Spec == Init /\ [][Next]_vars

-----------------------------------------------------------------------------
(* listLineageArtifacts: the artifacts a run shows as its own or reused.   *)

\* Mutant: the parents of the predecessor are asked for all it has reused.
KeptOfAll(k, i) == IF i = k THEN Plan(k).nodes ELSE runs[k].reused

Kept(k, i) == IF i = k THEN Plan(k).nodes
              ELSE {n \in Nodes : \A j \in i + 1 .. k : n \in runs[j].reused}

Listed(k) == {a \in (1 .. k) \X Nodes : a[2] \in runs[a[1]].own /\ a[2] \in Kept(k, a[1])}

-----------------------------------------------------------------------------
(* Safety                                                                  *)

Together(k) == \A i \in 1 .. k : Plan(i).binding = Plan(k).binding

\* A node whose prerequisites are completed finds their evidence, however
\* often the lineage was replanned, unless the folder's identity has changed.
EvidenceIsFound ==
    \A k \in 1 .. Current, n \in Nodes :
        Together(k) /\ n \in runs[k].completed => Found(k, n)

\* The evidence a completed node was handed is the evidence the run counts
\* for its prerequisites now: what is reused was built on what is reused.
EvidenceIsConsistent ==
    \A n \in Run.completed :
        Found(Current, n) =>
            LET s == Source(Current, n) IN
            /\ Required(Plan(s), n) = Required(Run.plan, n)
            /\ \A d \in Required(Run.plan, n) :
                  /\ Found(Current, d)
                  /\ given[s][n][d] = Source(Current, d)

\* The artifacts that are listed with a run are those of the executions its
\* completed nodes' evidence comes from: one of each, none of a superseded try.
ListedIsEvidence ==
    \A k \in 1 .. Current :
        Together(k) => Listed(k) = {<<Source(k, n), n>> : n \in runs[k].completed}

\* A selected run always has a step to run until it has run all of them.
SelectionIsRunnable == Run.status = "running" /\ Incomplete # {} => Ready # {}

\* What a node is handed was made in the folder the node is run in.
EvidenceIsOfTheFolder ==
    \A k \in 1 .. Current : \A n \in DOMAIN given[k] : \A d \in DOMAIN given[k][n] :
        Plan(given[k][n][d]).binding = Plan(k).binding
=============================================================================
