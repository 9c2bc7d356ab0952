------------------------------ MODULE ProposedPlan ------------------------------
(***************************************************************************)
(* From a provider's proposal to the structure of a plan: the nodes and    *)
(* their dependencies, the relationships one after another, the            *)
(* relationships that the dependencies still lack, the validation of the   *)
(* graph, and the check that the plan's steps can be put in an order.      *)
(*                                                                         *)
(* A relationship's id is a tuple; the one the server makes for a          *)
(* dependency is the pair of its nodes, which a provider may choose, too.  *)
(***************************************************************************)
EXTENDS Naturals, SequencesExt, Relation

CONSTANTS Nodes, Unknown,       \* Unknown: an id no node has
          Ids, Types,           \* of relationships the provider sends
          Waits,                \* sets of the dependencies a node may declare
          MaxRelations,         \* bound of the relationships it sends
          MaxRelationships      \* of the graph's budget

ProposedPlanAssumption ==
    /\ Unknown \notin Nodes /\ "REQUIRES" \in Types
    /\ Waits \subseteq SUBSET (Nodes \cup {Unknown})

VARIABLES
    sent,       \* what the provider declared: its nodes' dependencies and its relationships
    dependsOn,  \* node -> its dependencies
    graph,      \* the relationships: id, type, from and to
    phase,
    edges,      \* of the plan: the pairs that are required
    indegree, ready, visited    \* of the loop that orders the steps

vars == <<sent, dependsOn, graph, phase, edges, indegree, ready, visited>>
loop == <<edges, indegree, ready, visited>>

Init ==
    /\ dependsOn \in [Nodes -> Waits] /\ sent = [waits |-> dependsOn, relations |-> <<>>]
    /\ graph = {} /\ phase = "nodes"
    /\ edges = {} /\ indegree = [n \in Nodes |-> 0] /\ ready = <<>> /\ visited = 0

------------------------------------------------------------------------------
\* materializeProviderProposal
ChecksNodes ==
    /\ phase = "nodes"
    /\ phase' = IF \E n \in Nodes : Unknown \in dependsOn[n] THEN "UNKNOWN_DEPENDENCY"
                ELSE IF \E n \in Nodes : n \in dependsOn[n] THEN "PROPOSED_GRAPH_CYCLE"
                ELSE "relations"
    /\ UNCHANGED <<sent, dependsOn, graph, loop>>

Sent == [id : Ids, type : Types, from : Nodes \cup {Unknown}, to : Nodes \cup {Unknown}]

\* Mutant: of two relationships between the same nodes the second is passed over.
SameEnds(r, s) == r.from = s.from /\ r.to = s.to

SameKey(r, s) == r.type = s.type /\ r.from = s.from /\ r.to = s.to

WithRequired(r) ==
    IF r.type = "REQUIRES" THEN [dependsOn EXCEPT ![r.to] = @ \cup {r.from}] ELSE dependsOn

\* The next relationship: one that was sent before, in other words, is passed over.
TakesRelation ==
    /\ phase = "relations" /\ Len(sent.relations) < MaxRelations
    /\ \E r \in Sent :
          /\ sent' = [sent EXCEPT !.relations = Append(@, r)]
          /\ IF r.from = Unknown \/ r.to = Unknown \/ r.from = r.to
             THEN phase' = "INVALID_RELATIONSHIP" /\ UNCHANGED <<dependsOn, graph>>
             ELSE IF \E s \in graph : SameKey(r, s) THEN UNCHANGED <<phase, dependsOn, graph>>
             ELSE IF \E s \in graph : s.id = r.id
             THEN phase' = "DUPLICATE_RELATIONSHIP" /\ UNCHANGED <<dependsOn, graph>>
             ELSE graph' = graph \cup {r} /\ dependsOn' = WithRequired(r) /\ UNCHANGED phase
    /\ UNCHANGED loop

\* The relationships that the declared dependencies lack
Lacking ==
    {[id |-> <<d[1], d[2]>>, type |-> "REQUIRES", from |-> d[1], to |-> d[2]] :
        d \in {e \in Nodes \X Nodes : e[1] \in dependsOn[e[2]]
                                      /\ ~\E s \in graph : s.type = "REQUIRES" /\ s.from = e[1] /\ s.to = e[2]}}

Completes ==
    /\ phase = "relations"
    /\ LET clash == \E r \in Lacking : \E s \in graph : s.id = r.id
       IN /\ phase' = IF clash THEN "INVALID_RELATIONSHIP"
                      ELSE IF Cardinality(graph \cup Lacking) > MaxRelationships THEN "RELATIONSHIP_BUDGET_EXCEEDED"
                      ELSE "graph"
          /\ graph' = IF clash THEN graph ELSE graph \cup Lacking
    /\ UNCHANGED <<sent, dependsOn, loop>>

\* Mutant: one round too few.
AcyclicShort ==
    LET left[k \in 0..Cardinality(Nodes)] ==
          IF k = 0 THEN Nodes ELSE {n \in left[k - 1] : dependsOn[n] \cap left[k - 1] # {}}
    IN left[Cardinality(Nodes) - 1] = {}

\* assertAcyclic: what is left after k rounds of taking those that wait for nobody
Acyclic ==
    LET left[k \in 0..Cardinality(Nodes)] ==
          IF k = 0 THEN Nodes ELSE {n \in left[k - 1] : dependsOn[n] \cap left[k - 1] # {}}
    IN left[Cardinality(Nodes)] = {}

\* Mutant: the graph is taken as it was proposed.
GraphIsAlwaysValid == "steps"

\* validateProposedGraph
Validated ==
    CASE ~Acyclic -> "PROPOSED_GRAPH_CYCLE"
      [] Acyclic /\ \E r \in graph : r.type = "REQUIRES" /\ r.from \notin dependsOn[r.to] -> "INCONSISTENT_DEPENDENCY"
      [] OTHER -> "steps"

ValidatesGraph ==
    /\ phase = "graph" /\ phase' = Validated
    /\ UNCHANGED <<sent, dependsOn, graph, loop>>

\* planEdgesFromProposal and bindPlanToProposal
PlanEdges == {<<r.from, r.to>> : r \in {s \in graph : s.type = "REQUIRES"}}

\* validatePlanStructure: the edges and the steps' dependencies are the same, and then
\* the steps nothing is before are ready, in any order.
ChecksSteps ==
    /\ phase = "steps"
    /\ edges' = PlanEdges
    /\ phase' = IF edges' = {e \in Nodes \X Nodes : e[1] \in dependsOn[e[2]]} THEN "order" ELSE "INCONSISTENT"
    /\ indegree' = [n \in Nodes |-> Cardinality(dependsOn[n])]
    /\ \E order \in SetToSeqs({n \in Nodes : dependsOn[n] = {}}) : ready' = order
    /\ UNCHANGED <<sent, dependsOn, graph, visited>>

Targets(n) == {e[2] : e \in {f \in edges : f[1] = n}}

Freed(n) == {t \in Targets(n) : indegree[t] = 1}

VisitsStep ==
    /\ phase = "order" /\ ready # <<>>
    /\ LET n == Head(ready)
       IN /\ indegree' = [t \in Nodes |-> IF t \in Targets(n) THEN indegree[t] - 1 ELSE indegree[t]]
          /\ \E order \in SetToSeqs(Freed(n)) : ready' = Tail(ready) \o order
    /\ visited' = visited + 1
    /\ UNCHANGED <<sent, dependsOn, graph, phase, edges>>

Accepts ==
    /\ phase = "order" /\ ready = <<>>
    /\ phase' = IF visited = Cardinality(Nodes) THEN "accepted" ELSE "CYCLE"
    /\ UNCHANGED <<sent, dependsOn, graph, loop>>

Next == ChecksNodes \/ TakesRelation \/ Completes \/ ValidatesGraph \/ ChecksSteps \/ VisitsStep \/ Accepts

Spec == Init /\ [][Next]_vars

------------------------------------------------------------------------------
SentRelations == {sent.relations[i] : i \in DOMAIN sent.relations}

\* What the provider says comes before what, in either way of saying it.
SentBefore ==
    {e \in Nodes \X Nodes : e[1] \in sent.waits[e[2]]}
    \cup {<<r.from, r.to>> : r \in {s \in SentRelations : s.type = "REQUIRES"}}

Refusals == {"UNKNOWN_DEPENDENCY", "PROPOSED_GRAPH_CYCLE", "INVALID_RELATIONSHIP", "DUPLICATE_RELATIONSHIP",
             "RELATIONSHIP_BUDGET_EXCEEDED"}

\* The variables have their types; once the graph is valid, so is the plan made of it.
TypeOK ==
    /\ sent.waits \in [Nodes -> Waits] /\ SentRelations \subseteq Sent
    /\ dependsOn \in [Nodes -> SUBSET (Nodes \cup {Unknown})]
    /\ phase \in {"nodes", "relations", "graph", "steps", "order", "accepted"} \cup Refusals
    /\ edges \subseteq Nodes \X Nodes /\ indegree \in [Nodes -> 0..Cardinality(Nodes)]
    /\ visited \in 0..Cardinality(Nodes)

Ordered(before) == LET closed == TransitiveClosure([p \in Nodes \X Nodes |-> p \in before], Nodes)
                   IN \A n \in Nodes : ~closed[n, n]

\* A plan that is accepted holds every order the provider asked for, in each of the
\* three places that tell it, and no circle of them.
AcceptedIsWhole ==
    phase = "accepted" =>
        /\ edges = SentBefore /\ edges = {e \in Nodes \X Nodes : e[1] \in dependsOn[e[2]]}
        /\ Ordered(edges)
        /\ \A r \in SentRelations : \E s \in graph : SameKey(r, s)

\* A proposal is refused for a fault it has: what is in a circle, is between unknown
\* nodes, or has an id that is taken.
RefusedForAFault ==
    /\ phase = "PROPOSED_GRAPH_CYCLE" => ~Ordered(SentBefore)
    /\ phase = "INVALID_RELATIONSHIP" => \E r \in SentRelations : Unknown \in {r.from, r.to} \/ r.from = r.to \/ r.id \in Nodes \X Nodes
    /\ phase = "DUPLICATE_RELATIONSHIP" => \E i, j \in DOMAIN sent.relations : i # j /\ sent.relations[i].id = sent.relations[j].id
==============================================================================
