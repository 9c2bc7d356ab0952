----------------------------- MODULE IntentCompiler -----------------------------
(***************************************************************************)
(* The local compiler of intents: which engineering domains a graph's      *)
(* intents call for, which agent takes each of them, what its nodes        *)
(* require, and what the user's configuration of the intents changes.      *)
(*                                                                         *)
(* A text is the set of domains whose keywords it holds.  Evidence is left *)
(* out, it is read as an intent's text is; so are ids, digests, ports and  *)
(* the criteria of a domain, which are given.                              *)
(***************************************************************************)
EXTENDS Naturals, FiniteSetsExt, SequencesExt, Functions

CONSTANTS Intents, Texts,       \* sets of domains
          Agents,               \* numbers, in the order of their ids
          Skills,               \* domain -> how many of its keywords an agent matches
          MaxRelationships,     \* of the graph's budget
          None

Order == <<"product", "data", "application", "experience", "quality", "security", "platform">>   \* COMPILE_ORDER

Domains        == ToSet(Order)
Implementation == {"data", "application", "experience", "platform"}
Gates          == {"quality", "security"}

CompilerAssumption ==
    /\ Agents \subseteq Nat \ {0} /\ None \notin Agents
    /\ Texts \subseteq SUBSET Domains /\ Skills \subseteq [Domains -> Nat]

VARIABLES
    text,       \* intent -> the domains it matches
    toBuild,    \* one of the texts asks to build or to create something
    required,   \* pairs of intents: the first must finish before the second
    skill,      \* agent -> domain -> its score
    conf,       \* intent -> the agent the user configured for it, or None
    phase,
    selected,   \* the domains of the nodes
    agent       \* domain -> its agent, 0 for the built-in specialist

vars == <<text, toBuild, required, skill, conf, phase, selected, agent>>
given == <<text, toBuild, required, skill, conf>>

Init ==
    /\ text \in [Intents -> Texts] /\ toBuild \in BOOLEAN
    /\ required \in SUBSET (Intents \X Intents)
    /\ skill \in [Agents -> Skills] /\ conf \in [Intents -> Agents \cup {None}]
    /\ phase = "intents" /\ selected = {}
    /\ agent = [d \in {} |-> 0]

------------------------------------------------------------------------------
\* Mutant: only an intent that waits for itself is found.
AcyclicSelf(ids, before) == \A i \in ids : <<i, i>> \notin before

\* assertAcyclic: what is left after k rounds of taking those that wait for nobody
Acyclic(ids, before) ==
    LET left[k \in 0..Cardinality(ids)] ==
          IF k = 0 THEN ids ELSE {i \in left[k - 1] : \E j \in left[k - 1] : <<j, i>> \in before}
    IN left[Cardinality(ids)] = {}

ValidatesIntents ==
    /\ phase = "intents"
    /\ phase' = IF Acyclic(Intents, required) THEN "domains" ELSE "INTENT_CYCLE"
    /\ UNCHANGED <<given, selected, agent>>

\* Mutant: what is asked for is done without being checked.
SelectedUngated(t, build) == {"product"} \cup UNION Range(t)

\* selectDomains
Selected(t, build) ==
    LET asked == {"product"} \cup UNION Range(t)
        work  == IF build /\ asked \cap Implementation = {} THEN asked \cup {"application"} ELSE asked
    IN IF work \cap Implementation # {} THEN work \cup Gates ELSE work

SelectsDomains ==
    /\ phase = "domains" /\ phase' = "agents"
    /\ selected' = Selected(text, toBuild)
    /\ UNCHANGED <<given, agent>>

\* Of several agents the one of the highest score, and among those the first.
Best(d, among) ==
    CHOOSE a \in among : \A b \in among : skill[a][d] > skill[b][d] \/ (skill[a][d] = skill[b][d] /\ a <= b)

\* Mutant: a gate takes the best agent like any other domain.
AssignedAny(d, used) ==
    LET ranked == {a \in Agents : skill[a][d] > 0}
    IN IF ranked \ used # {} THEN Best(d, ranked \ used) ELSE IF ranked # {} THEN Best(d, ranked) ELSE 0

\* assignAgent
Assigned(d, used) ==
    LET ranked == {a \in Agents : skill[a][d] > 0}
    IN IF ranked \ used # {} THEN Best(d, ranked \ used)
       ELSE IF ranked # {} /\ d \notin Gates THEN Best(d, ranked) ELSE 0

\* The next domain in the order of compilation
AssignsAgent ==
    /\ phase = "agents" /\ selected \ DOMAIN agent # {}
    /\ LET d == Order[Min({i \in DOMAIN Order : Order[i] \in selected \ DOMAIN agent})]
       IN agent' = [e \in DOMAIN agent \cup {d} |-> IF e = d THEN Assigned(d, Range(agent)) ELSE agent[e]]
    /\ UNCHANGED <<given, phase, selected>>

\* Mutant: the gates wait for all they verify or govern.
DependenciesGoverned(d) ==
    CASE d = "product" -> {}
      [] d \in Gates   -> {"product"} \cup Implementation
      [] OTHER         -> Domains \ {d}

\* dependenciesFor, before those that are not selected are left out
Dependencies(d) ==
    CASE d = "product"     -> {}
      [] d = "data"        -> {"product"}
      [] d = "application" -> {"product", "data"}
      [] d = "experience"  -> {"product", IF "application" \in selected THEN "application" ELSE "data"}
      [] d \in Gates       -> IF selected \cap {"data", "application", "experience"} = {} THEN {"product"}
                              ELSE {"data", "application", "experience"}
      [] d = "platform"    -> Domains \ {"platform"}

DependsOn(d) == Dependencies(d) \cap selected

Requires == {<<d, e>> \in selected \X selected : d \in DependsOn(e)}

\* sourceTrace: a node is grounded in the intents that name its domain, or in all
Trace(d) ==
    LET matched == {i \in Intents : d = "product" \/ d \in text[i]}
    IN IF matched = {} THEN Intents ELSE matched

\* buildRelationships, but for the two of every node with its sources and its artifact
Relations ==
    LET work     == selected \cap {"data", "application", "experience"}
        governed == selected \cap Implementation
        pairs(type, from, to) == {<<type, d, e>> : d \in from \cap selected, e \in to \cap selected}
    IN {<<"REQUIRES", r[1], r[2]>> : r \in Requires}
       \cup pairs("IMPLEMENTS", work, {"product"})
       \cup pairs("CONSUMES_CONTRACT", {"data"}, {"application"})
       \cup pairs("CONSUMES_CONTRACT", {"application"}, {"experience"})
       \cup pairs("VERIFIES", {"quality"}, governed)
       \cup pairs("GOVERNS", {"security"}, governed)
       \cup pairs("DEPLOYS", {"platform"}, work) \cup pairs("OBSERVES", {"platform"}, work)

\* The graph is within its budget, and valid.
Compiles ==
    /\ phase = "agents" /\ selected = DOMAIN agent
    /\ phase' = IF Cardinality(Relations) + 2 * Cardinality(selected) > MaxRelationships
                  THEN "RELATIONSHIP_BUDGET_EXCEEDED"
                ELSE IF ~Acyclic(selected, Requires) THEN "PROPOSED_GRAPH_CYCLE"
                ELSE "compiled"
    /\ UNCHANGED <<given, selected, agent>>

\* What the intents of a node are configured with
Configured(d) == {conf[i] : i \in Trace(d)} \ {None}

\* Mutant: the first intent's configuration is taken.
ConflictsNever == FALSE

Conflicts == \E d \in selected : Cardinality(Configured(d)) > 1

\* bindIntentConfiguration
Binds ==
    /\ phase = "compiled"
    /\ IF Conflicts
       THEN phase' = "NODE_CONFIGURATION_CONFLICT" /\ UNCHANGED agent
       ELSE /\ phase' = "bound"
            /\ agent' = [d \in selected |-> IF Configured(d) = {} THEN agent[d] ELSE Min(Configured(d))]
    /\ UNCHANGED <<given, selected>>

Next == ValidatesIntents \/ SelectsDomains \/ AssignsAgent \/ Compiles \/ Binds

Spec == Init /\ [][Next]_vars

------------------------------------------------------------------------------
Done == phase \in {"compiled", "NODE_CONFIGURATION_CONFLICT", "bound"}

Refusals == {"INTENT_CYCLE", "RELATIONSHIP_BUDGET_EXCEEDED", "NODE_CONFIGURATION_CONFLICT"}

\* The variables have their types; the compiler's own graph is never invalid.
TypeOK ==
    /\ text \in [Intents -> SUBSET Domains] /\ skill \in [Agents -> [Domains -> Nat]]
    /\ phase \in {"intents", "domains", "agents", "compiled", "bound"} \cup Refusals
    /\ selected \subseteq Domains /\ DOMAIN agent \subseteq selected
    /\ Range(agent) \subseteq Agents \cup {0}

\* Whether d comes before e in every order the requirements allow.
Before(d, e) ==
    LET reached[k \in 0..Cardinality(Domains)] ==
          IF k = 0 THEN {e} ELSE reached[k - 1] \cup UNION {DependsOn(f) : f \in reached[k - 1]}
    IN d # e /\ d \in reached[Cardinality(Domains)]

\* No work is delivered unchecked: what implements something is followed by both
\* gates, and the delivery of the platform by them both, too.
WorkIsChecked ==
    Done => \A d \in selected \cap Implementation : \A g \in Gates :
               /\ g \in selected
               /\ d # "platform" => Before(d, g)
               /\ "platform" \in selected => Before(g, "platform")

\* The agent of a gate has done none of the work the gate waits for.
GateDidNotDoTheWork ==
    phase = "compiled" => \A g \in Gates \cap selected : \A d \in selected :
        Before(d, g) => agent[d] # agent[g] \/ agent[g] = 0

\* The user's choice for an intent holds for every node that is grounded in it.
ConfigurationIsKept ==
    phase = "bound" => \A d \in selected : \A i \in Trace(d) : conf[i] # None => agent[d] = conf[i]

\* Intents are refused if and only if they wait for one another.
CyclesAreRefused ==
    LET ring == {s \in SUBSET Intents : s # {} /\ \A i \in s : \E j \in s : <<j, i>> \in required}
    IN /\ phase = "INTENT_CYCLE" => ring # {}
       /\ Done => ring = {}

\* What a gate verifies or governs was not made by its own agent.
GatesAreIndependent ==
    phase = "compiled" => \A r \in Relations :
        r[1] \in {"VERIFIES", "GOVERNS"} /\ agent[r[2]] # 0 => agent[r[2]] # agent[r[3]]

\* An intent that must finish first is not served after the one that waits for it.
IntentOrderIsKept ==
    phase = "compiled" => \A r \in required : \A d, e \in selected :
        Trace(d) = {r[1]} /\ Trace(e) = {r[2]} => ~Before(e, d)
==============================================================================
