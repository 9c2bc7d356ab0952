---------------------------- MODULE PlanApproval ----------------------------
(***************************************************************************)
(* How plans of one graph are proposed, approved, admitted and replaced,   *)
(* and how requests that do so race each other.                            *)
(*                                                                         *)
(* A route reads rows, awaits (the request body, the planner, the skill    *)
(* scan, the baseline of the project folder), reads rows again and ends    *)
(* with one transaction.  An action is a route's stretch of code between   *)
(* two awaits, so everything may change between two actions of one         *)
(* request.  All that writes is the last action of each route: a check     *)
(* that fails, a body that is refused, a planner that fails and a server   *)
(* that dies all end the request with nothing written (Refused).           *)
(*                                                                         *)
(* An execution is seen from here only as far as the routes look at it:    *)
(* RUNNING stands for PAUSE_REQUESTED too, ENDED for the ways a run ends.  *)
(***************************************************************************)
EXTENDS Naturals, TLC

CONSTANTS
    Plan,          \* ids of plan_versions rows
    Execution,     \* ids of executions rows
    Client,        \* requests in flight at once, by the client that waits
    Folder,        \* project folders
    Requested,     \* the folders PATCH requests ask for
    None,          \* SQL NULL
    MaxDraft,      \* bound on draft revisions
    MaxChanges     \* bound on changes of settings and agents together

ASSUME ApprovalAssumption ==
    /\ None \notin Plan \cup Execution \cup Folder
    /\ Folder # {} /\ Requested \subseteq Folder
    /\ MaxDraft \in Nat /\ MaxChanges \in Nat

VARIABLES
    draft,        \* revision of the latest graph_drafts row
    folder,       \* graphs.workspace_path
    settings,     \* revision of what a plan pins and a route checks before it awaits
    agents,       \* revision of what a plan pins and a route checks after it awaited
    plan,         \* plan_versions
    approvals,    \* plans with an approvals row
    execution,    \* executions
    request       \* where each request stands and the rows it has read

graph == <<draft, folder, settings, agents>>
rows  == <<plan, approvals, execution>>
vars  == <<graph, rows, request>>

PlanRow == [status : {"none", "AWAITING_APPROVAL", "APPROVED", "SUPERSEDED"},
            base : Nat, folder : Folder, settings : Nat, agents : Nat]

ExecutionRow == [status : {"none", "RUNNING", "PAUSED", "SUPERSEDED", "ENDED"},
                 plan : Plan \cup {None}, pending : Plan \cup {None},
                 parent : Execution \cup {None}, root : Execution \cup {None}]

Route == {"plan", "approve", "execute", "replan", "resume", "rebind"}
Await == {"body", "planner", "scan", "baseline", "admission"}

Request == [route : Route, at : Await, plan : Plan \cup {None},
            execution : Execution \cup {None}, draft : Nat,
            folder : Folder \cup {None}, settings : Nat]

GraphOK == draft \in Nat /\ settings \in Nat /\ agents \in Nat /\ folder \in Folder

TablesOK ==
    /\ plan \in [Plan -> PlanRow]
    /\ approvals \subseteq Plan
    /\ execution \in [Execution -> ExecutionRow]
    /\ \A e \in Execution : execution[e].status # "none" =>
          execution[e].plan \in Plan /\ execution[e].root \in Execution

RequestsOK ==
    /\ request \in [Client -> Request \cup {None}]
    /\ \A c \in Client : request[c] # None /\ request[c].at \in {"scan", "baseline", "admission"} =>
          request[c].plan \in Plan

TypeOK == GraphOK /\ TablesOK /\ RequestsOK

Init ==
    /\ draft = 1 /\ settings = 0 /\ agents = 0
    /\ folder \in Folder
    /\ plan = [p \in Plan |-> [status |-> "none", base |-> 0, folder |-> folder,
                               settings |-> 0, agents |-> 0]]
    /\ approvals = {}
    /\ execution = [e \in Execution |-> [status |-> "none", plan |-> None, pending |-> None,
                                         parent |-> None, root |-> None]]
    /\ request = [c \in Client |-> None]

ActiveExecutions == {e \in Execution : execution[e].status \in {"RUNNING", "PAUSED"}}

------------------------------------------------------------------------------
(***************************************************************************)
(* Repository transactions.                                                *)
(***************************************************************************)

CreatePlan(base, boundFolder) ==
    [status |-> "AWAITING_APPROVAL", base |-> base, folder |-> boundFolder,
     settings |-> settings, agents |-> agents]

\* An approval that exists is returned as it is, whatever became of the plan.
ApprovePlan(p) ==
    IF p \in approvals
    THEN UNCHANGED rows
    ELSE /\ draft = plan[p].base
         /\ approvals' = approvals \cup {p}
         /\ plan' = [plan EXCEPT ![p].status = "APPROVED"]
         /\ UNCHANGED execution

\* Mutant: a first execution is the root of nothing.
CreateRootlessExecution(p, parent, root) ==
    [status |-> "RUNNING", plan |-> p, pending |-> None, parent |-> parent, root |-> parent]

CreateExecution(p, parent, root) ==
    [status |-> "RUNNING", plan |-> p, pending |-> None, parent |-> parent, root |-> root]

\* Mutant: the draft is not read again.
CreateUncheckedExecution(e, p) ==
    /\ p \in approvals
    /\ execution[e].status = "none"
    /\ execution' = [execution EXCEPT ![e] = CreateExecution(p, None, e)]
    /\ UNCHANGED <<plan, approvals>>

\* It looks for the approval, not at the plan's status.
CreateApprovedExecution(e, p) ==
    /\ p \in approvals
    /\ draft = plan[p].base
    /\ execution[e].status = "none"
    /\ execution' = [execution EXCEPT ![e] = CreateExecution(p, None, e)]
    /\ UNCHANGED <<plan, approvals>>

SupersedeAwaiting(plans, awaiting) ==
    [q \in Plan |-> IF q \in awaiting /\ plans[q].status = "AWAITING_APPROVAL"
                    THEN [plans[q] EXCEPT !.status = "SUPERSEDED"]
                    ELSE plans[q]]

\* Mutant: the pending plan is not compared.
CommitUnseenReplan(e, p, seen, expectedDraft, edited, boundFolder) ==
    /\ execution[e].status = "PAUSED"
    /\ draft = expectedDraft
    /\ draft' = IF edited THEN draft + 1 ELSE draft
    /\ plan' = SupersedeAwaiting([plan EXCEPT ![p] = CreatePlan(draft', boundFolder)], {seen})
    /\ execution' = [execution EXCEPT ![e].pending = p]
    /\ UNCHANGED approvals

\* The new draft, the new plan, the old one superseded and the execution's pending
\* plan, if neither the execution nor the draft has moved since they were read.
CommitReplan(e, p, seen, expectedDraft, edited, boundFolder) ==
    /\ execution[e].status = "PAUSED" /\ execution[e].pending = seen
    /\ draft = expectedDraft
    /\ draft' = IF edited THEN draft + 1 ELSE draft
    /\ plan' = SupersedeAwaiting([plan EXCEPT ![p] = CreatePlan(draft', boundFolder)], {seen})
    /\ execution' = [execution EXCEPT ![e].pending = p]
    /\ UNCHANGED approvals

\* Mutant: the discarded plan stays in the row.
ResumeKeepsPending(e) ==
    /\ execution[e].status = "PAUSED"
    /\ plan' = [p \in Plan |-> IF p = execution[e].pending
                               THEN [plan[p] EXCEPT !.status = "SUPERSEDED"]
                               ELSE plan[p]]
    /\ execution' = [execution EXCEPT ![e].status = "RUNNING"]
    /\ UNCHANGED approvals

\* Whatever plan is pending by now is discarded, approved or not.
ResumePinnedExecution(e) ==
    /\ execution[e].status = "PAUSED"
    /\ plan' = [p \in Plan |-> IF p = execution[e].pending
                               THEN [plan[p] EXCEPT !.status = "SUPERSEDED"]
                               ELSE plan[p]]
    /\ execution' = [execution EXCEPT ![e].status = "RUNNING", ![e].pending = None]
    /\ UNCHANGED approvals

\* Mutants: the predecessor's status, or its pending plan, is not read again.
SupersedeTwice(e, next, p) ==
    /\ execution[e].pending = p
    /\ p \in approvals
    /\ draft = plan[p].base
    /\ execution[next].status = "none"
    /\ execution' = [execution EXCEPT ![e].status = "SUPERSEDED",
                                      ![next] = CreateExecution(p, e, execution[e].root)]
    /\ UNCHANGED <<plan, approvals>>

SupersedeWithStalePlan(e, next, p) ==
    /\ execution[e].status = "PAUSED"
    /\ p \in approvals
    /\ draft = plan[p].base
    /\ execution[next].status = "none"
    /\ execution' = [execution EXCEPT ![e].status = "SUPERSEDED",
                                      ![next] = CreateExecution(p, e, execution[e].root)]
    /\ UNCHANGED <<plan, approvals>>

SupersedeWithSuccessor(e, next, p) ==
    /\ execution[e].status = "PAUSED" /\ execution[e].pending = p
    /\ p \in approvals
    /\ draft = plan[p].base
    /\ execution[next].status = "none"
    /\ execution' = [execution EXCEPT ![e].status = "SUPERSEDED",
                                      ![next] = CreateExecution(p, e, execution[e].root)]
    /\ UNCHANGED <<plan, approvals>>

UpdateGraph(path) == folder' = path /\ UNCHANGED <<draft, plan>>

\* Mutant: the draft keeps its revision, so approved plans stay current.
RebindKeepsDraft(path) ==
    /\ folder' = path
    /\ UNCHANGED draft
    /\ plan' = SupersedeAwaiting(plan, Plan)

\* A new draft revision makes every plan stale, even one that is approved.
RebindGraphWorkspace(path) ==
    IF folder = path
    THEN UpdateGraph(path)
    ELSE /\ draft < MaxDraft
         /\ folder' = path
         /\ draft' = draft + 1
         /\ plan' = SupersedeAwaiting(plan, Plan)

------------------------------------------------------------------------------
(***************************************************************************)
(* Turns of a request.                                                     *)
(***************************************************************************)
Waits(c, route, await) ==
    request[c] # None /\ request[c].route = route /\ request[c].at = await

Ends(c) == request' = [request EXCEPT ![c] = None]

Read(route, await, p, e) ==
    [route |-> route, at |-> await, plan |-> p, execution |-> e,
     draft |-> 0, folder |-> None, settings |-> 0]

Begins(c, read) == request[c] = None /\ request' = [request EXCEPT ![c] = read]

Goes(c, await) ==
    /\ request' = [request EXCEPT ![c].at = await]
    /\ UNCHANGED <<graph, rows>>

\* A check fails, the body or the planner's answer is refused, the server dies.
Refused(c) ==
    /\ request[c] # None
    /\ Ends(c)
    /\ UNCHANGED <<graph, rows>>

\* POST plans: buildPlanInput reads the graph, the draft and the settings, and asks
\* the planner.  What it answers is persisted with the draft that was read.
PlanBegins(c) ==
    /\ Begins(c, [Read("plan", "planner", None, None) EXCEPT
                     !.draft = draft, !.folder = folder, !.settings = settings])
    /\ UNCHANGED <<graph, rows>>

PlanPersists(c, p) ==
    /\ Waits(c, "plan", "planner")
    /\ settings = request[c].settings
    /\ plan[p].status = "none"
    /\ plan' = [plan EXCEPT ![p] = CreatePlan(request[c].draft, request[c].folder)]
    /\ Ends(c)
    /\ UNCHANGED <<graph, approvals, execution>>

\* ensurePlanContextFresh: settings, reviews, memory and providers; the scan of the
\* skills; sources and the folder; its baseline; agents and the draft.
SettingsFresh(p) == settings = plan[p].settings

ContextScanned(c) ==
    /\ request[c] # None /\ request[c].at = "scan"
    /\ plan[request[c].plan].folder = folder
    /\ Goes(c, "baseline")

DraftFresh(p) == agents = plan[p].agents /\ draft = plan[p].base

\* POST approve: the status is looked at before the body has arrived.
ApproveBegins(c, p) ==
    /\ plan[p].status \in {"AWAITING_APPROVAL", "APPROVED"}
    /\ Begins(c, Read("approve", "body", p, None))
    /\ UNCHANGED <<graph, rows>>

ApproveChecks(c) ==
    /\ Waits(c, "approve", "body")
    /\ SettingsFresh(request[c].plan)
    /\ Goes(c, "scan")

ApproveCommits(c) ==
    /\ Waits(c, "approve", "baseline")
    /\ DraftFresh(request[c].plan)
    /\ ApprovePlan(request[c].plan)
    /\ Ends(c)
    /\ UNCHANGED graph

\* POST execute: status and settings are looked at once the body has arrived.
ExecuteBegins(c, p) ==
    /\ plan[p].status = "APPROVED"
    /\ SettingsFresh(p)
    /\ Begins(c, Read("execute", "scan", p, None))
    /\ UNCHANGED <<graph, rows>>

\* The execution gets a baseline of its own.
ExecuteChecks(c) ==
    /\ Waits(c, "execute", "baseline")
    /\ DraftFresh(request[c].plan)
    /\ Goes(c, "admission")

ExecuteCommits(c, e) ==
    /\ Waits(c, "execute", "admission")
    /\ CreateApprovedExecution(e, request[c].plan)
    /\ Ends(c)
    /\ UNCHANGED graph

\* POST replan: the pending plan is read before the body, the draft after it.
ReplanBegins(c, e) ==
    /\ execution[e].status = "PAUSED"
    /\ Begins(c, Read("replan", "body", execution[e].pending, e))
    /\ UNCHANGED <<graph, rows>>

ReplanPlans(c) ==
    /\ Waits(c, "replan", "body")
    /\ request' = [request EXCEPT ![c].at = "planner", ![c].draft = draft,
                                  ![c].folder = folder, ![c].settings = settings]
    /\ UNCHANGED <<graph, rows>>

ReplanCommits(c, p, edited) ==
    /\ Waits(c, "replan", "planner")
    /\ settings = request[c].settings
    /\ plan[p].status = "none"
    /\ edited => draft < MaxDraft
    /\ CommitReplan(request[c].execution, p, request[c].plan, request[c].draft, edited,
                    request[c].folder)
    /\ Ends(c)
    /\ UNCHANGED <<folder, settings, agents>>

\* POST resume: without a mode in the body the pending plan that was read before the
\* body decides, but any client may ask for the pinned plan.
ResumeBegins(c, e) ==
    /\ execution[e].status = "PAUSED"
    /\ Begins(c, Read("resume", "body", execution[e].pending, e))
    /\ UNCHANGED <<graph, rows>>

ResumesPinned(c) ==
    /\ Waits(c, "resume", "body")
    /\ ResumePinnedExecution(request[c].execution)
    /\ Ends(c)
    /\ UNCHANGED graph

ResumeChecks(c) ==
    /\ Waits(c, "resume", "body")
    /\ request[c].plan # None
    /\ plan[request[c].plan].status = "APPROVED"
    /\ SettingsFresh(request[c].plan)
    /\ Goes(c, "scan")

ResumesReplan(c, next) ==
    /\ Waits(c, "resume", "baseline")
    /\ DraftFresh(request[c].plan)
    /\ SupersedeWithSuccessor(request[c].execution, next, request[c].plan)
    /\ Ends(c)
    /\ UNCHANGED graph

\* PATCH graph: whether the folder changes is decided from the row read before the
\* body; only a change is refused while an execution is active.
RebindBegins(c) ==
    /\ Begins(c, [Read("rebind", "body", None, None) EXCEPT !.folder = folder])
    /\ UNCHANGED <<graph, rows>>

\* Mutant: executions are not looked at.
RebindWhileActive(c, path) ==
    /\ Waits(c, "rebind", "body")
    /\ IF path = request[c].folder THEN UpdateGraph(path) ELSE RebindGraphWorkspace(path)
    /\ Ends(c)
    /\ UNCHANGED <<settings, agents, approvals, execution>>

RebindCommits(c, path) ==
    /\ Waits(c, "rebind", "body")
    /\ IF path = request[c].folder
       THEN UpdateGraph(path)
       ELSE ActiveExecutions = {} /\ RebindGraphWorkspace(path)
    /\ Ends(c)
    /\ UNCHANGED <<settings, agents, approvals, execution>>

------------------------------------------------------------------------------
(***************************************************************************)
(* Requests that read and write in one turn, and executions on their own.  *)
(***************************************************************************)

\* PUT draft, and a chat proposal that is applied.
SaveDraft ==
    /\ draft < MaxDraft
    /\ draft' = draft + 1
    /\ UNCHANGED <<folder, settings, agents, rows, request>>

\* Mutant: a plan is adopted while an execution of the graph is active.
AdoptWhileActive(p) ==
    /\ plan[p].status \in {"AWAITING_APPROVAL", "APPROVED"}
    /\ draft = plan[p].base /\ draft < MaxDraft
    /\ draft' = draft + 1
    /\ plan' = [plan EXCEPT ![p].status = "SUPERSEDED"]
    /\ UNCHANGED <<folder, settings, agents, approvals, execution, request>>

\* Proposed nodes become part of a new draft, and the plan is spent.
Adopt(p) ==
    /\ plan[p].status \in {"AWAITING_APPROVAL", "APPROVED"}
    /\ draft = plan[p].base /\ draft < MaxDraft
    /\ ActiveExecutions = {}
    /\ draft' = draft + 1
    /\ plan' = [plan EXCEPT ![p].status = "SUPERSEDED"]
    /\ UNCHANGED <<folder, settings, agents, approvals, execution, request>>

PinsChange ==
    /\ settings + agents < MaxChanges
    /\ \/ settings' = settings + 1 /\ UNCHANGED agents
       \/ agents' = agents + 1 /\ UNCHANGED settings
    /\ UNCHANGED <<draft, folder, rows, request>>

ExecutionPauses(e) ==
    /\ execution[e].status = "RUNNING"
    /\ execution' = [execution EXCEPT ![e].status = "PAUSED"]
    /\ UNCHANGED <<graph, plan, approvals, request>>

\* Completed, failed, or cancelled, which a paused one can be too.
ExecutionEnds(e) ==
    /\ e \in ActiveExecutions
    /\ execution' = [execution EXCEPT ![e].status = "ENDED"]
    /\ UNCHANGED <<graph, plan, approvals, request>>

------------------------------------------------------------------------------
Turn(c) ==
    \/ Refused(c) \/ ContextScanned(c)
    \/ PlanBegins(c) \/ \E p \in Plan : PlanPersists(c, p)
    \/ \E p \in Plan : ApproveBegins(c, p)
    \/ ApproveChecks(c) \/ ApproveCommits(c)
    \/ \E p \in Plan : ExecuteBegins(c, p)
    \/ ExecuteChecks(c) \/ \E e \in Execution : ExecuteCommits(c, e)
    \/ \E e \in Execution : ReplanBegins(c, e)
    \/ ReplanPlans(c)
    \/ \E p \in Plan, edited \in BOOLEAN : ReplanCommits(c, p, edited)
    \/ \E e \in Execution : ResumeBegins(c, e)
    \/ ResumesPinned(c) \/ ResumeChecks(c)
    \/ \E e \in Execution : ResumesReplan(c, e)
    \/ RebindBegins(c) \/ \E path \in Requested : RebindCommits(c, path)

Next ==
    \/ \E c \in Client : Turn(c)
    \/ SaveDraft \/ PinsChange
    \/ \E p \in Plan : Adopt(p)
    \/ \E e \in Execution : ExecutionPauses(e) \/ ExecutionEnds(e)

Spec == Init /\ [][Next]_vars

------------------------------------------------------------------------------
(***************************************************************************)
(* Safety.                                                                 *)
(***************************************************************************)

Pending(e) == execution[e].status = "PAUSED" /\ execution[e].pending # None

\* The plan a paused execution waits for can still be approved and continued with,
\* and no other execution waits for it.
PendingPlanStands ==
    \A e \in Execution : Pending(e) =>
        /\ plan[execution[e].pending].status \in {"AWAITING_APPROVAL", "APPROVED"}
        /\ \A f \in Execution \ {e} : execution[f].pending # execution[e].pending

\* Of an execution and the successors that continue it, one at most is still open,
\* however many resume requests were in flight.
OneOpenPerLineage ==
    \A e, f \in ActiveExecutions : execution[e].root = execution[f].root => e = f

Admitted(e) == execution[e].status = "none" /\ execution'[e].status # "none"

\* An execution starts only for the latest draft, though both routes read the draft
\* before they await and the editor may save at any time.
AdmittedAtLatestDraft ==
    [][\A e \in Execution : Admitted(e) => plan[execution'[e].plan].base = draft]_vars

\* An execution starts in the folder the graph is bound to at that moment.
AdmittedToBoundFolder ==
    [][\A e \in Execution : Admitted(e) => plan[execution'[e].plan].folder = folder]_vars

\* A superseded execution is continued, in the same step, with the plan that was
\* pending on it and with no other.
SuccessorContinuesPending ==
    [][\A e \in Execution :
          (execution[e].status # "SUPERSEDED" /\ execution'[e].status = "SUPERSEDED") =>
              \E next \in Execution :
                  /\ Admitted(next)
                  /\ execution'[next].parent = e
                  /\ execution'[next].plan = execution[e].pending]_vars

\* A pending plan that is replaced or given up does not stay open for approval.
DiscardedPlanIsSuperseded ==
    [][\A e \in Execution :
          (Pending(e) /\ execution'[e].pending # execution[e].pending) =>
              plan'[execution[e].pending].status # "AWAITING_APPROVAL"]_vars

\* "A project-folder change is rejected while an execution is queued, running,
\* waiting to pause, or paused."
FolderStableWhileActive == [][(ActiveExecutions # {}) => folder' = folder]_vars

\* "A superseded plan cannot be approved."
SupersededStaysSuperseded ==
    [][\A p \in Plan : (plan[p].status = "SUPERSEDED") => plan'[p].status = "SUPERSEDED"]_vars

\* "Approve the immutable plan before execution": a plan that is discarded is not
\* admitted for a new execution any more.
AdmittedPlanIsApproved ==
    [][\A e \in Execution : Admitted(e) => plan[execution'[e].plan].status = "APPROVED"]_vars

(***************************************************************************)
(* The inductive invariant behind the safety properties: what the tables   *)
(* keep, and what a request has read by the time it uses it.               *)
(***************************************************************************)

\* A pending plan is a row, is pending on one execution, and never on a running one.
PendingInv ==
    /\ \A e \in Execution :
          /\ execution[e].pending # None => plan[execution[e].pending].status # "none"
          /\ execution[e].status \in {"none", "RUNNING"} => execution[e].pending = None
    /\ \A e, f \in Execution :
          execution[e].pending = execution[f].pending => e = f \/ execution[e].pending = None

\* An id that is not used yet is the root of nothing.
RootExists ==
    \A e \in Execution :
        execution[e].status # "none" => execution[execution[e].root].status # "none"

TableInv == TablesOK /\ PendingInv /\ PendingPlanStands /\ RootExists /\ OneOpenPerLineage

RequestInv ==
    /\ RequestsOK
    /\ \A c \in Client : request[c] # None =>
          /\ request[c].route \in {"approve", "execute"} => request[c].plan \in Plan
          /\ request[c].route \in {"replan", "resume"} => request[c].execution \in Execution
          /\ request[c].at = "planner" => request[c].folder \in Folder

IInv == GraphOK /\ TableInv /\ RequestInv

------------------------------------------------------------------------------
(***************************************************************************)
(* The folder.  Two PATCH requests that ask for opposite folders undo one  *)
(* another's check; otherwise a request that finds its folder unchanged    *)
(* writes the one the graph is bound to.                                   *)
(***************************************************************************)
OneFolderRequested == \A f, g \in Requested : f = g

\* What was made from the latest draft was made in the folder of now.
MadeHere(base, path) == base <= draft /\ (base = draft => path = folder)

FolderInv ==
    /\ \A p \in Plan : MadeHere(plan[p].base, plan[p].folder)
    /\ \A c \in Client : request[c] # None =>
          /\ request[c].at = "planner" => MadeHere(request[c].draft, request[c].folder)
          /\ request[c].route = "rebind" => request[c].folder = folder \/ folder \in Requested

------------------------------------------------------------------------------
\* For TLC.  Ids of plans and executions are random UUIDs, and requests are told apart by
\* nothing else: all three sets are symmetric.
Symmetry == Permutations(Plan) \cup Permutations(Execution) \cup Permutations(Client)
==============================================================================
