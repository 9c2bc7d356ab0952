------------------------- MODULE PlanApprovalProofs -------------------------
(***************************************************************************)
(* PlanApproval keeps its invariant for every number of plans, executions, *)
(* clients and folders, and for any requests that race each other.         *)
(*                                                                         *)
(* A step consists of a transaction on the tables, or none, and of what it *)
(* does to the request it belongs to.  One lemma for each transaction says *)
(* that it keeps TableInv; the requests are independent of the tables.     *)
(*                                                                         *)
(* The baseline that a plan records of its folder, and that an approval    *)
(* compares, comes last.                                                   *)
(***************************************************************************)
EXTENDS PlanApproval, WorkspaceBaseline, TLAPS

USE ApprovalAssumption

------------------------------------------------------------------------------
(***************************************************************************)
(* Requests.                                                               *)
(***************************************************************************)

LEMMA BeginsKeepsRequests ==
    ASSUME RequestInv, NEW c \in Client, NEW read \in Request, Begins(c, read),
           read.route \in {"approve", "execute"} => read.plan \in Plan,
           read.route \in {"replan", "resume"} => read.execution \in Execution,
           read.at = "planner" => read.folder \in Folder,
           read.at \in {"scan", "baseline", "admission"} => read.plan \in Plan
    PROVE  RequestInv'
BY DEF RequestInv, RequestsOK, Begins

LEMMA EndsKeepsRequests ==
    ASSUME RequestInv, NEW c \in Client, Ends(c)
    PROVE  RequestInv'
BY DEF RequestInv, RequestsOK, Ends

\* A request goes on to an await where it needs the plan it has read.
LEMMA GoesKeepsRequests ==
    ASSUME RequestInv, NEW c \in Client, request[c] # None,
           NEW await \in {"scan", "baseline", "admission"},
           request[c].plan \in Plan,
           request' = [request EXCEPT ![c].at = await]
    PROVE  RequestInv'
<1>1. request[c] \in Request
  BY DEF RequestInv, RequestsOK
<1>2. request'[c] = [request[c] EXCEPT !.at = await] /\ request'[c] \in Request
  BY <1>1 DEF RequestInv, RequestsOK, Request, Await
<1>3. QED
  BY <1>1, <1>2 DEF RequestInv, RequestsOK, Request, Await

------------------------------------------------------------------------------
(***************************************************************************)
(* Transactions.                                                           *)
(***************************************************************************)

LEMMA RowsUnchanged ==
    ASSUME TableInv, UNCHANGED rows
    PROVE  TableInv'
BY DEF TableInv, TablesOK, PendingInv, PendingPlanStands, RootExists, OneOpenPerLineage,
       Pending, ActiveExecutions, rows

LEMMA CreatePlanRow ==
    ASSUME GraphOK, NEW base \in Nat, NEW boundFolder \in Folder
    PROVE  /\ CreatePlan(base, boundFolder) \in PlanRow
           /\ CreatePlan(base, boundFolder).status = "AWAITING_APPROVAL"
BY DEF GraphOK, CreatePlan, PlanRow

\* A plan that is inserted is pending on no execution.
LEMMA InsertKeepsTables ==
    ASSUME TableInv, NEW p \in Plan, NEW new \in PlanRow,
           plan[p].status = "none", new.status # "none",
           plan' = [plan EXCEPT ![p] = new],
           UNCHANGED <<approvals, execution>>
    PROVE  TableInv'
<1>1. TablesOK'
  BY DEF TableInv, TablesOK
<1>2. PendingInv' /\ PendingPlanStands'
  BY DEF TableInv, TablesOK, PendingInv, PendingPlanStands, Pending, PlanRow, ExecutionRow
<1>3. RootExists' /\ OneOpenPerLineage'
  BY DEF TableInv, RootExists, OneOpenPerLineage, ActiveExecutions
<1>4. QED
  BY <1>1, <1>2, <1>3 DEF TableInv

LEMMA ApprovePlanKeepsTables ==
    ASSUME TableInv, NEW p \in Plan, ApprovePlan(p)
    PROVE  TableInv'
<1>1. CASE p \in approvals
  BY <1>1, RowsUnchanged DEF ApprovePlan
<1>2. CASE p \notin approvals
  <2>1. /\ plan' = [plan EXCEPT ![p].status = "APPROVED"]
        /\ approvals' = approvals \cup {p}
        /\ execution' = execution
    BY <1>2 DEF ApprovePlan
  <2>2. TablesOK'
    BY <2>1 DEF TableInv, TablesOK, PlanRow
  <2>3. PendingInv' /\ PendingPlanStands'
    BY <2>1 DEF TableInv, TablesOK, PendingInv, PendingPlanStands, Pending, PlanRow,
                ExecutionRow
  <2>4. RootExists' /\ OneOpenPerLineage'
    BY <2>1 DEF TableInv, RootExists, OneOpenPerLineage, ActiveExecutions
  <2>5. QED
    BY <2>2, <2>3, <2>4 DEF TableInv
<1>3. QED
  BY <1>1, <1>2

\* An execution is its own root, and nothing else has an unused id for a root.
LEMMA CreateApprovedKeepsTables ==
    ASSUME TableInv, NEW e \in Execution, NEW p \in Plan, CreateApprovedExecution(e, p)
    PROVE  TableInv'
<1> DEFINE row == CreateExecution(p, None, e)
<1>1. /\ execution' = [execution EXCEPT ![e] = row]
      /\ execution[e].status = "none"
      /\ UNCHANGED <<plan, approvals>>
  BY DEF CreateApprovedExecution
<1>2. /\ row \in ExecutionRow /\ row.status = "RUNNING" /\ row.pending = None
      /\ row.root = e /\ row.plan = p
  BY DEF CreateExecution, ExecutionRow
<1> HIDE DEF row
<1>3. TablesOK'
  BY <1>1, <1>2 DEF TableInv, TablesOK
<1>4. PendingInv' /\ PendingPlanStands'
  BY <1>1, <1>2 DEF TableInv, TablesOK, PendingInv, PendingPlanStands, Pending
<1>5. RootExists'
  BY <1>1, <1>2 DEF TableInv, TablesOK, RootExists
<1>6. OneOpenPerLineage'
  BY <1>1, <1>2 DEF TableInv, TablesOK, RootExists, OneOpenPerLineage, ActiveExecutions
<1>7. QED
  BY <1>3, <1>4, <1>5, <1>6 DEF TableInv

\* The plan is new and the plan that was seen is pending on this execution only.
LEMMA CommitReplanKeepsTables ==
    ASSUME GraphOK, TableInv, NEW e \in Execution, NEW p \in Plan,
           NEW seen \in Plan \cup {None}, NEW expectedDraft, NEW edited \in BOOLEAN,
           NEW boundFolder \in Folder, plan[p].status = "none",
           CommitReplan(e, p, seen, expectedDraft, edited, boundFolder)
    PROVE  TableInv' /\ draft' \in Nat
<1> DEFINE new == CreatePlan(draft', boundFolder)
           inserted == [plan EXCEPT ![p] = new]
<1>1. /\ execution[e].status = "PAUSED" /\ execution[e].pending = seen
      /\ draft' = IF edited THEN draft + 1 ELSE draft
      /\ plan' = SupersedeAwaiting(inserted, {seen})
      /\ execution' = [execution EXCEPT ![e].pending = p]
      /\ approvals' = approvals
  BY DEF CommitReplan
<1>2. draft' \in Nat
  BY <1>1 DEF GraphOK
<1>3. new \in PlanRow /\ new.status = "AWAITING_APPROVAL"
  BY <1>2, CreatePlanRow DEF GraphOK
<1> HIDE DEF new
<1>4. inserted \in [Plan -> PlanRow]
  BY <1>3 DEF TableInv, TablesOK
<1>5. p # seen
  BY <1>1 DEF TableInv, PendingInv
<1>6. /\ plan' \in [Plan -> PlanRow]
      /\ plan'[p].status = "AWAITING_APPROVAL"
      /\ \A q \in Plan \ {p} : plan'[q].status = "none" <=> plan[q].status = "none"
      /\ \A q \in Plan \ {p, seen} : plan'[q] = plan[q]
  BY <1>1, <1>3, <1>4, <1>5 DEF SupersedeAwaiting, PlanRow, TableInv, TablesOK
<1>7. /\ execution' \in [Execution -> ExecutionRow]
      /\ execution'[e].pending = p
      /\ \A f \in Execution : /\ execution'[f].status = execution[f].status
                              /\ execution'[f].root = execution[f].root
                              /\ execution'[f].plan = execution[f].plan
      /\ \A f \in Execution \ {e} : execution'[f].pending = execution[f].pending
  BY <1>1 DEF TableInv, TablesOK, ExecutionRow
<1>8. TablesOK'
  BY <1>1, <1>6, <1>7 DEF TableInv, TablesOK
<1>9. \A f \in Execution : execution[f].pending # p
  BY DEF TableInv, PendingInv
<1>10. PendingInv'
  <2>1. ASSUME NEW f \in Execution, execution'[f].pending # None
        PROVE  plan'[execution'[f].pending].status # "none"
    <3>1. CASE f = e
      BY <3>1, <1>6, <1>7
    <3>2. CASE f # e
      <4>1. execution'[f].pending = execution[f].pending /\ execution[f].pending \in Plan \ {p}
        BY <2>1, <3>2, <1>7, <1>9 DEF TableInv, TablesOK, ExecutionRow
      <4>2. plan[execution[f].pending].status # "none"
        BY <2>1, <4>1 DEF TableInv, PendingInv
      <4>3. QED
        BY <4>1, <4>2, <1>6
    <3>3. QED
      BY <3>1, <3>2
  <2>2. ASSUME NEW f \in Execution, execution'[f].status \in {"none", "RUNNING"}
        PROVE  execution'[f].pending = None
    BY <2>2, <1>1, <1>7 DEF TableInv, PendingInv
  <2>3. ASSUME NEW f \in Execution, NEW g \in Execution,
               execution'[f].pending = execution'[g].pending
        PROVE  f = g \/ execution'[f].pending = None
    BY <2>3, <1>7, <1>9 DEF TableInv, PendingInv
  <2>4. QED
    BY <2>1, <2>2, <2>3 DEF PendingInv
<1>11. PendingPlanStands'
  <2> SUFFICES ASSUME NEW f \in Execution, Pending(f)'
               PROVE  /\ plan'[execution'[f].pending].status \in {"AWAITING_APPROVAL", "APPROVED"}
                      /\ \A g \in Execution \ {f} : execution'[g].pending # execution'[f].pending
    BY DEF PendingPlanStands
  <2>1. CASE f = e
    BY <2>1, <1>6, <1>7, <1>9
  <2>2. CASE f # e
    <3>1. Pending(f) /\ execution'[f].pending = execution[f].pending
      BY <2>2, <1>7 DEF Pending
    <3>2. execution[f].pending \in Plan \ {p, seen}
      BY <3>1, <2>2, <1>1, <1>9 DEF Pending, TableInv, TablesOK, PendingInv, ExecutionRow
    <3>3. QED
      BY <3>1, <3>2, <2>2, <1>6, <1>7 DEF TableInv, PendingPlanStands
  <2>3. QED
    BY <2>1, <2>2
<1>12. RootExists' /\ OneOpenPerLineage'
  BY <1>7 DEF TableInv, TablesOK, RootExists, OneOpenPerLineage, ActiveExecutions
<1>13. QED
  BY <1>2, <1>8, <1>10, <1>11, <1>12 DEF TableInv

\* What is pending on this execution is pending on no other.
LEMMA ResumePinnedKeepsTables ==
    ASSUME TableInv, NEW e \in Execution, ResumePinnedExecution(e)
    PROVE  TableInv'
<1> DEFINE discarded == execution[e].pending
<1>1. /\ execution[e].status = "PAUSED"
      /\ plan' = [p \in Plan |-> IF p = discarded
                                THEN [plan[p] EXCEPT !.status = "SUPERSEDED"]
                                ELSE plan[p]]
      /\ execution' = [execution EXCEPT ![e].status = "RUNNING", ![e].pending = None]
      /\ approvals' = approvals
  BY DEF ResumePinnedExecution
<1>2. /\ plan' \in [Plan -> PlanRow]
      /\ \A p \in Plan : plan[p].status # "none" => plan'[p].status # "none"
      /\ \A p \in Plan \ {discarded} : plan'[p] = plan[p]
  BY <1>1 DEF TableInv, TablesOK, PlanRow
<1>3. /\ execution' \in [Execution -> ExecutionRow]
      /\ execution'[e].status = "RUNNING" /\ execution'[e].pending = None
      /\ execution'[e].root = execution[e].root /\ execution'[e].plan = execution[e].plan
      /\ \A f \in Execution \ {e} : execution'[f] = execution[f]
  BY <1>1 DEF TableInv, TablesOK, ExecutionRow
<1>4. TablesOK'
  BY <1>1, <1>2, <1>3 DEF TableInv, TablesOK
<1>5. \A f \in Execution \ {e} : execution[f].pending # None => execution[f].pending # discarded
  BY DEF TableInv, PendingInv
<1>6. PendingInv'
  <2>1. ASSUME NEW f \in Execution, execution'[f].pending # None
        PROVE  plan'[execution'[f].pending].status # "none"
    <3>1. f # e /\ execution'[f].pending = execution[f].pending
      BY <2>1, <1>3
    <3>2. execution[f].pending \in Plan /\ plan[execution[f].pending].status # "none"
      BY <2>1, <3>1 DEF TableInv, TablesOK, PendingInv, ExecutionRow
    <3>3. QED
      BY <3>1, <3>2, <1>2
  <2>2. ASSUME NEW f \in Execution, execution'[f].status \in {"none", "RUNNING"}
        PROVE  execution'[f].pending = None
    BY <2>2, <1>3 DEF TableInv, PendingInv
  <2>3. ASSUME NEW f \in Execution, NEW g \in Execution,
               execution'[f].pending = execution'[g].pending
        PROVE  f = g \/ execution'[f].pending = None
    BY <2>3, <1>3 DEF TableInv, PendingInv
  <2>4. QED
    BY <2>1, <2>2, <2>3 DEF PendingInv
<1>7. PendingPlanStands'
  <2> SUFFICES ASSUME NEW f \in Execution, Pending(f)'
               PROVE  /\ plan'[execution'[f].pending].status \in {"AWAITING_APPROVAL", "APPROVED"}
                      /\ \A g \in Execution \ {f} : execution'[g].pending # execution'[f].pending
    BY DEF PendingPlanStands
  <2>1. f # e /\ Pending(f) /\ execution'[f].pending = execution[f].pending
    BY <1>3 DEF Pending
  <2>2. execution[f].pending \in Plan \ {discarded}
    BY <2>1, <1>5 DEF Pending, TableInv, TablesOK, ExecutionRow
  <2>3. QED
    BY <2>1, <2>2, <1>2, <1>3 DEF TableInv, PendingPlanStands, Pending
<1>8. RootExists' /\ OneOpenPerLineage'
  BY <1>1, <1>3 DEF TableInv, TablesOK, RootExists, OneOpenPerLineage, ActiveExecutions
<1>9. QED
  BY <1>4, <1>6, <1>7, <1>8 DEF TableInv

\* The successor takes over the lineage in the step in which its predecessor leaves it.
LEMMA SupersedeKeepsTables ==
    ASSUME TableInv, NEW e \in Execution, NEW next \in Execution, NEW p \in Plan,
           SupersedeWithSuccessor(e, next, p)
    PROVE  TableInv'
<1> DEFINE row == CreateExecution(p, e, execution[e].root)
<1>1. /\ execution[e].status = "PAUSED"
      /\ execution[next].status = "none"
      /\ execution' = [execution EXCEPT ![e].status = "SUPERSEDED", ![next] = row]
      /\ UNCHANGED <<plan, approvals>>
  BY DEF SupersedeWithSuccessor
<1>2. e # next /\ execution[e].root \in Execution
  BY <1>1 DEF TableInv, TablesOK
<1>3. /\ row \in ExecutionRow /\ row.status = "RUNNING" /\ row.pending = None
      /\ row.root = execution[e].root /\ row.plan = p
  BY <1>2 DEF CreateExecution, ExecutionRow
<1> HIDE DEF row
<1>4. /\ execution' \in [Execution -> ExecutionRow]
      /\ execution'[next] = row
      /\ execution'[e].status = "SUPERSEDED"
      /\ execution'[e].pending = execution[e].pending
      /\ execution'[e].root = execution[e].root /\ execution'[e].plan = execution[e].plan
      /\ \A f \in Execution \ {e, next} : execution'[f] = execution[f]
  BY <1>1, <1>2, <1>3 DEF TableInv, TablesOK, ExecutionRow
<1>5. TablesOK'
  BY <1>1, <1>2, <1>3, <1>4 DEF TableInv, TablesOK
<1>6. PendingInv' /\ PendingPlanStands'
  BY <1>1, <1>3, <1>4 DEF TableInv, PendingInv, PendingPlanStands, Pending
<1>7. RootExists'
  BY <1>1, <1>2, <1>3, <1>4 DEF TableInv, TablesOK, RootExists
<1>8. OneOpenPerLineage'
  BY <1>1, <1>2, <1>3, <1>4 DEF TableInv, TablesOK, OneOpenPerLineage, ActiveExecutions
<1>9. QED
  BY <1>5, <1>6, <1>7, <1>8 DEF TableInv

\* Plans are given up while no execution waits for one.
LEMMA GivenUpKeepsTables ==
    ASSUME TableInv, ActiveExecutions = {}, UNCHANGED <<approvals, execution>>,
           plan' \in [Plan -> PlanRow],
           \A p \in Plan : plan[p].status # "none" => plan'[p].status # "none"
    PROVE  TableInv'
<1>1. TablesOK'
  BY DEF TableInv, TablesOK
<1>2. PendingInv'
  BY DEF TableInv, TablesOK, PendingInv, ExecutionRow
<1>3. PendingPlanStands'
  BY DEF PendingPlanStands, Pending, ActiveExecutions
<1>4. RootExists' /\ OneOpenPerLineage'
  BY DEF TableInv, RootExists, OneOpenPerLineage, ActiveExecutions
<1>5. QED
  BY <1>1, <1>2, <1>3, <1>4 DEF TableInv

\* An execution that has begun changes its status and nothing else.
LEMMA StatusKeepsTables ==
    ASSUME TableInv, NEW e \in Execution, NEW new \in {"PAUSED", "ENDED"},
           e \in ActiveExecutions, new = "PAUSED" => execution[e].status = "RUNNING",
           execution' = [execution EXCEPT ![e].status = new],
           UNCHANGED <<plan, approvals>>
    PROVE  TableInv'
<1>1. /\ execution' \in [Execution -> ExecutionRow]
      /\ execution'[e].status = new
      /\ \A f \in Execution : /\ execution'[f].pending = execution[f].pending
                              /\ execution'[f].root = execution[f].root
                              /\ execution'[f].plan = execution[f].plan
      /\ \A f \in Execution \ {e} : execution'[f].status = execution[f].status
      /\ execution[e].status \in {"RUNNING", "PAUSED"}
  BY DEF TableInv, TablesOK, ExecutionRow, ActiveExecutions
<1>2. TablesOK'
  BY <1>1 DEF TableInv, TablesOK
<1>3. PendingInv'
  BY <1>1 DEF TableInv, PendingInv
<1>4. PendingPlanStands'
  BY <1>1 DEF TableInv, PendingInv, PendingPlanStands, Pending
<1>5. RootExists' /\ OneOpenPerLineage'
  BY <1>1 DEF TableInv, TablesOK, RootExists, OneOpenPerLineage, ActiveExecutions
<1>6. QED
  BY <1>2, <1>3, <1>4, <1>5 DEF TableInv

------------------------------------------------------------------------------
(***************************************************************************)
(* Steps.                                                                  *)
(***************************************************************************)

LEMMA ReadIsRequest ==
    ASSUME NEW route \in Route, NEW await \in Await, NEW p \in Plan \cup {None},
           NEW e \in Execution \cup {None}
    PROVE  /\ Read(route, await, p, e) \in Request
           /\ Read(route, await, p, e).route = route
           /\ Read(route, await, p, e).at = await
           /\ Read(route, await, p, e).plan = p
           /\ Read(route, await, p, e).execution = e
BY DEF Read, Request

LEMMA GraphUnchanged ==
    ASSUME GraphOK, UNCHANGED graph
    PROVE  GraphOK'
BY DEF GraphOK, graph

\* Any route may end at any await.
LEMMA RefusedStep ==
    ASSUME IInv, NEW c \in Client, Refused(c)
    PROVE  IInv'
BY EndsKeepsRequests, RowsUnchanged, GraphUnchanged DEF IInv, Refused

LEMMA PlanStep ==
    ASSUME IInv, NEW c \in Client,
           PlanBegins(c) \/ \E p \in Plan : PlanPersists(c, p)
    PROVE  IInv'
<1>1. CASE PlanBegins(c)
  <2> DEFINE read == [Read("plan", "planner", None, None) EXCEPT
                         !.draft = draft, !.folder = folder, !.settings = settings]
  <2>1. /\ read \in Request /\ read.route = "plan" /\ read.at = "planner"
        /\ read.folder \in Folder
    BY DEF IInv, GraphOK, Read, Request, Route, Await
  <2>2. Begins(c, read) /\ UNCHANGED <<graph, rows>>
    BY <1>1 DEF PlanBegins
  <2> HIDE DEF read
  <2>3. RequestInv'
    BY <2>1, <2>2, BeginsKeepsRequests DEF IInv
  <2>4. QED
    BY <2>2, <2>3, RowsUnchanged, GraphUnchanged DEF IInv
<1>2. ASSUME NEW p \in Plan, PlanPersists(c, p)
      PROVE  IInv'
  <2> DEFINE new == CreatePlan(request[c].draft, request[c].folder)
  <2>1. request[c] # None /\ request[c].at = "planner"
    BY <1>2 DEF PlanPersists, Waits
  <2>2. request[c].draft \in Nat /\ request[c].folder \in Folder
    BY <2>1 DEF IInv, RequestInv, RequestsOK, Request
  <2>3. new \in PlanRow /\ new.status # "none"
    BY <2>2, CreatePlanRow DEF IInv
  <2>4. /\ plan[p].status = "none" /\ plan' = [plan EXCEPT ![p] = new]
        /\ Ends(c) /\ UNCHANGED <<graph, approvals, execution>>
    BY <1>2 DEF PlanPersists
  <2> HIDE DEF new
  <2>5. TableInv'
    BY <2>3, <2>4, InsertKeepsTables DEF IInv
  <2>6. QED
    BY <2>4, <2>5, EndsKeepsRequests, GraphUnchanged DEF IInv
<1>3. QED
  BY <1>1, <1>2

LEMMA FreshnessStep ==
    ASSUME IInv, NEW c \in Client, ContextScanned(c)
    PROVE  IInv'
<1>1. /\ request[c] # None /\ request[c].plan \in Plan
      /\ request' = [request EXCEPT ![c].at = "baseline"]
      /\ UNCHANGED <<graph, rows>>
  BY DEF ContextScanned, Goes, IInv, RequestInv, RequestsOK
<1>2. QED
  BY <1>1, GoesKeepsRequests, RowsUnchanged, GraphUnchanged DEF IInv

LEMMA ApproveStep ==
    ASSUME IInv, NEW c \in Client,
           (\E p \in Plan : ApproveBegins(c, p)) \/ ApproveChecks(c) \/ ApproveCommits(c)
    PROVE  IInv'
<1>1. ASSUME NEW p \in Plan, ApproveBegins(c, p)
      PROVE  IInv'
  <2>1. Begins(c, Read("approve", "body", p, None)) /\ UNCHANGED <<graph, rows>>
    BY <1>1 DEF ApproveBegins
  <2>2. RequestInv'
    BY <2>1, ReadIsRequest, BeginsKeepsRequests DEF IInv, Route, Await
  <2>3. QED
    BY <2>1, <2>2, RowsUnchanged, GraphUnchanged DEF IInv
<1>2. CASE ApproveChecks(c)
  <2>1. /\ request[c] # None /\ request[c].plan \in Plan
        /\ request' = [request EXCEPT ![c].at = "scan"]
        /\ UNCHANGED <<graph, rows>>
    BY <1>2 DEF ApproveChecks, Waits, Goes, IInv, RequestInv
  <2>2. QED
    BY <2>1, GoesKeepsRequests, RowsUnchanged, GraphUnchanged DEF IInv
<1>3. CASE ApproveCommits(c)
  <2>1. /\ request[c].plan \in Plan /\ ApprovePlan(request[c].plan)
        /\ Ends(c) /\ UNCHANGED graph
    BY <1>3 DEF ApproveCommits, Waits, IInv, RequestInv
  <2>2. QED
    BY <2>1, ApprovePlanKeepsTables, EndsKeepsRequests, GraphUnchanged DEF IInv
<1>4. QED
  BY <1>1, <1>2, <1>3

LEMMA ExecuteStep ==
    ASSUME IInv, NEW c \in Client,
           \/ \E p \in Plan : ExecuteBegins(c, p)
           \/ ExecuteChecks(c)
           \/ \E e \in Execution : ExecuteCommits(c, e)
    PROVE  IInv'
<1>1. ASSUME NEW p \in Plan, ExecuteBegins(c, p)
      PROVE  IInv'
  <2>1. Begins(c, Read("execute", "scan", p, None)) /\ UNCHANGED <<graph, rows>>
    BY <1>1 DEF ExecuteBegins
  <2>2. RequestInv'
    BY <2>1, ReadIsRequest, BeginsKeepsRequests DEF IInv, Route, Await
  <2>3. QED
    BY <2>1, <2>2, RowsUnchanged, GraphUnchanged DEF IInv
<1>2. CASE ExecuteChecks(c)
  <2>1. /\ request[c] # None /\ request[c].plan \in Plan
        /\ request' = [request EXCEPT ![c].at = "admission"]
        /\ UNCHANGED <<graph, rows>>
    BY <1>2 DEF ExecuteChecks, Waits, Goes, IInv, RequestInv
  <2>2. QED
    BY <2>1, GoesKeepsRequests, RowsUnchanged, GraphUnchanged DEF IInv
<1>3. ASSUME NEW e \in Execution, ExecuteCommits(c, e)
      PROVE  IInv'
  <2>1. /\ request[c].plan \in Plan /\ CreateApprovedExecution(e, request[c].plan)
        /\ Ends(c) /\ UNCHANGED graph
    BY <1>3 DEF ExecuteCommits, Waits, IInv, RequestInv
  <2>2. QED
    BY <2>1, CreateApprovedKeepsTables, EndsKeepsRequests, GraphUnchanged DEF IInv
<1>4. QED
  BY <1>1, <1>2, <1>3

LEMMA ReplanStep ==
    ASSUME IInv, NEW c \in Client,
           \/ \E e \in Execution : ReplanBegins(c, e)
           \/ ReplanPlans(c)
           \/ \E p \in Plan, edited \in BOOLEAN : ReplanCommits(c, p, edited)
    PROVE  IInv'
<1>1. ASSUME NEW e \in Execution, ReplanBegins(c, e)
      PROVE  IInv'
  <2>1. /\ Begins(c, Read("replan", "body", execution[e].pending, e))
        /\ UNCHANGED <<graph, rows>>
        /\ execution[e].pending \in Plan \cup {None}
    BY <1>1 DEF ReplanBegins, IInv, TableInv, TablesOK, ExecutionRow
  <2>2. RequestInv'
    BY <2>1, ReadIsRequest, BeginsKeepsRequests DEF IInv, Route, Await
  <2>3. QED
    BY <2>1, <2>2, RowsUnchanged, GraphUnchanged DEF IInv
<1>2. CASE ReplanPlans(c)
  <2>1. /\ request[c] # None /\ request[c] \in Request /\ request[c].route = "replan"
        /\ request[c].execution \in Execution
        /\ request' = [request EXCEPT ![c].at = "planner", ![c].draft = draft,
                                      ![c].folder = folder, ![c].settings = settings]
        /\ UNCHANGED <<graph, rows>>
    BY <1>2 DEF ReplanPlans, Waits, IInv, RequestInv, RequestsOK
  <2>2. /\ request'[c] \in Request /\ request'[c].route = "replan"
        /\ request'[c].at = "planner" /\ request'[c].folder = folder
        /\ request'[c].execution = request[c].execution
        /\ \A d \in Client \ {c} : request'[d] = request[d]
        /\ request' \in [Client -> Request \cup {None}]
    BY <2>1 DEF IInv, GraphOK, RequestInv, RequestsOK, Request, Await
  <2>3. RequestInv'
    BY <2>1, <2>2 DEF IInv, GraphOK, RequestInv, RequestsOK
  <2>4. QED
    BY <2>1, <2>3, RowsUnchanged, GraphUnchanged DEF IInv
<1>3. ASSUME NEW p \in Plan, NEW edited \in BOOLEAN, ReplanCommits(c, p, edited)
      PROVE  IInv'
  <2>1. /\ request[c] # None /\ request[c].route = "replan" /\ request[c].at = "planner"
        /\ plan[p].status = "none"
        /\ CommitReplan(request[c].execution, p, request[c].plan, request[c].draft,
                        edited, request[c].folder)
        /\ Ends(c) /\ UNCHANGED <<folder, settings, agents>>
    BY <1>3 DEF ReplanCommits, Waits
  <2>2. /\ request[c].execution \in Execution /\ request[c].folder \in Folder
        /\ request[c].plan \in Plan \cup {None}
    BY <2>1 DEF IInv, RequestInv, RequestsOK, Request
  <2>3. TableInv' /\ draft' \in Nat
    BY <2>1, <2>2, CommitReplanKeepsTables DEF IInv
  <2>4. QED
    BY <2>1, <2>3, EndsKeepsRequests DEF IInv, GraphOK
<1>4. QED
  BY <1>1, <1>2, <1>3

LEMMA ResumeStep ==
    ASSUME IInv, NEW c \in Client,
           \/ \E e \in Execution : ResumeBegins(c, e)
           \/ ResumesPinned(c) \/ ResumeChecks(c)
           \/ \E next \in Execution : ResumesReplan(c, next)
    PROVE  IInv'
<1>1. ASSUME NEW e \in Execution, ResumeBegins(c, e)
      PROVE  IInv'
  <2>1. /\ Begins(c, Read("resume", "body", execution[e].pending, e))
        /\ UNCHANGED <<graph, rows>>
        /\ execution[e].pending \in Plan \cup {None}
    BY <1>1 DEF ResumeBegins, IInv, TableInv, TablesOK, ExecutionRow
  <2>2. RequestInv'
    BY <2>1, ReadIsRequest, BeginsKeepsRequests DEF IInv, Route, Await
  <2>3. QED
    BY <2>1, <2>2, RowsUnchanged, GraphUnchanged DEF IInv
<1>2. CASE ResumesPinned(c)
  <2>1. /\ request[c].execution \in Execution
        /\ ResumePinnedExecution(request[c].execution)
        /\ Ends(c) /\ UNCHANGED graph
    BY <1>2 DEF ResumesPinned, Waits, IInv, RequestInv
  <2>2. QED
    BY <2>1, ResumePinnedKeepsTables, EndsKeepsRequests, GraphUnchanged DEF IInv
<1>3. CASE ResumeChecks(c)
  <2>1. /\ request[c] # None /\ request[c].plan \in Plan
        /\ request' = [request EXCEPT ![c].at = "scan"]
        /\ UNCHANGED <<graph, rows>>
    BY <1>3 DEF ResumeChecks, Waits, Goes, IInv, RequestInv, RequestsOK, Request
  <2>2. QED
    BY <2>1, GoesKeepsRequests, RowsUnchanged, GraphUnchanged DEF IInv
<1>4. ASSUME NEW next \in Execution, ResumesReplan(c, next)
      PROVE  IInv'
  <2>1. /\ request[c].execution \in Execution /\ request[c].plan \in Plan
        /\ SupersedeWithSuccessor(request[c].execution, next, request[c].plan)
        /\ Ends(c) /\ UNCHANGED graph
    BY <1>4 DEF ResumesReplan, Waits, IInv, RequestInv, RequestsOK
  <2>2. QED
    BY <2>1, SupersedeKeepsTables, EndsKeepsRequests, GraphUnchanged DEF IInv
<1>5. QED
  BY <1>1, <1>2, <1>3, <1>4

LEMMA RebindStep ==
    ASSUME IInv, NEW c \in Client,
           RebindBegins(c) \/ \E path \in Requested : RebindCommits(c, path)
    PROVE  IInv'
<1>1. CASE RebindBegins(c)
  <2> DEFINE read == [Read("rebind", "body", None, None) EXCEPT !.folder = folder]
  <2>1. read \in Request /\ read.route = "rebind" /\ read.at = "body"
    BY DEF IInv, GraphOK, Read, Request, Route, Await
  <2>2. Begins(c, read) /\ UNCHANGED <<graph, rows>>
    BY <1>1 DEF RebindBegins
  <2> HIDE DEF read
  <2>3. RequestInv'
    BY <2>1, <2>2, BeginsKeepsRequests DEF IInv
  <2>4. QED
    BY <2>2, <2>3, RowsUnchanged, GraphUnchanged DEF IInv
<1>2. ASSUME NEW path \in Requested, RebindCommits(c, path)
      PROVE  IInv'
  <2>1. Ends(c) /\ UNCHANGED <<settings, agents, approvals, execution>>
    BY <1>2 DEF RebindCommits
  <2>2. CASE UpdateGraph(path)
    <3>1. UNCHANGED rows /\ GraphOK'
      BY <2>1, <2>2 DEF UpdateGraph, rows, IInv, GraphOK
    <3>2. QED
      BY <3>1, <2>1, RowsUnchanged, EndsKeepsRequests DEF IInv
  <2>3. CASE /\ ActiveExecutions = {}
             /\ folder' = path /\ draft' = draft + 1
             /\ plan' = SupersedeAwaiting(plan, Plan)
    <3>1. /\ plan' \in [Plan -> PlanRow]
          /\ \A p \in Plan : plan[p].status # "none" => plan'[p].status # "none"
      BY <2>3 DEF SupersedeAwaiting, PlanRow, IInv, TableInv, TablesOK
    <3>2. TableInv'
      BY <2>1, <2>3, <3>1, GivenUpKeepsTables DEF IInv
    <3>3. GraphOK'
      BY <2>1, <2>3 DEF IInv, GraphOK
    <3>4. QED
      BY <2>1, <3>2, <3>3, EndsKeepsRequests DEF IInv
  <2>4. QED
    BY <1>2, <2>2, <2>3 DEF RebindCommits, RebindGraphWorkspace
<1>3. QED
  BY <1>1, <1>2

LEMMA OtherStep ==
    ASSUME IInv,
           \/ SaveDraft \/ PinsChange
           \/ \E p \in Plan : Adopt(p)
           \/ \E e \in Execution : ExecutionPauses(e) \/ ExecutionEnds(e)
    PROVE  IInv'
<1>1. RequestInv'
  BY DEF IInv, RequestInv, RequestsOK, SaveDraft, PinsChange, Adopt, ExecutionPauses,
         ExecutionEnds
<1>2. CASE SaveDraft \/ PinsChange
  <2>1. UNCHANGED rows /\ GraphOK'
    BY <1>2 DEF SaveDraft, PinsChange, IInv, GraphOK
  <2>2. QED
    BY <2>1, <1>1, RowsUnchanged DEF IInv
<1>3. ASSUME NEW p \in Plan, Adopt(p)
      PROVE  IInv'
  <2>1. /\ ActiveExecutions = {} /\ UNCHANGED <<approvals, execution>>
        /\ plan' = [plan EXCEPT ![p].status = "SUPERSEDED"]
        /\ GraphOK'
    BY <1>3 DEF Adopt, IInv, GraphOK
  <2>2. /\ plan' \in [Plan -> PlanRow]
        /\ \A q \in Plan : plan[q].status # "none" => plan'[q].status # "none"
    BY <2>1 DEF IInv, TableInv, TablesOK, PlanRow
  <2>3. QED
    BY <2>1, <2>2, <1>1, GivenUpKeepsTables DEF IInv
<1>4. ASSUME NEW e \in Execution, ExecutionPauses(e) \/ ExecutionEnds(e)
      PROVE  IInv'
  <2>1. UNCHANGED graph /\ UNCHANGED <<plan, approvals>>
    BY <1>4 DEF ExecutionPauses, ExecutionEnds
  <2>2. TableInv'
    <3>1. CASE ExecutionPauses(e)
      BY <3>1, <2>1, StatusKeepsTables DEF ExecutionPauses, IInv, ActiveExecutions
    <3>2. CASE ExecutionEnds(e)
      BY <3>2, <2>1, StatusKeepsTables DEF ExecutionEnds, IInv
    <3>3. QED
      BY <1>4, <3>1, <3>2
  <2>3. QED
    BY <2>1, <2>2, <1>1, GraphUnchanged DEF IInv
<1>5. QED
  BY <1>2, <1>3, <1>4

LEMMA InitInv == Init => IInv
<1> SUFFICES ASSUME Init PROVE IInv
  OBVIOUS
<1>1. GraphOK /\ RequestInv
  BY DEF Init, GraphOK, RequestInv, RequestsOK
<1>2. TablesOK
  BY DEF Init, TablesOK, PlanRow, ExecutionRow
<1>3. PendingInv /\ PendingPlanStands /\ RootExists /\ OneOpenPerLineage
  BY DEF Init, PendingInv, PendingPlanStands, Pending, RootExists, OneOpenPerLineage,
         ActiveExecutions
<1>4. QED
  BY <1>1, <1>2, <1>3 DEF IInv, TableInv

LEMMA StepInv == IInv /\ [Next]_vars => IInv'
<1> SUFFICES ASSUME IInv, [Next]_vars PROVE IInv'
  OBVIOUS
<1>1. ASSUME NEW c \in Client, Turn(c)
      PROVE  IInv'
  BY <1>1, RefusedStep, PlanStep, FreshnessStep, ApproveStep, ExecuteStep, ReplanStep,
     ResumeStep, RebindStep DEF Turn
<1>2. CASE SaveDraft \/ PinsChange \/ (\E p \in Plan : Adopt(p))
           \/ (\E e \in Execution : ExecutionPauses(e) \/ ExecutionEnds(e))
  BY <1>2, OtherStep
<1>3. CASE UNCHANGED vars
  <2>1. UNCHANGED graph /\ UNCHANGED rows /\ UNCHANGED request
    BY <1>3 DEF vars
  <2>2. RequestInv'
    BY <2>1 DEF IInv, RequestInv, RequestsOK
  <2>3. QED
    BY <2>1, <2>2, RowsUnchanged, GraphUnchanged DEF IInv
<1>4. QED
  BY <1>1, <1>2, <1>3 DEF Next

------------------------------------------------------------------------------
(***************************************************************************)
(* Theorems.                                                               *)
(***************************************************************************)

\* The tables and the requests in flight stay as the routes rely on them: every
\* interleaving of the turns of any number of requests keeps the inductive invariant.
THEOREM Invariance == Spec => []IInv
<1>1. QED
  BY InitInv, StepInv, PTL DEF Spec

\* Rows and the rows that requests remember have their types; an execution that has
\* begun names its plan and the root of its lineage.
THEOREM TypeCorrectness == Spec => []TypeOK
<1>1. IInv => TypeOK
  BY DEF IInv, TableInv, RequestInv, TypeOK
<1>2. QED
  BY <1>1, Invariance, PTL

\* A plan a paused execution waits for stays open or approved, whatever adopting,
\* rebinding, replanning or resuming happens next to it, and no two executions
\* wait for one plan.
THEOREM PendingPlanSafety == Spec => []PendingPlanStands
<1>1. IInv => PendingPlanStands
  BY DEF IInv, TableInv
<1>2. QED
  BY <1>1, Invariance, PTL

\* However many resume requests race, a lineage has one open execution at most.
THEOREM OneSuccessor == Spec => []OneOpenPerLineage
<1>1. IInv => OneOpenPerLineage
  BY DEF IInv, TableInv
<1>2. QED
  BY <1>1, Invariance, PTL

\* What the executions table can look like after a step.  Only the two routes that
\* admit, and only a committed replan and a pinned resume, do more than move a status.
ExecutionStep ==
    \/ \E e \in Execution, p \in Plan : CreateApprovedExecution(e, p)
    \/ \E e \in Execution, next \in Execution, p \in Plan : SupersedeWithSuccessor(e, next, p)
    \/ \E e \in Execution, p \in Plan, seen \in Plan \cup {None}, expectedDraft \in Nat,
         edited \in BOOLEAN, boundFolder \in Folder :
            plan[p].status = "none"
            /\ CommitReplan(e, p, seen, expectedDraft, edited, boundFolder)
    \/ \E e \in Execution : ResumePinnedExecution(e)
    \/ \E e \in ActiveExecutions, new \in {"PAUSED", "ENDED"} :
            execution' = [execution EXCEPT ![e].status = new]
    \/ UNCHANGED execution

LEMMA StepsOfExecutions ==
    ASSUME IInv, [Next]_vars
    PROVE  ExecutionStep
<1>1. ASSUME NEW c \in Client, Turn(c)
      PROVE  ExecutionStep
  <2>1. CASE Refused(c) \/ ContextScanned(c) \/ PlanBegins(c) \/ ApproveChecks(c)
             \/ ExecuteChecks(c) \/ ReplanPlans(c) \/ ResumeChecks(c) \/ RebindBegins(c)
    BY <2>1 DEF Refused, ContextScanned, PlanBegins, ApproveChecks, ExecuteChecks,
                ReplanPlans, ResumeChecks, RebindBegins, Goes, rows, ExecutionStep
  <2>2. CASE \/ \E p \in Plan : ApproveBegins(c, p) \/ ExecuteBegins(c, p) \/ PlanPersists(c, p)
             \/ \E e \in Execution : ReplanBegins(c, e) \/ ResumeBegins(c, e)
             \/ \E path \in Requested : RebindCommits(c, path)
    BY <2>2 DEF ApproveBegins, ExecuteBegins, PlanPersists, ReplanBegins, ResumeBegins,
                RebindCommits, rows, ExecutionStep
  <2>3. CASE ApproveCommits(c)
    BY <2>3 DEF ApproveCommits, ApprovePlan, rows, ExecutionStep
  <2>4. ASSUME NEW e \in Execution, ExecuteCommits(c, e)
        PROVE  ExecutionStep
    <3>1. request[c].plan \in Plan /\ CreateApprovedExecution(e, request[c].plan)
      BY <2>4 DEF ExecuteCommits, Waits, IInv, RequestInv
    <3>2. QED
      BY <3>1 DEF ExecutionStep
  <2>5. ASSUME NEW p \in Plan, NEW edited \in BOOLEAN, ReplanCommits(c, p, edited)
        PROVE  ExecutionStep
    <3>1. /\ plan[p].status = "none"
          /\ CommitReplan(request[c].execution, p, request[c].plan, request[c].draft,
                          edited, request[c].folder)
          /\ request[c] # None /\ request[c].route = "replan" /\ request[c].at = "planner"
      BY <2>5 DEF ReplanCommits, Waits
    <3>2. /\ request[c].execution \in Execution /\ request[c].folder \in Folder
          /\ request[c].plan \in Plan \cup {None} /\ request[c].draft \in Nat
      BY <3>1 DEF IInv, RequestInv, RequestsOK, Request
    <3>3. QED
      BY <3>1, <3>2 DEF ExecutionStep
  <2>6. CASE ResumesPinned(c)
    <3>1. /\ request[c].execution \in Execution
          /\ ResumePinnedExecution(request[c].execution)
      BY <2>6 DEF ResumesPinned, Waits, IInv, RequestInv
    <3>2. QED
      BY <3>1 DEF ExecutionStep
  <2>7. ASSUME NEW next \in Execution, ResumesReplan(c, next)
        PROVE  ExecutionStep
    <3>1. /\ request[c].execution \in Execution /\ request[c].plan \in Plan
          /\ SupersedeWithSuccessor(request[c].execution, next, request[c].plan)
      BY <2>7 DEF ResumesReplan, Waits, IInv, RequestInv, RequestsOK
    <3>2. QED
      BY <3>1 DEF ExecutionStep
  <2>8. QED
    BY <1>1, <2>1, <2>2, <2>3, <2>4, <2>5, <2>6, <2>7 DEF Turn
<1>2. CASE SaveDraft \/ PinsChange \/ \E p \in Plan : Adopt(p)
  BY <1>2 DEF SaveDraft, PinsChange, Adopt, rows, ExecutionStep
<1>3. CASE \E e \in Execution : ExecutionPauses(e) \/ ExecutionEnds(e)
  BY <1>3 DEF ExecutionPauses, ExecutionEnds, ActiveExecutions, ExecutionStep
<1>4. CASE UNCHANGED vars
  BY <1>4 DEF vars, rows, ExecutionStep
<1>5. QED
  BY <1>1, <1>2, <1>3, <1>4 DEF Next

\* Of those steps two begin an execution, and what they admit.
LEMMA AdmittingSteps ==
    ASSUME IInv, [Next]_vars, NEW e \in Execution, Admitted(e)
    PROVE  \/ \E p \in Plan : /\ CreateApprovedExecution(e, p)
                              /\ execution'[e].plan = p
           \/ \E f \in Execution, p \in Plan : /\ SupersedeWithSuccessor(f, e, p)
                                             /\ execution'[e].plan = p
<1>1. execution \in [Execution -> ExecutionRow]
  BY DEF IInv, TableInv, TablesOK
<1>2. ASSUME NEW f \in Execution, NEW p \in Plan, CreateApprovedExecution(f, p)
      PROVE  f = e /\ execution'[e].plan = p
  BY <1>1, <1>2 DEF Admitted, CreateApprovedExecution, CreateExecution
<1>3. ASSUME NEW f \in Execution, NEW next \in Execution, NEW p \in Plan,
             SupersedeWithSuccessor(f, next, p)
      PROVE  next = e /\ execution'[e].plan = p
  <2>1. execution' = [execution EXCEPT ![f].status = "SUPERSEDED",
                                       ![next] = CreateExecution(p, f, execution[f].root)]
        /\ execution[f].status = "PAUSED" /\ execution[next].status = "none"
    BY <1>3 DEF SupersedeWithSuccessor
  <2>2. next = e
    BY <1>1, <2>1 DEF Admitted
  <2>3. QED
    BY <1>1, <2>1, <2>2 DEF CreateExecution
<1>4. ASSUME NEW f \in Execution, NEW p \in Plan, NEW seen, NEW expectedDraft, NEW edited,
             NEW boundFolder, CommitReplan(f, p, seen, expectedDraft, edited, boundFolder)
      PROVE  FALSE
  <2>1. execution' = [execution EXCEPT ![f].pending = p]
    BY <1>4 DEF CommitReplan
  <2>2. QED
    BY <1>1, <2>1 DEF Admitted, ExecutionRow
<1>5. ASSUME NEW f \in Execution, ResumePinnedExecution(f)
      PROVE  FALSE
  <2>1. /\ execution[f].status = "PAUSED"
        /\ execution' = [execution EXCEPT ![f].status = "RUNNING", ![f].pending = None]
    BY <1>5 DEF ResumePinnedExecution
  <2>2. QED
    BY <1>1, <2>1 DEF Admitted, ExecutionRow
<1>6. ASSUME NEW f \in ActiveExecutions, NEW new \in {"PAUSED", "ENDED"},
             execution' = [execution EXCEPT ![f].status = new]
      PROVE  FALSE
  BY <1>1, <1>6 DEF Admitted, ActiveExecutions, ExecutionRow
<1>7. CASE UNCHANGED execution
  BY <1>7 DEF Admitted
<1>8. QED
  BY StepsOfExecutions, <1>2, <1>3, <1>4, <1>5, <1>6, <1>7 DEF ExecutionStep

\* No execution begins for a draft that is not the latest, although both routes read
\* the draft several awaits before they write.
THEOREM AdmissionAtLatestDraft == Spec => AdmittedAtLatestDraft
<1>1. ASSUME IInv, [Next]_vars, NEW e \in Execution, Admitted(e)
      PROVE  plan[execution'[e].plan].base = draft
  BY <1>1, AdmittingSteps DEF CreateApprovedExecution, SupersedeWithSuccessor
<1>2. IInv /\ [Next]_vars
      => [\A e \in Execution : Admitted(e) => plan[execution'[e].plan].base = draft]_vars
  BY <1>1
<1>3. QED
  BY <1>2, Invariance, PTL DEF Spec, AdmittedAtLatestDraft

\* An execution that is superseded is continued in the same step, with the plan that
\* was pending on it.
THEOREM SuccessorContinues == Spec => SuccessorContinuesPending
<1> DEFINE Continued(e) ==
      (execution[e].status # "SUPERSEDED" /\ execution'[e].status = "SUPERSEDED") =>
          \E next \in Execution :
              /\ Admitted(next)
              /\ execution'[next].parent = e
              /\ execution'[next].plan = execution[e].pending
<1>1. ASSUME IInv, [Next]_vars, NEW e \in Execution,
             execution[e].status # "SUPERSEDED", execution'[e].status = "SUPERSEDED"
      PROVE  \E next \in Execution : /\ Admitted(next)
                                    /\ execution'[next].parent = e
                                    /\ execution'[next].plan = execution[e].pending
  <2>1. execution \in [Execution -> ExecutionRow]
    BY <1>1 DEF IInv, TableInv, TablesOK
  <2>2. ASSUME NEW f \in Execution, NEW p \in Plan, CreateApprovedExecution(f, p)
        PROVE  FALSE
    BY <2>1, <2>2, <1>1 DEF CreateApprovedExecution, CreateExecution
  <2>3. ASSUME NEW f \in Execution, NEW next \in Execution, NEW p \in Plan,
               SupersedeWithSuccessor(f, next, p)
        PROVE  /\ Admitted(next) /\ execution'[next].parent = e
               /\ execution'[next].plan = execution[e].pending
    <3>1. /\ execution[f].status = "PAUSED" /\ execution[f].pending = p
          /\ execution[next].status = "none"
          /\ execution' = [execution EXCEPT ![f].status = "SUPERSEDED",
                                            ![next] = CreateExecution(p, f, execution[f].root)]
      BY <2>3 DEF SupersedeWithSuccessor
    <3>2. /\ execution'[next] = CreateExecution(p, f, execution[f].root)
          /\ \A g \in Execution \ {f, next} : execution'[g] = execution[g]
      BY <2>1, <3>1
    <3>3. e = f
      BY <1>1, <3>2 DEF CreateExecution
    <3>4. QED
      BY <3>1, <3>2, <3>3 DEF Admitted, CreateExecution
  <2>4. ASSUME NEW f \in Execution, NEW p \in Plan, NEW seen, NEW expectedDraft, NEW edited,
               NEW boundFolder, CommitReplan(f, p, seen, expectedDraft, edited, boundFolder)
        PROVE  FALSE
    BY <2>1, <2>4, <1>1 DEF CommitReplan, ExecutionRow
  <2>5. ASSUME NEW f \in Execution, ResumePinnedExecution(f)
        PROVE  FALSE
    BY <2>1, <2>5, <1>1 DEF ResumePinnedExecution, ExecutionRow
  <2>6. ASSUME NEW f \in ActiveExecutions, NEW new \in {"PAUSED", "ENDED"},
               execution' = [execution EXCEPT ![f].status = new]
        PROVE  FALSE
    BY <2>1, <2>6, <1>1 DEF ActiveExecutions, ExecutionRow
  <2>7. QED
    BY StepsOfExecutions, <1>1, <2>2, <2>3, <2>4, <2>5, <2>6 DEF ExecutionStep
<1>2. IInv /\ [Next]_vars => [\A e \in Execution : Continued(e)]_vars
  BY <1>1
<1>3. QED
  BY <1>2, Invariance, PTL DEF Spec, SuccessorContinuesPending

\* A pending plan that a replan replaces or a pinned resume gives up is not left open.
THEOREM DiscardedPlans == Spec => DiscardedPlanIsSuperseded
<1> DEFINE Discarded(e) ==
      (Pending(e) /\ execution'[e].pending # execution[e].pending) =>
          plan'[execution[e].pending].status # "AWAITING_APPROVAL"
<1>1. ASSUME IInv, [Next]_vars, NEW e \in Execution,
             Pending(e), execution'[e].pending # execution[e].pending
      PROVE  plan'[execution[e].pending].status # "AWAITING_APPROVAL"
  <2>1. /\ execution \in [Execution -> ExecutionRow] /\ plan \in [Plan -> PlanRow]
        /\ execution[e].status = "PAUSED" /\ execution[e].pending \in Plan
    BY <1>1 DEF IInv, TableInv, TablesOK, Pending, ExecutionRow
  <2>2. ASSUME NEW f \in Execution, NEW p \in Plan, CreateApprovedExecution(f, p)
        PROVE  FALSE
    BY <2>1, <2>2, <1>1 DEF CreateApprovedExecution
  <2>3. ASSUME NEW f \in Execution, NEW next \in Execution, NEW p \in Plan,
               SupersedeWithSuccessor(f, next, p)
        PROVE  FALSE
    <3>1. /\ execution[next].status = "none"
          /\ execution' = [execution EXCEPT ![f].status = "SUPERSEDED",
                                            ![next] = CreateExecution(p, f, execution[f].root)]
      BY <2>3 DEF SupersedeWithSuccessor
    <3>2. QED
      BY <2>1, <3>1, <1>1 DEF ExecutionRow
  <2>4. ASSUME NEW f \in Execution, NEW p \in Plan, NEW seen, NEW expectedDraft, NEW edited,
               NEW boundFolder, plan[p].status = "none",
               CommitReplan(f, p, seen, expectedDraft, edited, boundFolder)
        PROVE  plan'[execution[e].pending].status # "AWAITING_APPROVAL"
    <3>1. /\ execution[f].pending = seen
          /\ execution' = [execution EXCEPT ![f].pending = p]
          /\ plan' = SupersedeAwaiting([plan EXCEPT ![p] = CreatePlan(draft', boundFolder)],
                                       {seen})
      BY <2>4 DEF CommitReplan
    <3>2. f = e
      BY <2>1, <3>1, <1>1
    <3>3. seen \in Plan /\ seen # p
      BY <2>1, <3>1, <3>2, <2>4, <1>1 DEF IInv, TableInv, PendingInv
    <3>4. QED
      BY <2>1, <3>1, <3>2, <3>3 DEF SupersedeAwaiting, PlanRow
  <2>5. ASSUME NEW f \in Execution, ResumePinnedExecution(f)
        PROVE  plan'[execution[e].pending].status # "AWAITING_APPROVAL"
    <3>1. f = e
      BY <2>1, <2>5, <1>1 DEF ResumePinnedExecution
    <3>2. QED
      BY <2>1, <2>5, <3>1 DEF ResumePinnedExecution, PlanRow
  <2>6. ASSUME NEW f \in ActiveExecutions, NEW new \in {"PAUSED", "ENDED"},
               execution' = [execution EXCEPT ![f].status = new]
        PROVE  FALSE
    BY <2>1, <2>6, <1>1 DEF ActiveExecutions, ExecutionRow
  <2>7. QED
    BY StepsOfExecutions, <1>1, <2>2, <2>3, <2>4, <2>5, <2>6 DEF ExecutionStep
<1>2. IInv /\ [Next]_vars => [\A e \in Execution : Discarded(e)]_vars
  BY <1>1
<1>3. QED
  BY <1>2, Invariance, PTL DEF Spec, DiscardedPlanIsSuperseded
------------------------------------------------------------------------------
(***************************************************************************)
(* The folder, while all PATCH requests ask for the same one.              *)
(***************************************************************************)

\* The folder moves only while no execution is active, and to a new draft.
LEMMA FolderMoves ==
    ASSUME IInv, OneFolderRequested, FolderInv, [Next]_vars
    PROVE  \/ folder' = folder /\ draft' \in {draft, draft + 1}
           \/ ActiveExecutions = {} /\ folder' \in Requested /\ draft' = draft + 1
<1>1. ASSUME NEW c \in Client, NEW path \in Requested, RebindCommits(c, path)
      PROVE  \/ folder' = folder /\ draft' = draft
             \/ ActiveExecutions = {} /\ folder' \in Requested /\ draft' = draft + 1
  <2>1. CASE path = request[c].folder
    <3>1. folder' = path /\ draft' = draft
      BY <1>1, <2>1 DEF RebindCommits, UpdateGraph
    <3>2. path = folder
      BY <1>1, <2>1 DEF RebindCommits, Waits, FolderInv, OneFolderRequested
    <3>3. QED
      BY <3>1, <3>2
  <2>2. CASE path # request[c].folder
    BY <1>1, <2>2 DEF RebindCommits, RebindGraphWorkspace, UpdateGraph
  <2>3. QED
    BY <2>1, <2>2
<1>2. ASSUME NEW c \in Client, NEW p \in Plan, NEW edited \in BOOLEAN, ReplanCommits(c, p, edited)
      PROVE  folder' = folder /\ draft' \in {draft, draft + 1}
  BY <1>2 DEF ReplanCommits, CommitReplan
<1>3. CASE UNCHANGED <<draft, folder>>
  BY <1>3
<1>4. CASE SaveDraft \/ \E p \in Plan : Adopt(p)
  BY <1>4 DEF SaveDraft, Adopt
<1>5. QED
  BY <1>1, <1>2, <1>3, <1>4
  DEF Next, Turn, vars, graph, Refused, ContextScanned, Goes, PlanBegins, PlanPersists, ApproveBegins,
      ApproveChecks, ApproveCommits, ExecuteBegins, ExecuteChecks, ExecuteCommits, ReplanBegins,
      ReplanPlans, ResumeBegins, ResumesPinned, ResumeChecks, ResumesReplan, RebindBegins,
      PinsChange, ExecutionPauses, ExecutionEnds

\* A plan is as it was, or what a planner answered, or a replan with a draft of its own.
LEMMA PlansAre ==
    ASSUME IInv, [Next]_vars, NEW p \in Plan
    PROVE  \/ plan'[p].base = plan[p].base /\ plan'[p].folder = plan[p].folder
           \/ \E c \in Client :
                 /\ request[c] # None /\ request[c].at = "planner" /\ folder' = folder
                 /\ plan'[p].folder = request[c].folder
                 /\ \/ plan'[p].base = request[c].draft /\ draft' = draft
                    \/ request[c].draft = draft /\ plan'[p].base = draft'
<1> DEFINE Kept == plan'[p].base = plan[p].base /\ plan'[p].folder = plan[p].folder
<1>1. plan \in [Plan -> PlanRow]
  BY DEF IInv, TableInv, TablesOK
<1>2. CASE plan' = plan
  BY <1>2
<1>3. ASSUME NEW c \in Client, NEW q \in Plan, PlanPersists(c, q), ~Kept
      PROVE  /\ request[c] # None /\ request[c].at = "planner" /\ folder' = folder
             /\ plan'[p].folder = request[c].folder
             /\ plan'[p].base = request[c].draft /\ draft' = draft
  BY <1>1, <1>3 DEF PlanPersists, Waits, CreatePlan, graph
<1>4. ASSUME NEW c \in Client, NEW q \in Plan, NEW edited \in BOOLEAN, ReplanCommits(c, q, edited), ~Kept
      PROVE  /\ request[c] # None /\ request[c].at = "planner" /\ folder' = folder
             /\ plan'[p].folder = request[c].folder
             /\ request[c].draft = draft /\ plan'[p].base = draft'
  <2> DEFINE new == CreatePlan(draft', request[c].folder)
             inserted == [plan EXCEPT ![q] = new]
  <2>1. /\ request[c] # None /\ request[c].at = "planner" /\ folder' = folder
        /\ request[c].draft = draft
        /\ plan' = SupersedeAwaiting(inserted, {request[c].plan})
    BY <1>4 DEF ReplanCommits, CommitReplan, Waits
  <2>2. request[c] \in Request /\ request[c].folder \in Folder /\ draft' \in Nat
    BY <1>4, <2>1 DEF IInv, RequestInv, RequestsOK, GraphOK, ReplanCommits, CommitReplan
  <2>3. new \in PlanRow /\ new.base = draft' /\ new.folder = request[c].folder
    BY <2>2 DEF CreatePlan, PlanRow, IInv, GraphOK
  <2> HIDE DEF new
  <2>4. inserted \in [Plan -> PlanRow]
    BY <1>1, <2>3
  <2>5. plan'[p].base = inserted[p].base /\ plan'[p].folder = inserted[p].folder
    BY <2>1, <2>4 DEF SupersedeAwaiting, PlanRow
  <2>6. p = q
    BY <1>1, <1>4, <2>5
  <2>7. QED
    BY <1>1, <2>1, <2>3, <2>5, <2>6
<1>5. ASSUME NEW c \in Client, ApproveCommits(c) \/ ResumesPinned(c)
      PROVE  Kept
  BY <1>1, <1>5 DEF ApproveCommits, ApprovePlan, ResumesPinned, ResumePinnedExecution, PlanRow, rows
<1>6. ASSUME NEW q \in Plan, Adopt(q)
      PROVE  Kept
  BY <1>1, <1>6 DEF Adopt, PlanRow
<1>7. ASSUME NEW c \in Client, NEW path \in Requested, RebindCommits(c, path)
      PROVE  Kept
  BY <1>1, <1>7 DEF RebindCommits, UpdateGraph, RebindGraphWorkspace, SupersedeAwaiting, PlanRow
<1>8. QED
  BY <1>2, <1>3, <1>4, <1>5, <1>6, <1>7
  DEF Next, Turn, vars, rows, Refused, ContextScanned, Goes, PlanBegins, ApproveBegins,
      ApproveChecks, ExecuteBegins, ExecuteChecks, ExecuteCommits, CreateApprovedExecution, ReplanBegins,
      ReplanPlans, ResumeBegins, ResumeChecks, ResumesReplan, SupersedeWithSuccessor, RebindBegins,
      SaveDraft, PinsChange, ExecutionPauses, ExecutionEnds

\* A planner was asked about the graph of now or is still waited for, and likewise what
\* a PATCH request has read of the folder.
LEMMA RequestsAre ==
    ASSUME IInv, [Next]_vars, NEW c \in Client, request'[c] # None
    PROVE  /\ request'[c].at = "planner" =>
                 \/ request'[c].draft = draft /\ request'[c].folder = folder /\ UNCHANGED graph
                 \/ /\ request[c] # None /\ request[c].at = "planner"
                    /\ request'[c].draft = request[c].draft /\ request'[c].folder = request[c].folder
           /\ request'[c].route = "rebind" =>
                 \/ request'[c].folder = folder /\ UNCHANGED graph
                 \/ /\ request[c] # None /\ request[c].route = "rebind"
                    /\ request'[c].folder = request[c].folder
<1>1. request \in [Client -> Request \cup {None}]
  BY DEF IInv, RequestInv, RequestsOK
<1>2. CASE request' = request
  BY <1>2
<1>3. ASSUME NEW d \in Client, Ends(d)
      PROVE  request'[c] = request[c]
  BY <1>1, <1>3 DEF Ends
<1>4. ASSUME NEW d \in Client, NEW await \in {"scan", "baseline", "admission"}, request[d] # None, Goes(d, await)
      PROVE  /\ request'[c].at # "planner" \/ request'[c] = request[c]
             /\ request[c] # None /\ request'[c].route = request[c].route
             /\ request'[c].folder = request[c].folder
  BY <1>1, <1>4 DEF Goes, Request
<1>5. ASSUME NEW d \in Client, NEW read, Begins(d, read)
      PROVE  request'[c] = read \/ request'[c] = request[c]
  BY <1>1, <1>5 DEF Begins
<1>6. ASSUME NEW d \in Client, PlanBegins(d) \/ RebindBegins(d)
      PROVE  \/ request'[c] = request[c]
             \/ /\ request'[c].draft = draft \/ request'[c].at # "planner"
                /\ request'[c].folder = folder /\ UNCHANGED graph
  BY <1>5, <1>6 DEF PlanBegins, RebindBegins, Read
<1>7. ASSUME NEW d \in Client, NEW p \in Plan, ApproveBegins(d, p) \/ ExecuteBegins(d, p)
      PROVE  request'[c] = request[c] \/ (request'[c].at # "planner" /\ request'[c].route # "rebind")
  BY <1>5, <1>7 DEF ApproveBegins, ExecuteBegins, Read
<1>8. ASSUME NEW d \in Client, NEW e \in Execution, ReplanBegins(d, e) \/ ResumeBegins(d, e)
      PROVE  request'[c] = request[c] \/ (request'[c].at # "planner" /\ request'[c].route # "rebind")
  BY <1>5, <1>8 DEF ReplanBegins, ResumeBegins, Read
<1>9. ASSUME NEW d \in Client, ReplanPlans(d)
      PROVE  \/ request'[c] = request[c]
             \/ /\ request'[c].draft = draft /\ request'[c].folder = folder /\ UNCHANGED graph
                /\ request'[c].route # "rebind"
  BY <1>1, <1>9 DEF ReplanPlans, Waits, Request
<1>10. CASE \E d \in Client : ContextScanned(d) \/ ApproveChecks(d) \/ ExecuteChecks(d) \/ ResumeChecks(d)
  BY <1>4, <1>10 DEF ContextScanned, ApproveChecks, ExecuteChecks, ResumeChecks, Waits
<1>11. QED
  BY <1>2, <1>3, <1>6, <1>7, <1>8, <1>9, <1>10
  DEF Next, Turn, vars, Refused, PlanPersists, ApproveCommits, ExecuteCommits, ReplanCommits,
      ResumesPinned, ResumesReplan, RebindCommits, SaveDraft, PinsChange, Adopt, ExecutionPauses, ExecutionEnds

LEMMA FolderStep == OneFolderRequested /\ IInv /\ FolderInv /\ [Next]_vars => FolderInv'
<1> SUFFICES ASSUME OneFolderRequested, IInv, FolderInv, [Next]_vars PROVE FolderInv'
  OBVIOUS
<1>1. draft \in Nat
  BY DEF IInv, GraphOK
<1>2. ASSUME NEW base \in Nat, NEW path, MadeHere(base, path)
      PROVE  base <= draft' /\ (base = draft' => path = folder')
  BY <1>1, <1>2, FolderMoves DEF MadeHere
<1>3. ASSUME NEW p \in Plan
      PROVE  MadeHere(plan[p].base, plan[p].folder)'
  <2>1. plan[p].base \in Nat
    BY DEF IInv, TableInv, TablesOK, PlanRow
  <2>2. CASE plan'[p].base = plan[p].base /\ plan'[p].folder = plan[p].folder
    BY <1>2, <2>1, <2>2 DEF FolderInv, MadeHere
  <2>3. ASSUME NEW c \in Client, request[c] # None, request[c].at = "planner", folder' = folder,
               plan'[p].folder = request[c].folder,
               \/ plan'[p].base = request[c].draft /\ draft' = draft
               \/ request[c].draft = draft /\ plan'[p].base = draft'
        PROVE  MadeHere(plan[p].base, plan[p].folder)'
    BY <1>1, <2>3, FolderMoves DEF FolderInv, MadeHere
  <2>4. QED
    BY <2>2, <2>3, PlansAre
<1>4. ASSUME NEW c \in Client, request'[c] # None, request'[c].at = "planner"
      PROVE  MadeHere(request[c].draft, request[c].folder)'
  <2>1. CASE request'[c].draft = draft /\ request'[c].folder = folder /\ UNCHANGED graph
    BY <1>1, <2>1 DEF graph, MadeHere
  <2>2. CASE /\ request[c] # None /\ request[c].at = "planner"
             /\ request'[c].draft = request[c].draft /\ request'[c].folder = request[c].folder
    <3>1. request[c].draft \in Nat
      BY <2>2 DEF IInv, RequestInv, RequestsOK, Request
    <3>2. QED
      BY <1>2, <2>2, <3>1 DEF FolderInv, MadeHere
  <2>3. QED
    BY <1>4, <2>1, <2>2, RequestsAre
<1>5. ASSUME NEW c \in Client, request'[c] # None, request'[c].route = "rebind"
      PROVE  request'[c].folder = folder' \/ folder' \in Requested
  BY <1>5, RequestsAre, FolderMoves DEF FolderInv, graph
<1>6. QED
  BY <1>3, <1>4, <1>5 DEF FolderInv

LEMMA FolderInit == Init => FolderInv
  BY DEF Init, FolderInv, MadeHere

\* An execution starts in the folder the graph is bound to at that moment, unless two
\* PATCH requests ask for opposite folders.
THEOREM AdmissionToBoundFolder == ASSUME OneFolderRequested PROVE Spec => AdmittedToBoundFolder
<1>1. ASSUME IInv, FolderInv, [Next]_vars, NEW e \in Execution, Admitted(e)
      PROVE  plan[execution'[e].plan].folder = folder
  BY <1>1, AdmittingSteps DEF CreateApprovedExecution, SupersedeWithSuccessor, FolderInv, MadeHere
<1>2. IInv /\ FolderInv /\ [Next]_vars
      => [\A e \in Execution : Admitted(e) => plan[execution'[e].plan].folder = folder]_vars
  BY <1>1
<1>3. OneFolderRequested /\ IInv /\ FolderInv /\ [Next]_vars => FolderInv'
  BY FolderStep
<1>4. QED
  BY <1>2, <1>3, FolderInit, Invariance, PTL DEF Spec, AdmittedToBoundFolder

\* "A project-folder change is rejected while an execution is queued, running, waiting
\* to pause, or paused": so it is, unless two PATCH requests ask for opposite folders.
THEOREM FolderIsStable == ASSUME OneFolderRequested PROVE Spec => FolderStableWhileActive
<1>1. OneFolderRequested /\ IInv /\ FolderInv /\ [Next]_vars
      => [(ActiveExecutions # {}) => folder' = folder]_vars
  BY FolderMoves
<1>2. OneFolderRequested /\ IInv /\ FolderInv /\ [Next]_vars => FolderInv'
  BY FolderStep
<1>3. QED
  BY <1>1, <1>2, FolderInit, Invariance, PTL DEF Spec, FolderStableWhileActive

------------------------------------------------------------------------------
(***************************************************************************)
(* The baseline of a workspace.  A plan's baseline is a snapshot, whatever *)
(* changes the folder and in whatever order the parts are read: what the   *)
(* first capture sees is no newer than the folder at its end, what the     *)
(* second sees no older, and the two are equal.  The approval's capture    *)
(* adds the same once more.                                                *)
(***************************************************************************)
\* What was seen of w or before it, and of w or after it.
Before(b, w) == \A p \in Known(b) : b[p] <= w[p]
After(b, w)  == \A p \in Known(b) : w[p] <= b[p]

\* The observers are never ahead of the folder, nor the approval behind the plan.
Observed ==
    /\ \A p \in Parts : at[p] <= ws[p] /\ asked[p] <= ws[p]
    /\ phase \in {"approval", "approved"} => \A p \in Parts : at[p] <= asked[p]

\* Where the captures stand to the folder at the ends of the earlier ones.
Ordered ==
    /\ phase = "first" => Before(capture.seen, ws)
    /\ Before(baseline, at)
    /\ phase = "final" => After(capture.seen, at)
    /\ phase = "approval" => After(capture.seen, asked)

BaselineIInv == BaselineTypeOK /\ Observed /\ Ordered /\ PlannedIsSnapshot /\ ApprovedIsUnchanged

\* Every variable keeps its type.
THEOREM TypeCorrect == BaselineSpec => []BaselineTypeOK
<1>0. Begun \in [kind : {"git", "files"}, step : {"inside", "lists", "stat", "contents", "diffs", "done"},
                 again : BOOLEAN, seen : Seen]
  <2>1. Unseen \in Seen
    BY DEF Unseen, Seen
  <2> QED
    BY <2>1 DEF Begun
<1>1. BaselineInit => BaselineTypeOK
  <2> SUFFICES ASSUME BaselineInit PROVE BaselineTypeOK
    OBVIOUS
  <2>1. Unseen \in Seen /\ ws \in [Parts -> Nat]
    BY DEF BaselineInit, Unseen, Seen
  <2> QED
    BY <1>0, <2>1 DEF BaselineInit, BaselineTypeOK
<1>2. BaselineTypeOK /\ [BaselineNext]_baselineVars => BaselineTypeOK'
  <2> SUFFICES ASSUME BaselineTypeOK, [BaselineNext]_baselineVars PROVE BaselineTypeOK'
    OBVIOUS
  <2> USE BaselineAssumption DEF BaselineTypeOK, Seen
  <2>1. CASE Edit
    <3>1. PICK e \in Edits : ws' = [p \in Parts |-> IF p \in e THEN ws[p] + 1 ELSE ws[p]]
      BY <2>1 DEF Edit
    <3>2. ws' \in [Parts -> Nat]
      BY <3>1
    <3> QED
      BY <2>1, <3>2 DEF Edit
  <2>2. CASE Inside
    BY <2>2 DEF Inside
  <2>3. CASE Lists
    <3>1. PICK p \in Parts : capture' = [capture EXCEPT !.seen = Sees(p, ws[p]),
                                                       !.step = IF Unread(FirstReads) = {p} THEN "stat" ELSE "lists"]
      BY <2>3 DEF Lists, Unread, FirstReads, Parts, Tracked, Untracked
    <3>2. Sees(p, ws[p]) \in Seen
      BY DEF Sees
    <3> QED
      BY <2>3, <3>1, <3>2 DEF Lists
  <2>4. CASE HeadUnanswered
    BY <2>4 DEF HeadUnanswered, Sees, Parts, Tracked, Untracked
  <2>5. CASE Stats
    BY <2>5 DEF Stats, Sees, Parts, Tracked, Untracked
  <2>6. CASE Contents
    <3>1. Sees("contents", ws["contents"]) \in Seen
      BY DEF Sees, Parts, Tracked, Untracked
    <3>2. /\ capture' \in [kind : {"git", "files"}, step : {"inside", "lists", "stat", "contents", "diffs", "done"},
                          again : BOOLEAN, seen : Seen]
          /\ phase' \in {phase, "refused", "stale"}
      BY <2>6, <3>1 DEF Contents, PlanRefused
    <3> QED
      BY <2>6, <3>2 DEF Contents
  <2>7. CASE Diffs
    <3>1. PICK p \in Parts : capture' = [capture EXCEPT !.seen = Sees(p, ws[p]), !.step = Advanced(p)]
      BY <2>7 DEF Diffs, Left, Unread, Parts, Tracked, Untracked
    <3>2. Sees(p, ws[p]) \in Seen /\ Advanced(p) \in {"done", "diffs"}
      BY DEF Sees, Advanced
    <3> QED
      BY <2>7, <3>1, <3>2 DEF Diffs
  <2>8. CASE ListsAgain
    BY <2>8 DEF ListsAgain, Advanced, PlanRefused
  <2>9. CASE Fails
    BY <2>9 DEF Fails, PlanRefused
  <2>10. CASE FirstEnds
    BY <2>10 DEF FirstEnds, Captured
  <2>11. CASE ProviderAnswers
    BY <2>11 DEF ProviderAnswers, Begun, Unseen
  <2>12. CASE FinalEnds
    BY <2>12 DEF FinalEnds
  <2>13. CASE AsksForApproval
    BY <2>13 DEF AsksForApproval, Begun, Unseen
  <2>14. CASE ApprovalEnds
    BY <2>14 DEF ApprovalEnds
  <2>15. CASE UNCHANGED baselineVars
    BY <2>15 DEF baselineVars
  <2> QED
    BY <2>1, <2>2, <2>3, <2>4, <2>5, <2>6, <2>7, <2>8, <2>9, <2>10, <2>11, <2>12, <2>13, <2>14, <2>15 DEF BaselineNext
<1> QED
  BY <1>1, <1>2, PTL DEF BaselineSpec

\* A part that is read now is no newer and no older than the folder.
LEMMA SeesNow ==
    ASSUME BaselineTypeOK, Observed, NEW p \in Parts, NEW v, v = ws[p],
           capture'.seen = Sees(p, v), ws' = ws, at' = at, asked' = asked
    PROVE  /\ Before(capture.seen, ws) => Before(capture.seen, ws)'
           /\ After(capture.seen, at) => After(capture.seen, at)'
           /\ After(capture.seen, asked) => After(capture.seen, asked)'
  <1>1. \A q \in Parts : capture'.seen[q] = IF q = p THEN ws[p] ELSE capture.seen[q]
    BY DEF Sees, BaselineTypeOK, Seen
  <1> QED
    BY <1>1 DEF Before, After, Known, BaselineTypeOK, Seen, Observed

\* A step of a capture that sees no part anew, or one that does not answer, says
\* nothing new about the folder.
LEMMA SeesNoMore ==
    ASSUME BaselineTypeOK, \A q \in Parts : capture'.seen[q] = capture.seen[q] \/ capture'.seen[q] \notin Nat,
           ws' = ws, at' = at, asked' = asked
    PROVE  /\ Before(capture.seen, ws) => Before(capture.seen, ws)'
           /\ After(capture.seen, at) => After(capture.seen, at)'
           /\ After(capture.seen, asked) => After(capture.seen, asked)'
  BY DEF Before, After, Known, BaselineTypeOK, Seen

\* The invariant holds through every step.
LEMMA InvariantHolds == BaselineSpec => []BaselineIInv
<1>1. BaselineInit => BaselineIInv
  <2> SUFFICES ASSUME BaselineInit PROVE BaselineIInv
    OBVIOUS
  <2>1. BaselineTypeOK
    BY BaselineAssumption DEF BaselineInit, BaselineTypeOK, Begun, Unseen, Seen
  <2>2. Observed
    BY DEF BaselineInit, Observed
  <2>3. Known(Unseen) = {}
    BY BaselineAssumption DEF Known, Unseen
  <2>4. Ordered
    BY <2>3 DEF BaselineInit, Ordered, Before, Begun
  <2> QED
    BY <2>1, <2>2, <2>4 DEF BaselineInit, BaselineIInv, PlannedIsSnapshot, ApprovedIsUnchanged
<1>2. BaselineIInv /\ BaselineTypeOK' /\ [BaselineNext]_baselineVars => BaselineIInv'
  <2> SUFFICES ASSUME BaselineIInv, BaselineTypeOK', [BaselineNext]_baselineVars PROVE BaselineIInv'
    OBVIOUS
  <2> USE DEF BaselineIInv
  <2>0. Known(Unseen) = {}
    BY BaselineAssumption DEF Known, Unseen
  <2>1. CASE Edit
    <3>1. PICK e \in Edits : ws' = [p \in Parts |-> IF p \in e THEN ws[p] + 1 ELSE ws[p]]
      BY <2>1 DEF Edit
    <3>2. \A p \in Parts : ws[p] <= ws'[p]
      BY <3>1 DEF BaselineTypeOK
    <3>3. Observed'
      BY <2>1, <3>2 DEF Edit, Observed, BaselineTypeOK
    <3>4. Ordered'
      BY <2>1, <3>2 DEF Edit, Ordered, Before, After, Known, BaselineTypeOK, Seen
    <3> QED
      BY <2>1, <3>3, <3>4 DEF Edit, PlannedIsSnapshot, ApprovedIsUnchanged, Known
  <2>2. CASE Inside
    <3>1. capture'.seen = capture.seen
      BY <2>2 DEF Inside, BaselineTypeOK
    <3> QED
      BY <2>2, <3>1 DEF Inside, Observed, Ordered, Before, After, Known, PlannedIsSnapshot, ApprovedIsUnchanged
  <2>3. CASE Lists
    <3>1. PICK p \in Parts : capture'.seen = Sees(p, ws[p])
      BY <2>3 DEF Lists, BaselineTypeOK, Unread, FirstReads, Parts, Tracked, Untracked
    <3>2. Ordered'
      BY <2>3, <3>1, SeesNow DEF Lists, Ordered, Before, Known
    <3> QED
      BY <2>3, <3>2 DEF Lists, Observed, PlannedIsSnapshot, ApprovedIsUnchanged, Known
  <2>4. CASE HeadUnanswered
    <3>1. \A q \in Parts : capture'.seen[q] = capture.seen[q] \/ capture'.seen[q] \notin Nat
      BY <2>4, BaselineAssumption DEF HeadUnanswered, Sees, BaselineTypeOK, Seen
    <3>2. Ordered'
      BY <2>4, <3>1, SeesNoMore DEF HeadUnanswered, Ordered, Before, Known
    <3> QED
      BY <2>4, <3>2 DEF HeadUnanswered, Observed, PlannedIsSnapshot, ApprovedIsUnchanged, Known
  <2>5. CASE Stats
    <3>1. /\ "contents" \in Parts
          /\ capture'.seen = Sees("contents", ws["contents"])
      BY <2>5 DEF Stats, BaselineTypeOK, Parts, Tracked, Untracked
    <3>2. Ordered'
      BY <2>5, <3>1, SeesNow DEF Stats, Ordered, Before, Known
    <3> QED
      BY <2>5, <3>2 DEF Stats, Observed, PlannedIsSnapshot, ApprovedIsUnchanged, Known
  <2>6. CASE Contents
    <3>1. Ordered'
      <4>1. CASE ChangedMeanwhile
        BY <2>6, <4>1 DEF Contents, Ordered, PlanRefused, Before, Known
      <4>2. CASE ~ChangedMeanwhile
        <5>1. /\ "contents" \in Parts
              /\ capture'.seen = Sees("contents", ws["contents"])
              /\ phase' = phase
          BY <2>6, <4>2 DEF Contents, BaselineTypeOK, Parts, Tracked, Untracked
        <5> QED
          BY <2>6, <5>1, SeesNow DEF Contents, Ordered, Before, Known
      <4> QED
        BY <4>1, <4>2
    <3>2. phase' \in {phase, "refused", "stale"}
      BY <2>6 DEF Contents, PlanRefused
    <3> QED
      BY <2>6, <3>1, <3>2 DEF Contents, Observed, PlannedIsSnapshot, ApprovedIsUnchanged, Known, At, Capturing
  <2>7. CASE Diffs
    <3>1. PICK p \in Parts : capture'.seen = Sees(p, ws[p])
      BY <2>7 DEF Diffs, BaselineTypeOK, Left, Unread, Parts, Tracked, Untracked
    <3>2. Ordered'
      BY <2>7, <3>1, SeesNow DEF Diffs, Ordered, Before, Known
    <3> QED
      BY <2>7, <3>2 DEF Diffs, Observed, PlannedIsSnapshot, ApprovedIsUnchanged, Known
  <2>8. CASE ListsAgain
    <3>1. capture'.seen = capture.seen
      BY <2>8 DEF ListsAgain, BaselineTypeOK
    <3>2. phase' \in {phase, "refused", "stale"}
      BY <2>8 DEF ListsAgain, PlanRefused
    <3> QED
      BY <2>8, <3>1, <3>2 DEF ListsAgain, Observed, Ordered, Before, After, Known, PlannedIsSnapshot, ApprovedIsUnchanged
  <2>9. CASE Fails
    <3>1. phase' \in {"refused", "stale"}
      BY <2>9 DEF Fails, PlanRefused
    <3> QED
      BY <2>9, <3>1 DEF Fails, Observed, Ordered, Before, After, Known, PlannedIsSnapshot, ApprovedIsUnchanged
  <2>10. CASE FirstEnds
    BY <2>10 DEF FirstEnds, Captured, Observed, Ordered, Before, After, Known, PlannedIsSnapshot, ApprovedIsUnchanged, BaselineTypeOK
  <2>11. CASE ProviderAnswers
    <3>1. Known(capture'.seen) = {}
      BY <2>0, <2>11 DEF ProviderAnswers, Begun
    <3> QED
      BY <2>11, <3>1 DEF ProviderAnswers, Observed, Ordered, Before, After, Known, PlannedIsSnapshot, ApprovedIsUnchanged
  <2>12. CASE FinalEnds
    <3>1. CASE Same
      <4>1. \A p \in Known(baseline) : baseline[p] = at[p]
        BY <2>12, <3>1 DEF FinalEnds, Same, Captured, Ordered, Before, After, Known, BaselineTypeOK, Seen
      <4> QED
        BY <2>12, <3>1, <4>1 DEF FinalEnds, Observed, Ordered, Before, Known, PlannedIsSnapshot, ApprovedIsUnchanged
    <3>2. CASE ~Same
      BY <2>12, <3>2 DEF FinalEnds, Observed, Ordered, Before, Known, PlannedIsSnapshot, ApprovedIsUnchanged
    <3> QED
      BY <3>1, <3>2
  <2>13. CASE AsksForApproval
    <3>1. Known(capture'.seen) = {}
      BY <2>0, <2>13 DEF AsksForApproval, Begun
    <3>2. /\ phase = "planned" /\ phase' = "approval" /\ asked' = ws
          /\ UNCHANGED <<ws, at, baseline>>
      BY <2>13 DEF AsksForApproval
    <3>3. Observed'
      BY <3>2 DEF Observed, BaselineTypeOK
    <3>4. Ordered'
      BY <3>1, <3>2 DEF Ordered, Before, After, Known
    <3> QED
      BY <3>2, <3>3, <3>4 DEF PlannedIsSnapshot, ApprovedIsUnchanged, Known
  <2>14. CASE ApprovalEnds
    <3>1. CASE Same
      <4>1. \A p \in Known(baseline) : baseline[p] = asked[p]
        BY <2>14, <3>1 DEF ApprovalEnds, Same, Captured, Observed, Ordered, PlannedIsSnapshot, After, Known, BaselineTypeOK, Seen
      <4> QED
        BY <2>14, <3>1, <4>1 DEF ApprovalEnds, Observed, Ordered, Before, Known, PlannedIsSnapshot, ApprovedIsUnchanged
    <3>2. CASE ~Same
      BY <2>14, <3>2 DEF ApprovalEnds, Observed, Ordered, Before, Known, PlannedIsSnapshot, ApprovedIsUnchanged
    <3> QED
      BY <3>1, <3>2
  <2>15. CASE UNCHANGED baselineVars
    BY <2>15 DEF baselineVars, Observed, Ordered, Before, After, Known, PlannedIsSnapshot, ApprovedIsUnchanged
  <2> QED
    BY <2>1, <2>2, <2>3, <2>4, <2>5, <2>6, <2>7, <2>8, <2>9, <2>10, <2>11, <2>12, <2>13, <2>14, <2>15 DEF BaselineNext
<1> QED
  BY <1>1, <1>2, TypeCorrect, PTL DEF BaselineSpec

\* A plan's baseline is what the folder was at one moment.
THEOREM BaselineIsSnapshot == BaselineSpec => []PlannedIsSnapshot
<1>1. BaselineIInv => PlannedIsSnapshot
  BY DEF BaselineIInv
<1> QED
  BY <1>1, InvariantHolds, PTL

\* What is approved was planned for the folder as it was when the approval was asked for.
THEOREM ApprovalIsOfTheFolder == BaselineSpec => []ApprovedIsUnchanged
<1>1. BaselineIInv => ApprovedIsUnchanged
  BY DEF BaselineIInv
<1> QED
  BY <1>1, InvariantHolds, PTL
==============================================================================
