--------------------------- MODULE ExecutionRunner ---------------------------
(***************************************************************************)
(* One admitted execution of an approved plan: the durable execution row,  *)
(* the in-process runner that walks the plan's steps, the pause, cancel    *)
(* and resume handlers, and the crash, graceful close and restart of the   *)
(* local server that hosts them.                                           *)
(*                                                                         *)
(* The server is one JavaScript event loop over a synchronous database     *)
(* client, so a step of this module is a stretch of code between two       *)
(* awaits.  While the runner is at the head of its loop (pc = "loop") the  *)
(* event loop is busy: no handler can run there, but the process can die   *)
(* there, because every repository transaction commits on its own.         *)
(***************************************************************************)
EXTENDS Naturals, Sequences

CONSTANTS
    Node,             \* nodeIds of the plan's steps
    None,             \* SQL NULL in current_node_id
    DependsOn,        \* step.dependsOn
    Position,         \* index of the step in plan.steps
    Selected,         \* selectedNodeIds; all of Node when the row holds NULL
    Live,             \* steps whose provider is codex-cli; the others simulate
    Breakpoint,       \* steps with step.breakpoint
    ReviewRequired,   \* steps with reviewPin.required
    SimulatedPlan,    \* plan.provider = 'simulation'
    MaxAttempts,      \* step.budgets.maxAttempts
    MaxEvents         \* bound: no pause, crash or close once the log is this long

ASSUME NodeAssumption ==
    /\ None \notin Node
    /\ DependsOn \in [Node -> SUBSET Node]
    /\ Position \in [Node -> Nat]
    /\ \A m, n \in Node : Position[m] = Position[n] => m = n

\* selectedExecutionNodes closes the request under dependsOn.
ASSUME SelectionAssumption ==
    /\ Selected \subseteq Node
    /\ \A n \in Selected : DependsOn[n] \subseteq Selected

ASSUME ConfigurationAssumption ==
    /\ Live \subseteq Node
    /\ Breakpoint \subseteq Node
    /\ ReviewRequired \subseteq Node
    /\ SimulatedPlan \in BOOLEAN
    /\ MaxAttempts \in Nat \ {0}
    /\ MaxEvents \in Nat

VARIABLES
    \* the executions row and its execution_events
    status, pauseRequested, currentNodeId, completedNodeIds,
    passedBreakpointNodeIds, events,
    \* the server process and the runner's position between awaits
    server, pc, step, attempt, accepted, aborted,
    \* the world outside: the local project and the settings the plan pinned
    drift, fresh, pinsCurrent

row     == <<status, pauseRequested, currentNodeId, completedNodeIds,
             passedBreakpointNodeIds>>
process == <<server, pc, step, attempt, accepted, aborted>>
world   == <<drift, fresh, pinsCurrent>>
vars    == <<row, events, process, world>>

Active   == {"RUNNING", "PAUSE_REQUESTED"}
Terminal == {"FAILED", "COMPLETED", "SUPERSEDED", "CANCELLED"}
Status   == Active \cup Terminal \cup {"PAUSED"}

\* Awaits of runExecution: the workspace check, the simulated delay, the context
\* assembly, the adapter before and after it spawns Codex ("hung" once Codex has
\* exited but a descendant keeps its output open), the check before a retry, the
\* review, the new baseline.
Await == {"verify", "sim", "prepare", "launch", "execute", "hung", "retry",
          "review", "capture"}

EventType ==
    {"node.started", "node.completed", "node.failed", "node.retry",
     "execution.pause_requested", "execution.breakpoint_reached",
     "execution.paused", "execution.resumed", "execution.recovered",
     "execution.completed", "execution.failed", "execution.cancelled",
     "execution.superseded"}
Event == [type : EventType, node : Node \cup {None}]

Record(type, node) == events' = Append(events, [type |-> type, node |-> node])

Closed(nodes) == \A n \in nodes : DependsOn[n] \subseteq nodes

Incomplete == Selected \ completedNodeIds
\* Mutant: the dependencies are not looked at.
ReadyInAnyOrder == Incomplete

Ready      == {n \in Incomplete : DependsOn[n] \subseteq completedNodeIds}
IsNextStep(n) == n \in Ready /\ \A m \in Ready : Position[n] <= Position[m]

RowOK ==
    /\ status \in Status
    /\ pauseRequested \in BOOLEAN
    /\ currentNodeId \in Node \cup {None}
    /\ completedNodeIds \subseteq Node
    /\ passedBreakpointNodeIds \subseteq Breakpoint

ProcessOK ==
    /\ server \in {"up", "closing", "down"}
    /\ pc \in Await \cup {"none", "loop"}
    /\ step \in Node \cup {None}
    /\ attempt \in 1..MaxAttempts
    /\ accepted \in BOOLEAN
    /\ aborted \in BOOLEAN

WorldOK == drift \in BOOLEAN /\ fresh \in BOOLEAN /\ pinsCurrent \in BOOLEAN

LogOK == events \in Seq(Event)

TypeOK == RowOK /\ LogOK /\ ProcessOK /\ WorldOK

(***************************************************************************)
(* Admission.  createExecution inserts the row RUNNING and the route       *)
(* schedules its runner in the same turn.  A successor starts with the     *)
(* checkpoints it reuses, which are closed under dependsOn.                *)
(***************************************************************************)
Init ==
    /\ status = "RUNNING"
    /\ pauseRequested = FALSE
    /\ currentNodeId = None
    /\ completedNodeIds \in {reused \in SUBSET Node : Closed(reused)}
    /\ passedBreakpointNodeIds = {}
    /\ events = <<>>
    /\ server = "up"
    /\ pc = "loop"
    /\ step = None
    /\ attempt = 1
    /\ accepted = FALSE
    /\ aborted = FALSE
    /\ drift = FALSE
    /\ fresh = FALSE
    /\ pinsCurrent = TRUE

------------------------------------------------------------------------------
(***************************************************************************)
(* Repository transactions on the row.                                     *)
(***************************************************************************)

\* Mutant: node.started is recorded again for a replayed node.
StartNodeAgain(n) ==
    /\ currentNodeId' = n
    /\ Record("node.started", n)
    /\ UNCHANGED <<status, pauseRequested, completedNodeIds, passedBreakpointNodeIds>>

\* The node a second startNode names is already current after a restart.
StartNode(n) ==
    /\ currentNodeId' = n
    /\ IF currentNodeId = n THEN UNCHANGED events ELSE Record("node.started", n)
    /\ UNCHANGED <<status, pauseRequested, completedNodeIds, passedBreakpointNodeIds>>

StartConflict(n) ==
    currentNodeId # n /\ (status # "RUNNING" \/ currentNodeId # None)

\* Mutant: the completed node stays in flight.
CompleteNodeStays(n) ==
    /\ completedNodeIds' = completedNodeIds \cup {n}
    /\ Record("node.completed", n)
    /\ UNCHANGED <<status, pauseRequested, currentNodeId, passedBreakpointNodeIds>>

\* A cancelled execution keeps what it had: the late completion is dropped.
CompleteNode(n) ==
    IF status = "CANCELLED"
    THEN UNCHANGED <<row, events>>
    ELSE /\ completedNodeIds' = completedNodeIds \cup {n}
         /\ currentNodeId' = None
         /\ Record("node.completed", n)
         /\ UNCHANGED <<status, pauseRequested, passedBreakpointNodeIds>>

\* Mutant: a late failure overwrites a cancellation.
FailNodeLate(n) ==
    /\ status' = "FAILED"
    /\ currentNodeId' = None
    /\ pauseRequested' = FALSE
    /\ Record("node.failed", n)
    /\ UNCHANGED <<completedNodeIds, passedBreakpointNodeIds>>

FailNode(n) ==
    IF status \in Terminal
    THEN UNCHANGED <<row, events>>
    ELSE /\ status' = "FAILED"
         /\ currentNodeId' = None
         /\ pauseRequested' = FALSE
         /\ events' = events \o <<[type |-> "node.failed", node |-> n],
                                  [type |-> "execution.failed", node |-> n]>>
         /\ UNCHANGED <<completedNodeIds, passedBreakpointNodeIds>>

\* Mutant: the node stays in flight, as a restart finds it.
FailExecutionKeepsNode ==
    IF status \in Terminal
    THEN UNCHANGED <<row, events>>
    ELSE /\ status' = "FAILED"
         /\ Record("execution.failed", None)
         /\ UNCHANGED <<pauseRequested, currentNodeId, completedNodeIds,
                        passedBreakpointNodeIds>>

\* Unlike failNode it leaves pause_requested as it was.
FailExecution ==
    IF status \in Terminal
    THEN UNCHANGED <<row, events>>
    ELSE /\ status' = "FAILED"
         /\ currentNodeId' = None
         /\ Record("execution.failed", None)
         /\ UNCHANGED <<pauseRequested, completedNodeIds, passedBreakpointNodeIds>>

------------------------------------------------------------------------------
(***************************************************************************)
(* The runner at the head of its loop, with the event loop to itself.      *)
(***************************************************************************)
AtHead   == pc = "loop" /\ server = "up"
Pausing  == status = "PAUSE_REQUESTED" \/ pauseRequested
Stepping == AtHead /\ ~Pausing /\ status = "RUNNING"
NeedsBreak(n) == n \in Breakpoint \ passedBreakpointNodeIds

RunnerEnds == /\ pc' = "none"
              /\ step' = None
              /\ aborted' = FALSE
              /\ UNCHANGED <<server, attempt, accepted>>

RunnerAt(await) == pc' = await /\ UNCHANGED <<server, step, attempt, accepted, aborted>>

\* What the catch of scheduleExecution does with an error of the runner.
RunnerThrows ==
    /\ RunnerEnds
    /\ IF server = "closing" THEN UNCHANGED <<row, events>> ELSE FailExecution

\* while (!closed): the server closed while the runner was awaiting.
LoopFindsClosed ==
    /\ pc = "loop" /\ server = "closing"
    /\ RunnerEnds
    /\ UNCHANGED <<row, events, world>>

\* Mutant: a paused row keeps its request.
PauseKeepsRequest ==
    /\ AtHead /\ Pausing
    /\ status' = "PAUSED"
    /\ currentNodeId' = None
    /\ Record("execution.paused", None)
    /\ UNCHANGED <<pauseRequested, completedNodeIds, passedBreakpointNodeIds, world>>
    /\ RunnerEnds

PauseAtCheckpoint ==
    /\ AtHead /\ Pausing
    /\ IF status = "PAUSED"
       THEN UNCHANGED <<row, events>>
       ELSE /\ status' = "PAUSED"
            /\ pauseRequested' = FALSE
            /\ currentNodeId' = None
            /\ Record("execution.paused", None)
            /\ UNCHANGED <<completedNodeIds, passedBreakpointNodeIds>>
    /\ RunnerEnds
    /\ UNCHANGED world

\* Mutant: the loop returns on three of the four terminal states.
LoopMissesCancelled ==
    /\ AtHead /\ ~Pausing /\ status \in Terminal \ {"CANCELLED"}
    /\ RunnerEnds
    /\ UNCHANGED <<row, events, world>>

\* The completion that was just dropped belonged to a cancelled execution.
LoopFindsInactive ==
    /\ AtHead /\ ~Pausing /\ status # "RUNNING"
    /\ RunnerEnds
    /\ UNCHANGED <<row, events, world>>

CompleteExecution ==
    /\ Stepping /\ Incomplete = {}
    /\ IF currentNodeId = None
       THEN /\ status' = "COMPLETED"
            /\ Record("execution.completed", None)
            /\ UNCHANGED <<pauseRequested, currentNodeId, completedNodeIds,
                           passedBreakpointNodeIds>>
       ELSE FailExecution
    /\ RunnerEnds
    /\ UNCHANGED world

\* Mutant: the breakpoint is marked as passed, the pause is not in the transaction.
BreakpointOnlyMarked(n) ==
    /\ Stepping /\ IsNextStep(n) /\ NeedsBreak(n)
    /\ passedBreakpointNodeIds' = passedBreakpointNodeIds \cup {n}
    /\ Record("execution.breakpoint_reached", n)
    /\ UNCHANGED <<status, pauseRequested, currentNodeId, completedNodeIds, process, world>>

\* The transaction requests the pause the next iteration takes.
ReachBreakpoint(n) ==
    /\ Stepping /\ IsNextStep(n) /\ NeedsBreak(n)
    /\ passedBreakpointNodeIds' = passedBreakpointNodeIds \cup {n}
    /\ status' = "PAUSE_REQUESTED"
    /\ pauseRequested' = TRUE
    /\ events' = events \o <<[type |-> "execution.pause_requested", node |-> None],
                             [type |-> "execution.breakpoint_reached", node |-> n]>>
    /\ UNCHANGED <<currentNodeId, completedNodeIds, process, world>>

\* No dependency-ready step, or the settings the plan pinned have moved on.
LoopRejects ==
    /\ Stepping /\ Incomplete # {}
    /\ Ready # {} => ~pinsCurrent /\ \E n \in Ready : IsNextStep(n) /\ ~NeedsBreak(n)
    /\ RunnerThrows
    /\ UNCHANGED world

Admits(n) == Stepping /\ IsNextStep(n) /\ ~NeedsBreak(n) /\ pinsCurrent

\* A live step first waits for the baseline of the local project.
BeginVerify(n) ==
    /\ Admits(n) /\ n \in Live
    /\ step' = n
    /\ pc' = "verify"
    /\ UNCHANGED <<row, events, server, attempt, accepted, aborted, world>>

\* A simulated step starts in the same turn.
StartSimulated(n) ==
    /\ Admits(n) /\ n \notin Live /\ n \notin ReviewRequired
    /\ IF StartConflict(n)
       THEN RunnerThrows
       ELSE /\ StartNode(n)
            /\ step' = n
            /\ pc' = "sim"
            /\ UNCHANGED <<server, attempt, accepted, aborted>>
    /\ UNCHANGED world

\* A simulated result cannot satisfy a required review: started, then failed.
RefuseSimulatedReview(n) ==
    /\ Admits(n) /\ n \notin Live /\ n \in ReviewRequired
    /\ status' = "FAILED"
    /\ currentNodeId' = None
    /\ pauseRequested' = FALSE
    /\ events' = events
                 \o (IF currentNodeId = n THEN <<>> ELSE <<[type |-> "node.started", node |-> n]>>)
                 \o <<[type |-> "node.failed", node |-> n],
                      [type |-> "execution.failed", node |-> n]>>
    /\ UNCHANGED <<completedNodeIds, passedBreakpointNodeIds, world>>
    /\ RunnerEnds

------------------------------------------------------------------------------
(***************************************************************************)
(* The runner resumed from an await.                                       *)
(***************************************************************************)

\* The catch around a live step: a receipt of the failure, unless cancelled.
StepThrows == FailNode(step) /\ RunnerEnds

\* The simulated delay is over.
SimulatedDone ==
    /\ pc = "sim"
    /\ IF server = "closing" \/ status = "CANCELLED"
       THEN RunnerEnds /\ UNCHANGED <<row, events>>
       ELSE CompleteNode(step) /\ RunnerAt("loop")
    /\ UNCHANGED world

\* The local project no longer matches the checkpoint.
VerifyFindsDrift ==
    /\ pc = "verify" /\ drift
    /\ FailExecution
    /\ RunnerEnds
    /\ UNCHANGED world

\* The check passed; startNode reads the row again and may refuse.
VerifyPasses ==
    /\ pc = "verify" /\ ~drift
    /\ ~StartConflict(step)
    /\ StartNode(step)
    /\ RunnerAt("prepare")
    /\ UNCHANGED world

VerifyConflicts ==
    /\ pc = "verify" /\ ~drift
    /\ StartConflict(step)
    /\ RunnerThrows
    /\ UNCHANGED world

\* A pinned skill, agent, dependency receipt or the project changed.
PrepareFails ==
    /\ pc = "prepare"
    /\ StepThrows
    /\ UNCHANGED world

\* Cancelled or closing: the runner leaves the row as it is.
PrepareStops ==
    /\ pc = "prepare"
    /\ aborted \/ server = "closing" \/ status = "CANCELLED"
    /\ RunnerEnds
    /\ UNCHANGED <<row, events, world>>

InvokeAdapter ==
    /\ pc = "prepare"
    /\ ~aborted /\ server = "up" /\ status # "CANCELLED"
    /\ pc' = "launch"
    /\ attempt' = 1
    /\ UNCHANGED <<row, events, server, step, accepted, aborted, world>>

\* The signal is read before the spawn, and by waitForProcess right after it.
SpawnCodex ==
    /\ pc = "launch"
    /\ ~aborted
    /\ RunnerAt("execute")
    /\ UNCHANGED <<row, events, world>>

\* Codex exited, so stop() has nothing to signal, but "close" has not fired.
CodexHangs ==
    /\ pc = "execute"
    /\ RunnerAt("hung")
    /\ UNCHANGED <<row, events, world>>

CodexReleased ==
    /\ pc = "hung"
    /\ RunnerAt("execute")
    /\ UNCHANGED <<row, events, world>>

\* The adapter returns a receipt that does or does not satisfy the criteria.
AdapterReturns(verdict) ==
    /\ pc = "execute"
    /\ IF status = "CANCELLED"
       THEN RunnerEnds
       ELSE /\ pc' = "review"
            /\ accepted' = verdict
            /\ UNCHANGED <<server, step, attempt, aborted>>
    /\ UNCHANGED <<row, events, world>>

\* Timeout, abort, bad receipt, non-zero exit, with no attempt left.
AdapterFails ==
    /\ pc \in {"launch", "execute"}
    /\ aborted \/ attempt = MaxAttempts
    /\ StepThrows
    /\ UNCHANGED world

\* Mutant: one attempt too many.
AdapterRetriesOnceMore ==
    /\ pc \in {"launch", "execute"}
    /\ ~aborted /\ attempt <= MaxAttempts
    /\ RunnerAt("retry")
    /\ UNCHANGED <<row, events, world>>

AdapterRetries ==
    /\ pc \in {"launch", "execute"}
    /\ ~aborted /\ attempt < MaxAttempts
    /\ RunnerAt("retry")
    /\ UNCHANGED <<row, events, world>>

RetryFindsDrift ==
    /\ pc = "retry" /\ drift
    /\ StepThrows
    /\ UNCHANGED world

\* node.retry is emitted without looking at the row again.
RetryProceeds ==
    /\ pc = "retry" /\ ~drift
    /\ Record("node.retry", step)
    /\ pc' = "launch"
    /\ attempt' = attempt + 1
    /\ UNCHANGED <<row, server, step, accepted, aborted, world>>

\* The manifest a required review is held against cannot be captured.
ReviewThrows ==
    /\ pc = "review" /\ accepted /\ step \in ReviewRequired
    /\ StepThrows
    /\ UNCHANGED world

ReviewStops ==
    /\ pc = "review"
    /\ aborted \/ server = "closing" \/ status = "CANCELLED"
    /\ RunnerEnds
    /\ UNCHANGED <<row, events, world>>

ReviewRefuses ==
    /\ pc = "review"
    /\ ~aborted /\ server = "up" /\ status # "CANCELLED"
    /\ ~accepted \/ step \in ReviewRequired
    /\ StepThrows
    /\ UNCHANGED world

ReviewAccepts ==
    /\ pc = "review"
    /\ ~aborted /\ server = "up" /\ status # "CANCELLED"
    /\ accepted
    /\ RunnerAt("capture")
    /\ fresh' = TRUE
    /\ UNCHANGED <<row, events, drift, pinsCurrent>>

CaptureFails ==
    /\ pc = "capture"
    /\ StepThrows
    /\ UNCHANGED world

\* The new baseline may miss an edit made after it was captured.
CaptureCompletes ==
    /\ pc = "capture"
    /\ CompleteNode(step)
    /\ RunnerAt("loop")
    /\ drift' \in IF status = "CANCELLED" THEN {drift} ELSE {FALSE, ~fresh}
    /\ fresh' = FALSE
    /\ UNCHANGED pinsCurrent

------------------------------------------------------------------------------
(***************************************************************************)
(* Request handlers.  Each one reads the row, writes it and answers in one *)
(* turn of the event loop, so never while the runner is at its loop head.  *)
(* A closing server still serves the requests it had accepted.             *)
(***************************************************************************)
Serving   == server # "down" /\ pc # "loop"
WithinLog == Len(events) < MaxEvents

RequestPause ==
    /\ Serving /\ WithinLog
    /\ status = "RUNNING"
    /\ status' = "PAUSE_REQUESTED"
    /\ pauseRequested' = TRUE
    /\ Record("execution.pause_requested", None)
    /\ UNCHANGED <<currentNodeId, completedNodeIds, passedBreakpointNodeIds,
                   process, world>>

\* Mutants: a cancel that leaves the pause requested, or the runner unaware.
CancelKeepsRequest ==
    /\ Serving
    /\ status \in Active \cup {"PAUSED"}
    /\ status' = "CANCELLED"
    /\ currentNodeId' = None
    /\ Record("execution.cancelled", currentNodeId)
    /\ aborted' = (pc # "none")
    /\ UNCHANGED <<pauseRequested, completedNodeIds, passedBreakpointNodeIds, server, pc,
                   step, attempt, accepted, world>>

CancelWithoutAbort ==
    /\ Serving
    /\ status \in Active \cup {"PAUSED"}
    /\ status' = "CANCELLED"
    /\ currentNodeId' = None
    /\ pauseRequested' = FALSE
    /\ Record("execution.cancelled", currentNodeId)
    /\ UNCHANGED <<completedNodeIds, passedBreakpointNodeIds, process, world>>

CancelExecution ==
    /\ Serving
    /\ status \in Active \cup {"PAUSED"}
    /\ status' = "CANCELLED"
    /\ currentNodeId' = None
    /\ pauseRequested' = FALSE
    /\ Record("execution.cancelled", currentNodeId)
    /\ aborted' = (pc # "none")
    /\ UNCHANGED <<completedNodeIds, passedBreakpointNodeIds, server, pc, step,
                   attempt, accepted, world>>

\* Mutant: the row is RUNNING again and nobody runs it.
ResumeWithoutRunner ==
    /\ Serving /\ WithinLog
    /\ status = "PAUSED"
    /\ status' = "RUNNING"
    /\ pauseRequested' = FALSE
    /\ Record("execution.resumed", None)
    /\ UNCHANGED <<currentNodeId, completedNodeIds, passedBreakpointNodeIds, process, world>>

\* scheduleExecution returns early when the server is closing or when a runner
\* for this execution has not been taken off its list yet.
ResumePinned ==
    /\ Serving /\ WithinLog
    /\ status = "PAUSED"
    /\ status' = "RUNNING"
    /\ pauseRequested' = FALSE
    /\ Record("execution.resumed", None)
    /\ pc' = IF server = "up" /\ pc = "none" THEN "loop" ELSE pc
    /\ UNCHANGED <<currentNodeId, completedNodeIds, passedBreakpointNodeIds,
                   server, step, attempt, accepted, aborted, world>>

\* An approved replan took over; the successor is an execution of its own.
SupersedeWithSuccessor ==
    /\ Serving
    /\ status = "PAUSED"
    /\ status' = "SUPERSEDED"
    /\ Record("execution.superseded", None)
    /\ UNCHANGED <<pauseRequested, currentNodeId, completedNodeIds,
                   passedBreakpointNodeIds, process, world>>

\* Engineering settings or a review configuration are edited.
PinsChange ==
    /\ Serving /\ pinsCurrent
    /\ pinsCurrent' = FALSE
    /\ UNCHANGED <<row, events, process, drift, fresh>>

\* Anyone, Codex included and a Codex that outlived its server too.
WorkspaceEdited ==
    /\ ~drift \/ fresh
    /\ drift' = TRUE
    /\ fresh' = FALSE
    /\ UNCHANGED <<row, events, process, pinsCurrent>>

------------------------------------------------------------------------------
(***************************************************************************)
(* The life of the server process.                                         *)
(***************************************************************************)

\* close(): no new runner; the running one is told to abort.
Close ==
    /\ server = "up" /\ pc # "loop" /\ WithinLog
    /\ server' = "closing"
    /\ aborted' = (pc # "none")
    /\ UNCHANGED <<row, events, pc, step, attempt, accepted, world>>

\* It waits for the runner before it closes the repository.
CloseEnds ==
    /\ server = "closing" /\ pc = "none"
    /\ server' = "down"
    /\ UNCHANGED <<row, events, pc, step, attempt, accepted, aborted, world>>

\* What is not in the row is lost, wherever the runner was.
Crash ==
    /\ server # "down" /\ WithinLog
    /\ server' = "down"
    /\ pc' = "none"
    /\ step' = None
    /\ aborted' = FALSE
    /\ UNCHANGED <<row, events, attempt, accepted, world>>

\* Mutant: only a RUNNING row counts as interrupted.
InterruptedWhileRunning ==
    ~SimulatedPlan /\ currentNodeId # None /\ status = "RUNNING"

Interrupted == ~SimulatedPlan /\ currentNodeId # None

\* Mutant: only RUNNING rows are recovered.
RestartRunningOnly ==
    /\ server = "down"
    /\ server' = "up"
    /\ IF status = "RUNNING" /\ ~Interrupted
       THEN Record("execution.recovered", None) /\ pc' = "loop" /\ UNCHANGED row
       ELSE UNCHANGED <<row, events, pc>>
    /\ UNCHANGED <<step, attempt, accepted, aborted, world>>

\* start(): every row still RUNNING or PAUSE_REQUESTED is recovered.
Restart ==
    /\ server = "down"
    /\ server' = "up"
    /\ IF status \notin Active
       THEN UNCHANGED <<row, events, pc>>
       ELSE IF Interrupted
       THEN FailExecution /\ UNCHANGED pc
       ELSE Record("execution.recovered", None) /\ pc' = "loop" /\ UNCHANGED row
    /\ UNCHANGED <<step, attempt, accepted, aborted, world>>

------------------------------------------------------------------------------
AtLoopHead ==
    \/ LoopFindsClosed
    \/ PauseAtCheckpoint
    \/ LoopFindsInactive
    \/ CompleteExecution
    \/ LoopRejects
    \/ \E n \in Node : \/ ReachBreakpoint(n)
                       \/ BeginVerify(n)
                       \/ StartSimulated(n)
                       \/ RefuseSimulatedReview(n)

Resumes ==
    \/ SimulatedDone
    \/ VerifyFindsDrift \/ VerifyPasses \/ VerifyConflicts
    \/ PrepareFails \/ PrepareStops
    \/ InvokeAdapter \/ SpawnCodex
    \/ \E verdict \in BOOLEAN : AdapterReturns(verdict)
    \/ AdapterFails \/ AdapterRetries
    \/ RetryFindsDrift \/ RetryProceeds
    \/ ReviewThrows \/ ReviewStops \/ ReviewRefuses \/ ReviewAccepts
    \/ CaptureFails \/ CaptureCompletes

Runner == AtLoopHead \/ Resumes

Handlers ==
    \/ RequestPause \/ CancelExecution \/ ResumePinned \/ SupersedeWithSuccessor

Environment ==
    \/ CodexHangs \/ CodexReleased
    \/ PinsChange \/ WorkspaceEdited
    \/ Close \/ CloseEnds \/ Crash \/ Restart

Next == Runner \/ Handlers \/ Environment

Spec == Init /\ [][Next]_vars

\* Timers fire, git and review calls are bounded, Codex is killed at its timeout:
\* every await ends, but for a Codex whose descendants keep its output open.
FairSpec == Spec /\ WF_vars(Runner)


------------------------------------------------------------------------------
(***************************************************************************)
(* Safety.                                                                 *)
(***************************************************************************)

\* The node the row calls current belongs to an execution that is active, was
\* selected, has not been completed before, and has all its dependencies done.
InFlight ==
    currentNodeId # None =>
        /\ status \in Active
        /\ currentNodeId \in Incomplete
        /\ DependsOn[currentNodeId] \subseteq completedNodeIds

\* Checkpoints are closed under dependsOn, across pause, crash, replay, cancel.
CheckpointClosed == Closed(completedNodeIds)

\* An execution is COMPLETED only when every selected step has its checkpoint
\* and no step is in flight.
CompletedMeansDone ==
    status = "COMPLETED" => Selected \subseteq completedNodeIds /\ currentNodeId = None

\* A requested pause survives in the row until it is taken; failExecution may
\* leave the flag behind, but no runner looks at that row again.
PauseFlag ==
    /\ status = "PAUSE_REQUESTED" => pauseRequested
    /\ pauseRequested => \/ status = "PAUSE_REQUESTED"
                         \/ status = "FAILED" /\ pc = "none"

\* No lost wake-up: while the server is up an active row always has its runner,
\* and a row at rest (only a cancelled one excepted) has none.
RunnerPerExecution ==
    /\ server = "up" /\ status \in Active => pc # "none"
    /\ status \in {"PAUSED", "FAILED", "COMPLETED", "SUPERSEDED"} => pc = "none"

\* Codex runs only for the node the active row has in flight, from the moment it
\* is spawned until the execution is cancelled or the server closes.
CodexIsAdmitted ==
    pc \in {"execute", "hung"} /\ ~aborted =>
        status \in Active /\ currentNodeId = step /\ step \in Live

\* node.started of a breakpoint node follows its breakpoint and then a resume:
\* neither a crash nor a restart lets the runner walk past it.
BreakpointPausesFirst ==
    \A i \in 1..Len(events) :
        events[i].type = "node.started" /\ events[i].node \in Breakpoint =>
            \E j, k \in 1..(i - 1) :
                /\ j < k
                /\ events[j] = [type |-> "execution.breakpoint_reached",
                                node |-> events[i].node]
                /\ events[k].type = "execution.resumed"

\* A replay after a restart "does not duplicate its durable node.started event":
\* a node starts again only once a pause has given it up in between.
StartedOnce ==
    \A i, k \in 1..Len(events) :
        i < k /\ events[i].type = "node.started" /\ events[k] = events[i] =>
            \E j \in i..k : events[j].type = "execution.paused"

(***************************************************************************)
(* Steps that must not happen.                                             *)
(***************************************************************************)

\* A terminal row never changes again, whoever still holds the execution: a late
\* completion, a second failure, a pause left pending, a restart.
TerminalIsFinal == [][(status \in Terminal) => UNCHANGED row]_vars

\* "An interrupted in-flight Codex workspace step is failed on server restart
\* because no durable receipt proves its outcome."
InterruptedLiveNodeFailsClosed ==
    [][server = "down" /\ server' = "up" /\ currentNodeId \in Live
          => status' = "FAILED"]_vars

\* "It does not terminate an in-flight Codex process; the request is observed
\* between nodes": with no node in flight and the project as the checkpoint has
\* it, a requested pause never fails the execution.
PauseNeverFails ==
    [][status = "PAUSE_REQUESTED" /\ currentNodeId = None /\ ~drift
          => status' # "FAILED"]_vars

(***************************************************************************)
(* Progress.                                                               *)
(***************************************************************************)

\* An active execution comes to rest unless its server stops or Codex hangs: a
\* pause is taken, a cancel, a failure or the completion is reached.
EveryRunSettles ==
    status \in Active ~> status \notin Active \/ server # "up" \/ pc = "hung"

\* After a cancel the runner lets go of the execution.
CancelEndsRunner == status = "CANCELLED" ~> pc \in {"none", "hung"}

------------------------------------------------------------------------------
(***************************************************************************)
(* What the execution promises, and how the row shows it.                  *)
(***************************************************************************)
Phase == IF status \in Active THEN "active" ELSE status

Lifecycle == INSTANCE ExecutionLifecycle
             WITH phase <- Phase, done <- completedNodeIds, working <- currentNodeId

\* The row, through pauses, crashes, restarts and late results, only ever moves
\* as an execution may: every step is a step of its lifecycle or leaves it alone.
ImplementsLifecycle == Lifecycle!Spec

(***************************************************************************)
(* The inductive invariant behind the properties above: what the row alone *)
(* keeps, and where the row and the runner stand together.                 *)
(***************************************************************************)

\* A node left in flight is still the first ready one when a restart replays it.
NodeInFlight ==
    currentNodeId # None => status \in Active /\ IsNextStep(currentNodeId)

RowInv == CheckpointClosed /\ CompletedMeansDone /\ NodeInFlight

\* What the step the runner holds was chosen for still holds after an await.
HeldStep ==
    /\ pc \in Await => IsNextStep(step) /\ (pc # "sim" => step \in Live)
    /\ pc = "retry" => attempt < MaxAttempts

\* From startNode to its completion the row names the runner's step.
RowNamesStep ==
    status \in Active =>
        /\ pc \in Await \ {"verify"} => currentNodeId = step
        /\ pc = "verify" => currentNodeId \in {None, step}

\* A signal is aborted only under a runner, and just by a cancel or a close.
AbortReaches ==
    /\ aborted => pc # "none" /\ (status = "CANCELLED" \/ server = "closing")
    /\ pc \in Await /\ (status \notin Active \/ server # "up") => aborted
    /\ pc # "none" => server # "down"

RunnerInv ==
    PauseFlag /\ HeldStep /\ RowNamesStep /\ AbortReaches /\ RunnerPerExecution

\* A node that was started is in flight or done, or else a pause gave it up since
\* or the execution is over: what StartNode may record next is not in the log.
StartedIsAccounted ==
    \A i \in 1..Len(events) : events[i].type = "node.started" =>
        \/ status \in Terminal
        \/ currentNodeId # None /\ events[i].node = currentNodeId
        \/ events[i].node \in completedNodeIds
        \/ \E j \in (i + 1)..Len(events) : events[j].type = "execution.paused"

\* A breakpoint the row calls passed was reached, and was resumed from if the row
\* is RUNNING; the runner holds no step whose breakpoint has not been passed.
PassedIsLogged ==
    \A n \in passedBreakpointNodeIds : \E j \in 1..Len(events) :
        /\ events[j] = [type |-> "execution.breakpoint_reached", node |-> n]
        /\ status = "RUNNING" =>
              \E k \in (j + 1)..Len(events) : events[k].type = "execution.resumed"

HeldIsPassed == pc \in Await => ~NeedsBreak(step)

LogInv == StartedIsAccounted /\ PassedIsLogged /\ HeldIsPassed

StateInv == TypeOK /\ RowInv /\ RunnerInv

IInv == StateInv /\ LogInv /\ StartedOnce /\ BreakpointPausesFirst
==============================================================================
