------------------------ MODULE ExecutionRunnerProofs ------------------------
(***************************************************************************)
(* Proofs about ExecutionRunner, for every plan, selection and             *)
(* configuration its assumptions allow and for a log of any length.        *)
(*                                                                         *)
(* The argument is the inductive invariant StateInv.  RowInv speaks of the *)
(* durable row alone, so it is shown once for each repository transaction; *)
(* RunnerInv ties the row to the runner's position, so it is shown action  *)
(* by action.  LogInv follows from what a step may append to the log.      *)
(*                                                                         *)
(* At the end the engine that closes over its runners: EngineIInv is       *)
(* inductive because close() tells every runner in the turn in which it    *)
(* begins, and waits for those it found.                                   *)
(***************************************************************************)
EXTENDS ExecutionRunner, EngineShutdown, TLAPS

RowPart == RowOK /\ LogOK /\ RowInv

------------------------------------------------------------------------------
(***************************************************************************)
(* The log and the transactions on the row.                                *)
(***************************************************************************)

\* appendEvent keeps the log a sequence of events.
LEMMA RecordKeepsLog ==
    ASSUME LogOK, NEW type \in EventType, NEW n \in Node \cup {None}, Record(type, n)
    PROVE  LogOK'
<1>1. [type |-> type, node |-> n] \in Event
  BY DEF Event
<1>2. QED
  BY <1>1 DEF LogOK, Record

\* So does a transaction that appends two.
LEMMA TwoEventsKeepLog ==
    ASSUME LogOK, NEW first \in Event, NEW second \in Event,
           events' = events \o <<first, second>>
    PROVE  LogOK'
  BY DEF LogOK

\* A transaction that leaves the checkpoints alone keeps RowInv when it gives up
\* the node in flight or stays active, and completes only what is done.
LEMMA CheckpointsKept ==
    ASSUME RowOK, RowInv,
           completedNodeIds' = completedNodeIds,
           \/ currentNodeId' = None
           \/ currentNodeId' = currentNodeId /\ status' \in Active,
           status' = "COMPLETED" => currentNodeId' = None /\ Incomplete = {}
    PROVE  RowInv'
<1>1. CheckpointClosed'
  BY DEF RowInv, CheckpointClosed, Closed
<1>2. CompletedMeansDone'
  BY DEF CompletedMeansDone, Incomplete
<1>3. NodeInFlight'
  BY DEF RowInv, NodeInFlight, IsNextStep, Ready, Incomplete
<1>4. QED
  BY <1>1, <1>2, <1>3 DEF RowInv

LEMMA RowUnchanged ==
    ASSUME RowPart, UNCHANGED <<row, events>>
    PROVE  RowPart'
  BY DEF RowPart, RowOK, LogOK, RowInv, CheckpointClosed, Closed, CompletedMeansDone,
         NodeInFlight, IsNextStep, Ready, Incomplete, row

LEMMA OnlyLogged ==
    ASSUME RowPart, UNCHANGED row,
           NEW type \in EventType, NEW n \in Node \cup {None}, Record(type, n)
    PROVE  RowPart'
<1>1. LogOK'
  BY RecordKeepsLog DEF RowPart
<1>2. RowOK' /\ RowInv'
  BY DEF RowPart, RowOK, RowInv, CheckpointClosed, Closed, CompletedMeansDone,
         NodeInFlight, IsNextStep, Ready, Incomplete, row
<1>3. QED
  BY <1>1, <1>2 DEF RowPart

\* startNode puts the first ready step in flight.
LEMMA StartNodeKeepsRow ==
    ASSUME RowPart, NEW n \in Node, IsNextStep(n), ~StartConflict(n), StartNode(n),
           currentNodeId = n => status \in Active
    PROVE  RowPart'
<1>1. LogOK'
  <2>1. CASE currentNodeId = n
    BY <2>1 DEF RowPart, StartNode, LogOK
  <2>2. CASE currentNodeId # n
    BY <2>2, RecordKeepsLog DEF RowPart, StartNode, EventType
  <2>3. QED
    BY <2>1, <2>2
<1>2. RowOK'
  BY DEF RowPart, RowOK, StartNode
<1>3. CheckpointClosed' /\ CompletedMeansDone'
  BY DEF RowPart, RowInv, CheckpointClosed, Closed, CompletedMeansDone, StartNode,
         StartConflict, Active
<1>4. NodeInFlight'
  BY DEF NodeInFlight, IsNextStep, Ready, Incomplete, StartNode, StartConflict, Active
<1>5. QED
  BY <1>1, <1>2, <1>3, <1>4 DEF RowPart, RowInv

\* completeNode adds the node in flight to the checkpoints: its dependencies are
\* there already.
LEMMA CompleteNodeKeepsRow ==
    ASSUME RowPart, NEW n \in Node, IsNextStep(n), CompleteNode(n),
           status # "CANCELLED" => status \in Active
    PROVE  RowPart'
<1>1. CASE status = "CANCELLED"
  BY <1>1, RowUnchanged DEF CompleteNode
<1>2. CASE status # "CANCELLED"
  <2>1. LogOK'
    BY <1>2, RecordKeepsLog DEF RowPart, CompleteNode, EventType
  <2>2. RowOK'
    BY <1>2 DEF RowPart, RowOK, CompleteNode
  <2>3. CheckpointClosed'
    BY <1>2, NodeAssumption
    DEF RowPart, RowInv, CheckpointClosed, Closed, CompleteNode, IsNextStep, Ready
  <2>4. CompletedMeansDone' /\ NodeInFlight'
    BY <1>2 DEF CompletedMeansDone, NodeInFlight, CompleteNode, Active
  <2>5. QED
    BY <2>1, <2>2, <2>3, <2>4 DEF RowPart, RowInv
<1>3. QED
  BY <1>1, <1>2

LEMMA FailNodeKeepsRow ==
    ASSUME RowPart, NEW n \in Node, FailNode(n)
    PROVE  RowPart'
<1>1. CASE status \in Terminal
  BY <1>1, RowUnchanged DEF FailNode
<1>2. CASE status \notin Terminal
  <2>1. /\ [type |-> "node.failed", node |-> n] \in Event
        /\ [type |-> "execution.failed", node |-> n] \in Event
    BY DEF Event, EventType
  <2>2. LogOK'
    BY <1>2, <2>1, TwoEventsKeepLog DEF RowPart, FailNode
  <2>3. RowOK'
    BY <1>2 DEF RowPart, RowOK, FailNode, Status, Terminal
  <2>4. RowInv'
    BY <1>2, CheckpointsKept DEF RowPart, FailNode
  <2>5. QED
    BY <2>2, <2>3, <2>4 DEF RowPart
<1>3. QED
  BY <1>1, <1>2

LEMMA FailExecutionKeepsRow ==
    ASSUME RowPart, FailExecution
    PROVE  RowPart'
<1>1. CASE status \in Terminal
  BY <1>1, RowUnchanged DEF FailExecution
<1>2. CASE status \notin Terminal
  <2>1. LogOK'
    BY <1>2, RecordKeepsLog DEF RowPart, FailExecution, EventType
  <2>2. RowOK'
    BY <1>2 DEF RowPart, RowOK, FailExecution, Status, Terminal
  <2>3. RowInv'
    BY <1>2, CheckpointsKept DEF RowPart, FailExecution
  <2>4. QED
    BY <2>1, <2>2, <2>3 DEF RowPart
<1>3. QED
  BY <1>1, <1>2

\* The catch of scheduleExecution fails the row unless the server is closing.
LEMMA ThrowKeepsRow ==
    ASSUME RowPart, RunnerThrows
    PROVE  RowPart'
  BY RowUnchanged, FailExecutionKeepsRow DEF RunnerThrows

\* The catch around a live step fails the node that step names.
LEMMA StepThrowKeepsRow ==
    ASSUME RowPart, HeldStep, pc \in Await, StepThrows
    PROVE  RowPart'
<1>1. step \in Node
  BY SelectionAssumption DEF HeldStep, IsNextStep, Ready, Incomplete
<1>2. QED
  BY <1>1, FailNodeKeepsRow DEF StepThrows

------------------------------------------------------------------------------
(***************************************************************************)
(* One step per action: the row, the types of the rest, and how the runner *)
(* and the row stand.                                                      *)
(***************************************************************************)

\* At its loop head the runner starts, refuses, pauses or ends.
LEMMA LoopHeadStep ==
    ASSUME StateInv, AtLoopHead
    PROVE  StateInv'
<1>0. RowPart
  BY DEF StateInv, TypeOK, RowPart
<1> USE NodeAssumption, SelectionAssumption, ConfigurationAssumption
    DEF StateInv, TypeOK, RowOK, ProcessOK, WorldOK, RowInv, NodeInFlight, RunnerInv,
        PauseFlag, HeldStep, RowNamesStep, AbortReaches, RunnerPerExecution,
        IsNextStep, Ready, Incomplete, Await, Active, Status, Terminal
<1>1. CASE LoopFindsClosed
  <2>1. RowPart'
    BY <1>0, <1>1, RowUnchanged DEF LoopFindsClosed
  <2>2. ProcessOK' /\ WorldOK' /\ HeldStep'
    BY <1>1 DEF LoopFindsClosed, RunnerEnds, row, world
  <2>3. PauseFlag' /\ RowNamesStep' /\ AbortReaches' /\ RunnerPerExecution'
    BY <1>1 DEF LoopFindsClosed, RunnerEnds, row, world
  <2>4. QED
    BY <2>1, <2>2, <2>3 DEF RowPart
<1>2. CASE PauseAtCheckpoint
  <2>1. RowPart'
    <3>1. LogOK'
      BY <1>0, <1>2, RecordKeepsLog DEF PauseAtCheckpoint, RowPart, EventType, LogOK
    <3>2. RowOK'
      BY <1>0, <1>2 DEF RowPart, PauseAtCheckpoint, AtHead, Pausing, row, RunnerEnds
    <3>3. RowInv'
      BY <1>0, <1>2, CheckpointsKept DEF RowPart, PauseAtCheckpoint, AtHead,
         Pausing, row, RunnerEnds
    <3>4. QED
      BY <3>1, <3>2, <3>3 DEF RowPart
  <2>2. ProcessOK' /\ WorldOK' /\ HeldStep'
    BY <1>2 DEF PauseAtCheckpoint, AtHead, Pausing, row, RunnerEnds, world
  <2>3. PauseFlag' /\ RowNamesStep' /\ AbortReaches' /\ RunnerPerExecution'
    BY <1>2 DEF PauseAtCheckpoint, AtHead, Pausing, row, RunnerEnds, world
  <2>4. QED
    BY <2>1, <2>2, <2>3 DEF RowPart
<1>3. CASE LoopFindsInactive
  <2>1. RowPart'
    BY <1>0, <1>3, RowUnchanged DEF LoopFindsInactive
  <2>2. ProcessOK' /\ WorldOK' /\ HeldStep'
    BY <1>3 DEF LoopFindsInactive, AtHead, Pausing, RunnerEnds, row, world
  <2>3. PauseFlag' /\ RowNamesStep' /\ AbortReaches' /\ RunnerPerExecution'
    BY <1>3 DEF LoopFindsInactive, AtHead, Pausing, RunnerEnds, row, world
  <2>4. QED
    BY <2>1, <2>2, <2>3 DEF RowPart
<1>4. CASE CompleteExecution
  <2>1. RowPart'
    <3>0. CASE currentNodeId # None
      BY <3>0, <1>0, <1>4, FailExecutionKeepsRow DEF CompleteExecution
    <3> SUFFICES ASSUME currentNodeId = None PROVE RowPart'
      BY <3>0
    <3>1. LogOK'
      BY <1>0, <1>4, RecordKeepsLog DEF CompleteExecution, RowPart, EventType
    <3>2. RowOK'
      BY <1>0, <1>4 DEF RowPart, CompleteExecution, Stepping, FailExecution,
         RunnerEnds, AtHead, Pausing, row
    <3>3. RowInv'
      BY <1>0, <1>4, CheckpointsKept DEF RowPart, CompleteExecution, Stepping,
         FailExecution, RunnerEnds, AtHead, Pausing, row
    <3>4. QED
      BY <3>1, <3>2, <3>3 DEF RowPart
  <2>2. ProcessOK' /\ WorldOK' /\ HeldStep'
    BY <1>4 DEF CompleteExecution, Stepping, FailExecution, RunnerEnds, world,
       AtHead, Pausing, row
  <2>3. PauseFlag' /\ RowNamesStep' /\ AbortReaches' /\ RunnerPerExecution'
    BY <1>4 DEF CompleteExecution, Stepping, FailExecution, RunnerEnds, world,
       AtHead, Pausing, row
  <2>4. QED
    BY <2>1, <2>2, <2>3 DEF RowPart
<1>5. CASE LoopRejects
  <2>1. RowPart'
    BY <1>0, <1>5, ThrowKeepsRow DEF LoopRejects
  <2>2. ProcessOK' /\ WorldOK' /\ HeldStep'
    BY <1>5 DEF LoopRejects, Stepping, NeedsBreak, RunnerThrows, world, AtHead,
       Pausing, RunnerEnds, row, FailExecution
  <2>3. PauseFlag' /\ RowNamesStep' /\ AbortReaches' /\ RunnerPerExecution'
    BY <1>5 DEF LoopRejects, Stepping, NeedsBreak, RunnerThrows, world, AtHead,
       Pausing, RunnerEnds, row, FailExecution
  <2>4. QED
    BY <2>1, <2>2, <2>3 DEF RowPart
<1>6. ASSUME NEW n \in Node, ReachBreakpoint(n) PROVE StateInv'
  <2>1. RowPart'
    <3>0. /\ [type |-> "execution.pause_requested", node |-> None] \in Event
          /\ [type |-> "execution.breakpoint_reached", node |-> n] \in Event
      BY DEF Event, EventType
    <3>1. LogOK'
      BY <3>0, <1>0, <1>6, TwoEventsKeepLog DEF ReachBreakpoint, RowPart
    <3>2. RowOK'
      BY <1>0, <1>6 DEF RowPart, ReachBreakpoint, Stepping, NeedsBreak, AtHead,
         Pausing
    <3>3. RowInv'
      BY <1>0, <1>6, CheckpointsKept DEF RowPart, ReachBreakpoint, Stepping,
         NeedsBreak, AtHead, Pausing
    <3>4. QED
      BY <3>1, <3>2, <3>3 DEF RowPart
  <2>2. ProcessOK' /\ WorldOK' /\ HeldStep'
    BY <1>6 DEF ReachBreakpoint, Stepping, NeedsBreak, process, world, AtHead,
       Pausing
  <2>3. PauseFlag' /\ RowNamesStep' /\ AbortReaches' /\ RunnerPerExecution'
    BY <1>6 DEF ReachBreakpoint, Stepping, NeedsBreak, process, world, AtHead,
       Pausing
  <2>4. QED
    BY <2>1, <2>2, <2>3 DEF RowPart
<1>7. ASSUME NEW n \in Node, BeginVerify(n) PROVE StateInv'
  <2>1. RowPart'
    BY <1>0, <1>7, RowUnchanged DEF BeginVerify
  <2>2. ProcessOK' /\ WorldOK' /\ HeldStep'
    BY <1>7 DEF BeginVerify, Admits, row, world, Stepping, NeedsBreak, AtHead,
       Pausing
  <2>3. PauseFlag' /\ RowNamesStep' /\ AbortReaches' /\ RunnerPerExecution'
    BY <1>7 DEF BeginVerify, Admits, row, world, Stepping, NeedsBreak, AtHead,
       Pausing
  <2>4. QED
    BY <2>1, <2>2, <2>3 DEF RowPart
<1>8. ASSUME NEW n \in Node, StartSimulated(n) PROVE StateInv'
  <2>1. RowPart'
    BY <1>0, <1>8, ThrowKeepsRow, StartNodeKeepsRow DEF StartSimulated, Admits,
       Stepping
  <2>2. ProcessOK' /\ WorldOK' /\ HeldStep'
    BY <1>8 DEF StartSimulated, Admits, StartConflict, RunnerThrows, StartNode,
       world, Stepping, NeedsBreak, RunnerEnds, row, FailExecution, AtHead, Pausing
  <2>3. PauseFlag' /\ RowNamesStep' /\ AbortReaches' /\ RunnerPerExecution'
    BY <1>8 DEF StartSimulated, Admits, StartConflict, RunnerThrows, StartNode,
       world, Stepping, NeedsBreak, RunnerEnds, row, FailExecution, AtHead, Pausing
  <2>4. QED
    BY <2>1, <2>2, <2>3 DEF RowPart
<1>9. ASSUME NEW n \in Node, RefuseSimulatedReview(n) PROVE StateInv'
  <2>1. RowPart'
    <3>0. /\ [type |-> "node.started", node |-> n] \in Event
          /\ [type |-> "node.failed", node |-> n] \in Event
          /\ [type |-> "execution.failed", node |-> n] \in Event
      BY DEF Event, EventType
    <3>1. LogOK'
      BY <3>0, <1>0, <1>9 DEF RefuseSimulatedReview, RowPart, LogOK
    <3>2. RowOK'
      BY <1>0, <1>9 DEF RowPart, RefuseSimulatedReview, Admits, RunnerEnds,
         Stepping, NeedsBreak, AtHead, Pausing
    <3>3. RowInv'
      BY <1>0, <1>9, CheckpointsKept DEF RowPart, RefuseSimulatedReview, Admits,
         RunnerEnds, Stepping, NeedsBreak, AtHead, Pausing
    <3>4. QED
      BY <3>1, <3>2, <3>3 DEF RowPart
  <2>2. ProcessOK' /\ WorldOK' /\ HeldStep'
    BY <1>9 DEF RefuseSimulatedReview, Admits, world, RunnerEnds, Stepping,
       NeedsBreak, AtHead, Pausing
  <2>3. PauseFlag' /\ RowNamesStep' /\ AbortReaches' /\ RunnerPerExecution'
    BY <1>9 DEF RefuseSimulatedReview, Admits, world, RunnerEnds, Stepping,
       NeedsBreak, AtHead, Pausing
  <2>4. QED
    BY <2>1, <2>2, <2>3 DEF RowPart
<1>10. QED
  BY <1>1, <1>2, <1>3, <1>4, <1>5, <1>6, <1>7, <1>8, <1>9 DEF AtLoopHead

\* A runner resumed from an await still holds the first ready step.
LEMMA ResumeStep ==
    ASSUME StateInv, Resumes
    PROVE  StateInv'
<1>0. RowPart
  BY DEF StateInv, TypeOK, RowPart
<1> USE NodeAssumption, SelectionAssumption, ConfigurationAssumption
    DEF StateInv, TypeOK, RowOK, ProcessOK, WorldOK, RowInv, NodeInFlight, RunnerInv,
        PauseFlag, HeldStep, RowNamesStep, AbortReaches, RunnerPerExecution,
        IsNextStep, Ready, Incomplete, Await, Active, Status, Terminal
<1>1. CASE SimulatedDone
  <2>1. RowPart'
    BY <1>0, <1>1, CompleteNodeKeepsRow, RowUnchanged DEF SimulatedDone
  <2>2. ProcessOK' /\ WorldOK' /\ HeldStep'
    BY <1>1 DEF SimulatedDone, RunnerEnds, row, CompleteNode, RunnerAt, world
  <2>3. PauseFlag' /\ RowNamesStep' /\ AbortReaches' /\ RunnerPerExecution'
    BY <1>1 DEF SimulatedDone, RunnerEnds, row, CompleteNode, RunnerAt, world
  <2>4. QED
    BY <2>1, <2>2, <2>3 DEF RowPart
<1>2. CASE VerifyFindsDrift
  <2>1. RowPart'
    BY <1>0, <1>2, FailExecutionKeepsRow DEF VerifyFindsDrift
  <2>2. ProcessOK' /\ WorldOK' /\ HeldStep'
    BY <1>2 DEF VerifyFindsDrift, FailExecution, RunnerEnds, world, row
  <2>3. PauseFlag' /\ RowNamesStep' /\ AbortReaches' /\ RunnerPerExecution'
    BY <1>2 DEF VerifyFindsDrift, FailExecution, RunnerEnds, world, row
  <2>4. QED
    BY <2>1, <2>2, <2>3 DEF RowPart
<1>3. CASE VerifyPasses
  <2>1. RowPart'
    BY <1>0, <1>3, StartNodeKeepsRow DEF VerifyPasses
  <2>2. ProcessOK' /\ WorldOK' /\ HeldStep'
    BY <1>3 DEF VerifyPasses, StartConflict, StartNode, RunnerAt, world
  <2>3. PauseFlag' /\ RowNamesStep' /\ AbortReaches' /\ RunnerPerExecution'
    BY <1>3 DEF VerifyPasses, StartConflict, StartNode, RunnerAt, world
  <2>4. QED
    BY <2>1, <2>2, <2>3 DEF RowPart
<1>4. CASE VerifyConflicts
  <2>1. RowPart'
    BY <1>0, <1>4, ThrowKeepsRow DEF VerifyConflicts
  <2>2. ProcessOK' /\ WorldOK' /\ HeldStep'
    BY <1>4 DEF VerifyConflicts, StartConflict, RunnerThrows, world, RunnerEnds,
       row, FailExecution
  <2>3. PauseFlag' /\ RowNamesStep' /\ AbortReaches' /\ RunnerPerExecution'
    BY <1>4 DEF VerifyConflicts, StartConflict, RunnerThrows, world, RunnerEnds,
       row, FailExecution
  <2>4. QED
    BY <2>1, <2>2, <2>3 DEF RowPart
<1>5. CASE PrepareFails
  <2>1. RowPart'
    BY <1>0, <1>5, StepThrowKeepsRow DEF PrepareFails
  <2>2. ProcessOK' /\ WorldOK' /\ HeldStep'
    BY <1>5 DEF PrepareFails, StepThrows, world, FailNode, RunnerEnds, row
  <2>3. PauseFlag' /\ RowNamesStep' /\ AbortReaches' /\ RunnerPerExecution'
    BY <1>5 DEF PrepareFails, StepThrows, world, FailNode, RunnerEnds, row
  <2>4. QED
    BY <2>1, <2>2, <2>3 DEF RowPart
<1>6. CASE PrepareStops
  <2>1. RowPart'
    BY <1>0, <1>6, RowUnchanged DEF PrepareStops
  <2>2. ProcessOK' /\ WorldOK' /\ HeldStep'
    BY <1>6 DEF PrepareStops, RunnerEnds, row, world
  <2>3. PauseFlag' /\ RowNamesStep' /\ AbortReaches' /\ RunnerPerExecution'
    BY <1>6 DEF PrepareStops, RunnerEnds, row, world
  <2>4. QED
    BY <2>1, <2>2, <2>3 DEF RowPart
<1>7. CASE InvokeAdapter
  <2>1. RowPart'
    BY <1>0, <1>7, RowUnchanged DEF InvokeAdapter
  <2>2. ProcessOK' /\ WorldOK' /\ HeldStep'
    BY <1>7 DEF InvokeAdapter, row, world
  <2>3. PauseFlag' /\ RowNamesStep' /\ AbortReaches' /\ RunnerPerExecution'
    BY <1>7 DEF InvokeAdapter, row, world
  <2>4. QED
    BY <2>1, <2>2, <2>3 DEF RowPart
<1>8. CASE SpawnCodex
  <2>1. RowPart'
    BY <1>0, <1>8, RowUnchanged DEF SpawnCodex
  <2>2. ProcessOK' /\ WorldOK' /\ HeldStep'
    BY <1>8 DEF SpawnCodex, RunnerAt, row, world
  <2>3. PauseFlag' /\ RowNamesStep' /\ AbortReaches' /\ RunnerPerExecution'
    BY <1>8 DEF SpawnCodex, RunnerAt, row, world
  <2>4. QED
    BY <2>1, <2>2, <2>3 DEF RowPart
<1>9. ASSUME NEW verdict \in BOOLEAN, AdapterReturns(verdict) PROVE StateInv'
  <2>1. RowPart'
    BY <1>0, <1>9, RowUnchanged DEF AdapterReturns
  <2>2. ProcessOK' /\ WorldOK' /\ HeldStep'
    BY <1>9 DEF AdapterReturns, RunnerEnds, row, world
  <2>3. PauseFlag' /\ RowNamesStep' /\ AbortReaches' /\ RunnerPerExecution'
    BY <1>9 DEF AdapterReturns, RunnerEnds, row, world
  <2>4. QED
    BY <2>1, <2>2, <2>3 DEF RowPart
<1>10. CASE AdapterFails
  <2>1. RowPart'
    BY <1>0, <1>10, StepThrowKeepsRow DEF AdapterFails
  <2>2. ProcessOK' /\ WorldOK' /\ HeldStep'
    BY <1>10 DEF AdapterFails, StepThrows, world, FailNode, RunnerEnds, row
  <2>3. PauseFlag' /\ RowNamesStep' /\ AbortReaches' /\ RunnerPerExecution'
    BY <1>10 DEF AdapterFails, StepThrows, world, FailNode, RunnerEnds, row
  <2>4. QED
    BY <2>1, <2>2, <2>3 DEF RowPart
<1>11. CASE AdapterRetries
  <2>1. RowPart'
    BY <1>0, <1>11, RowUnchanged DEF AdapterRetries
  <2>2. ProcessOK' /\ WorldOK' /\ HeldStep'
    BY <1>11 DEF AdapterRetries, RunnerAt, row, world
  <2>3. PauseFlag' /\ RowNamesStep' /\ AbortReaches' /\ RunnerPerExecution'
    BY <1>11 DEF AdapterRetries, RunnerAt, row, world
  <2>4. QED
    BY <2>1, <2>2, <2>3 DEF RowPart
<1>12. CASE RetryFindsDrift
  <2>1. RowPart'
    BY <1>0, <1>12, StepThrowKeepsRow DEF RetryFindsDrift
  <2>2. ProcessOK' /\ WorldOK' /\ HeldStep'
    BY <1>12 DEF RetryFindsDrift, StepThrows, world, FailNode, RunnerEnds, row
  <2>3. PauseFlag' /\ RowNamesStep' /\ AbortReaches' /\ RunnerPerExecution'
    BY <1>12 DEF RetryFindsDrift, StepThrows, world, FailNode, RunnerEnds, row
  <2>4. QED
    BY <2>1, <2>2, <2>3 DEF RowPart
<1>13. CASE RetryProceeds
  <2>1. RowPart'
    BY <1>0, <1>13, OnlyLogged DEF RetryProceeds, EventType
  <2>2. ProcessOK' /\ WorldOK' /\ HeldStep'
    BY <1>13 DEF RetryProceeds, row, world
  <2>3. PauseFlag' /\ RowNamesStep' /\ AbortReaches' /\ RunnerPerExecution'
    BY <1>13 DEF RetryProceeds, row, world
  <2>4. QED
    BY <2>1, <2>2, <2>3 DEF RowPart
<1>14. CASE ReviewThrows
  <2>1. RowPart'
    BY <1>0, <1>14, StepThrowKeepsRow DEF ReviewThrows
  <2>2. ProcessOK' /\ WorldOK' /\ HeldStep'
    BY <1>14 DEF ReviewThrows, StepThrows, world, FailNode, RunnerEnds, row
  <2>3. PauseFlag' /\ RowNamesStep' /\ AbortReaches' /\ RunnerPerExecution'
    BY <1>14 DEF ReviewThrows, StepThrows, world, FailNode, RunnerEnds, row
  <2>4. QED
    BY <2>1, <2>2, <2>3 DEF RowPart
<1>15. CASE ReviewStops
  <2>1. RowPart'
    BY <1>0, <1>15, RowUnchanged DEF ReviewStops
  <2>2. ProcessOK' /\ WorldOK' /\ HeldStep'
    BY <1>15 DEF ReviewStops, RunnerEnds, row, world
  <2>3. PauseFlag' /\ RowNamesStep' /\ AbortReaches' /\ RunnerPerExecution'
    BY <1>15 DEF ReviewStops, RunnerEnds, row, world
  <2>4. QED
    BY <2>1, <2>2, <2>3 DEF RowPart
<1>16. CASE ReviewRefuses
  <2>1. RowPart'
    BY <1>0, <1>16, StepThrowKeepsRow DEF ReviewRefuses
  <2>2. ProcessOK' /\ WorldOK' /\ HeldStep'
    BY <1>16 DEF ReviewRefuses, StepThrows, world, FailNode, RunnerEnds, row
  <2>3. PauseFlag' /\ RowNamesStep' /\ AbortReaches' /\ RunnerPerExecution'
    BY <1>16 DEF ReviewRefuses, StepThrows, world, FailNode, RunnerEnds, row
  <2>4. QED
    BY <2>1, <2>2, <2>3 DEF RowPart
<1>17. CASE ReviewAccepts
  <2>1. RowPart'
    BY <1>0, <1>17, RowUnchanged DEF ReviewAccepts
  <2>2. ProcessOK' /\ WorldOK' /\ HeldStep'
    BY <1>17 DEF ReviewAccepts, RunnerAt, row
  <2>3. PauseFlag' /\ RowNamesStep' /\ AbortReaches' /\ RunnerPerExecution'
    BY <1>17 DEF ReviewAccepts, RunnerAt, row
  <2>4. QED
    BY <2>1, <2>2, <2>3 DEF RowPart
<1>18. CASE CaptureFails
  <2>1. RowPart'
    BY <1>0, <1>18, StepThrowKeepsRow DEF CaptureFails
  <2>2. ProcessOK' /\ WorldOK' /\ HeldStep'
    BY <1>18 DEF CaptureFails, StepThrows, world, FailNode, RunnerEnds, row
  <2>3. PauseFlag' /\ RowNamesStep' /\ AbortReaches' /\ RunnerPerExecution'
    BY <1>18 DEF CaptureFails, StepThrows, world, FailNode, RunnerEnds, row
  <2>4. QED
    BY <2>1, <2>2, <2>3 DEF RowPart
<1>19. CASE CaptureCompletes
  <2>1. RowPart'
    BY <1>0, <1>19, CompleteNodeKeepsRow, RowUnchanged DEF CaptureCompletes
  <2>2. ProcessOK' /\ WorldOK' /\ HeldStep'
    BY <1>19 DEF CaptureCompletes, CompleteNode, RunnerAt, row
  <2>3. PauseFlag' /\ RowNamesStep' /\ AbortReaches' /\ RunnerPerExecution'
    BY <1>19 DEF CaptureCompletes, CompleteNode, RunnerAt, row
  <2>4. QED
    BY <2>1, <2>2, <2>3 DEF RowPart
<1>20. QED
  BY <1>1, <1>2, <1>3, <1>4, <1>5, <1>6, <1>7, <1>8, <1>9, <1>10, <1>11, <1>12,
     <1>13, <1>14, <1>15, <1>16, <1>17, <1>18, <1>19 DEF Resumes

\* A request changes the row under the runner, or starts one.
LEMMA HandlerStep ==
    ASSUME StateInv, Handlers
    PROVE  StateInv'
<1>0. RowPart
  BY DEF StateInv, TypeOK, RowPart
<1> USE NodeAssumption, SelectionAssumption, ConfigurationAssumption
    DEF StateInv, TypeOK, RowOK, ProcessOK, WorldOK, RowInv, NodeInFlight, RunnerInv,
        PauseFlag, HeldStep, RowNamesStep, AbortReaches, RunnerPerExecution,
        IsNextStep, Ready, Incomplete, Await, Active, Status, Terminal
<1>1. CASE RequestPause
  <2>1. RowPart'
    <3>1. LogOK'
      BY <1>0, <1>1, RecordKeepsLog DEF RequestPause, RowPart, EventType
    <3>2. RowOK'
      BY <1>0, <1>1 DEF RowPart, RequestPause
    <3>3. RowInv'
      BY <1>0, <1>1, CheckpointsKept DEF RowPart, RequestPause
    <3>4. QED
      BY <3>1, <3>2, <3>3 DEF RowPart
  <2>2. ProcessOK' /\ WorldOK' /\ HeldStep'
    BY <1>1 DEF RequestPause, Serving, process, world
  <2>3. PauseFlag' /\ RowNamesStep' /\ AbortReaches' /\ RunnerPerExecution'
    BY <1>1 DEF RequestPause, Serving, process, world
  <2>4. QED
    BY <2>1, <2>2, <2>3 DEF RowPart
<1>2. CASE CancelExecution
  <2>1. RowPart'
    <3>1. LogOK'
      BY <1>0, <1>2, RecordKeepsLog DEF CancelExecution, RowPart, EventType
    <3>2. RowOK'
      BY <1>0, <1>2 DEF RowPart, CancelExecution
    <3>3. RowInv'
      BY <1>0, <1>2, CheckpointsKept DEF RowPart, CancelExecution
    <3>4. QED
      BY <3>1, <3>2, <3>3 DEF RowPart
  <2>2. ProcessOK' /\ WorldOK' /\ HeldStep'
    BY <1>2 DEF CancelExecution, Serving, world
  <2>3. PauseFlag' /\ RowNamesStep' /\ AbortReaches' /\ RunnerPerExecution'
    BY <1>2 DEF CancelExecution, Serving, world
  <2>4. QED
    BY <2>1, <2>2, <2>3 DEF RowPart
<1>3. CASE ResumePinned
  <2>1. RowPart'
    <3>1. LogOK'
      BY <1>0, <1>3, RecordKeepsLog DEF ResumePinned, RowPart, EventType
    <3>2. RowOK'
      BY <1>0, <1>3 DEF RowPart, ResumePinned
    <3>3. RowInv'
      BY <1>0, <1>3, CheckpointsKept DEF RowPart, ResumePinned
    <3>4. QED
      BY <3>1, <3>2, <3>3 DEF RowPart
  <2>2. ProcessOK' /\ WorldOK' /\ HeldStep'
    BY <1>3 DEF ResumePinned, Serving, world
  <2>3. PauseFlag' /\ RowNamesStep' /\ AbortReaches' /\ RunnerPerExecution'
    BY <1>3 DEF ResumePinned, Serving, world
  <2>4. QED
    BY <2>1, <2>2, <2>3 DEF RowPart
<1>4. CASE SupersedeWithSuccessor
  <2>1. RowPart'
    <3>1. LogOK'
      BY <1>0, <1>4, RecordKeepsLog DEF SupersedeWithSuccessor, RowPart, EventType
    <3>2. RowOK'
      BY <1>0, <1>4 DEF RowPart, SupersedeWithSuccessor
    <3>3. RowInv'
      BY <1>0, <1>4, CheckpointsKept DEF RowPart, SupersedeWithSuccessor
    <3>4. QED
      BY <3>1, <3>2, <3>3 DEF RowPart
  <2>2. ProcessOK' /\ WorldOK' /\ HeldStep'
    BY <1>4 DEF SupersedeWithSuccessor, Serving, process, world
  <2>3. PauseFlag' /\ RowNamesStep' /\ AbortReaches' /\ RunnerPerExecution'
    BY <1>4 DEF SupersedeWithSuccessor, Serving, process, world
  <2>4. QED
    BY <2>1, <2>2, <2>3 DEF RowPart
<1>5. QED
  BY <1>1, <1>2, <1>3, <1>4 DEF Handlers

\* The world, and the life of the server process.
LEMMA EnvironmentStep ==
    ASSUME StateInv, Environment
    PROVE  StateInv'
<1>0. RowPart
  BY DEF StateInv, TypeOK, RowPart
<1> USE NodeAssumption, SelectionAssumption, ConfigurationAssumption
    DEF StateInv, TypeOK, RowOK, ProcessOK, WorldOK, RowInv, NodeInFlight, RunnerInv,
        PauseFlag, HeldStep, RowNamesStep, AbortReaches, RunnerPerExecution,
        IsNextStep, Ready, Incomplete, Await, Active, Status, Terminal
<1>1. CASE CodexHangs
  <2>1. RowPart'
    BY <1>0, <1>1, RowUnchanged DEF CodexHangs
  <2>2. ProcessOK' /\ WorldOK' /\ HeldStep'
    BY <1>1 DEF CodexHangs, RunnerAt, row, world
  <2>3. PauseFlag' /\ RowNamesStep' /\ AbortReaches' /\ RunnerPerExecution'
    BY <1>1 DEF CodexHangs, RunnerAt, row, world
  <2>4. QED
    BY <2>1, <2>2, <2>3 DEF RowPart
<1>2. CASE CodexReleased
  <2>1. RowPart'
    BY <1>0, <1>2, RowUnchanged DEF CodexReleased
  <2>2. ProcessOK' /\ WorldOK' /\ HeldStep'
    BY <1>2 DEF CodexReleased, RunnerAt, row, world
  <2>3. PauseFlag' /\ RowNamesStep' /\ AbortReaches' /\ RunnerPerExecution'
    BY <1>2 DEF CodexReleased, RunnerAt, row, world
  <2>4. QED
    BY <2>1, <2>2, <2>3 DEF RowPart
<1>3. CASE PinsChange
  <2>1. RowPart'
    BY <1>0, <1>3, RowUnchanged DEF PinsChange
  <2>2. ProcessOK' /\ WorldOK' /\ HeldStep'
    BY <1>3 DEF PinsChange, Serving, row, process
  <2>3. PauseFlag' /\ RowNamesStep' /\ AbortReaches' /\ RunnerPerExecution'
    BY <1>3 DEF PinsChange, Serving, row, process
  <2>4. QED
    BY <2>1, <2>2, <2>3 DEF RowPart
<1>4. CASE WorkspaceEdited
  <2>1. RowPart'
    BY <1>0, <1>4, RowUnchanged DEF WorkspaceEdited
  <2>2. ProcessOK' /\ WorldOK' /\ HeldStep'
    BY <1>4 DEF WorkspaceEdited, row, process
  <2>3. PauseFlag' /\ RowNamesStep' /\ AbortReaches' /\ RunnerPerExecution'
    BY <1>4 DEF WorkspaceEdited, row, process
  <2>4. QED
    BY <2>1, <2>2, <2>3 DEF RowPart
<1>5. CASE Close
  <2>1. RowPart'
    BY <1>0, <1>5, RowUnchanged DEF Close
  <2>2. ProcessOK' /\ WorldOK' /\ HeldStep'
    BY <1>5 DEF Close, row, world
  <2>3. PauseFlag' /\ RowNamesStep' /\ AbortReaches' /\ RunnerPerExecution'
    BY <1>5 DEF Close, row, world
  <2>4. QED
    BY <2>1, <2>2, <2>3 DEF RowPart
<1>6. CASE CloseEnds
  <2>1. RowPart'
    BY <1>0, <1>6, RowUnchanged DEF CloseEnds
  <2>2. ProcessOK' /\ WorldOK' /\ HeldStep'
    BY <1>6 DEF CloseEnds, row, world
  <2>3. PauseFlag' /\ RowNamesStep' /\ AbortReaches' /\ RunnerPerExecution'
    BY <1>6 DEF CloseEnds, row, world
  <2>4. QED
    BY <2>1, <2>2, <2>3 DEF RowPart
<1>7. CASE Crash
  <2>1. RowPart'
    BY <1>0, <1>7, RowUnchanged DEF Crash
  <2>2. ProcessOK' /\ WorldOK' /\ HeldStep'
    BY <1>7 DEF Crash, row, world
  <2>3. PauseFlag' /\ RowNamesStep' /\ AbortReaches' /\ RunnerPerExecution'
    BY <1>7 DEF Crash, row, world
  <2>4. QED
    BY <2>1, <2>2, <2>3 DEF RowPart
<1>8. CASE Restart
  <2>1. RowPart'
    <3>1. CASE status \notin Active
      BY <3>1, <1>0, <1>8, RowUnchanged DEF Restart
    <3>2. CASE status \in Active /\ Interrupted
      BY <3>2, <1>0, <1>8, FailExecutionKeepsRow DEF Restart
    <3>3. CASE status \in Active /\ ~Interrupted
      BY <3>3, <1>0, <1>8, OnlyLogged DEF Restart, EventType
    <3>4. QED
      BY <3>1, <3>2, <3>3
  <2>2. ProcessOK' /\ WorldOK' /\ HeldStep'
    BY <1>8 DEF Restart, row, Interrupted, FailExecution, world
  <2>3. PauseFlag' /\ RowNamesStep' /\ AbortReaches' /\ RunnerPerExecution'
    BY <1>8 DEF Restart, row, Interrupted, FailExecution, world
  <2>4. QED
    BY <2>1, <2>2, <2>3 DEF RowPart
<1>9. QED
  BY <1>1, <1>2, <1>3, <1>4, <1>5, <1>6, <1>7, <1>8 DEF Environment

\* A step that changes nothing keeps the invariant.
LEMMA Stutter ==
    ASSUME StateInv, UNCHANGED vars
    PROVE  StateInv'
<1>1. RowPart'
  BY RowUnchanged DEF vars, StateInv, TypeOK, RowPart
<1>2. ProcessOK' /\ WorldOK' /\ RunnerInv'
  BY DEF vars, row, process, world, StateInv, TypeOK, RunnerInv, ProcessOK, WorldOK, PauseFlag,
         HeldStep, RowNamesStep, AbortReaches, RunnerPerExecution, IsNextStep, Ready, Incomplete
<1>3. QED
  BY <1>1, <1>2 DEF RowPart, StateInv, TypeOK

LEMMA InitInv ==
    ASSUME Init
    PROVE  StateInv
<1> USE NodeAssumption, ConfigurationAssumption DEF Init
<1>1. TypeOK
  <2>1. RowOK
    BY DEF RowOK, Status, Active
  <2>2. LogOK
    BY DEF LogOK
  <2>3. attempt \in 1..MaxAttempts
    OBVIOUS
  <2>4. WorldOK
    BY DEF WorldOK
  <2>5. ProcessOK
    BY <2>3, Zenon DEF ProcessOK
  <2>6. QED
    BY <2>1, <2>2, <2>4, <2>5 DEF TypeOK
<1>2. RowInv
  BY DEF RowInv, CheckpointClosed, CompletedMeansDone, NodeInFlight
<1>3. RunnerInv
  BY DEF RunnerInv, PauseFlag, HeldStep, RowNamesStep, AbortReaches, RunnerPerExecution,
         Await, Active
<1>4. QED
  BY <1>1, <1>2, <1>3 DEF StateInv

------------------------------------------------------------------------------
(***************************************************************************)
(* The row and the runner.                                                 *)
(***************************************************************************)

\* The row and the runner agree in every reachable state, whatever requests,
\* late results, crashes and restarts came before.
THEOREM StateInvariance == Spec => []StateInv
<1>1. StateInv /\ [Next]_vars => StateInv'
  <2> SUFFICES ASSUME StateInv, [Next]_vars PROVE StateInv'
    OBVIOUS
  <2>1. CASE Runner
    BY <2>1, LoopHeadStep, ResumeStep DEF Runner
  <2>2. CASE Handlers
    BY <2>2, HandlerStep
  <2>3. CASE Environment
    BY <2>3, EnvironmentStep
  <2>4. CASE UNCHANGED vars
    BY <2>4, Stutter
  <2>5. QED
    BY <2>1, <2>2, <2>3, <2>4 DEF Next
<1>2. QED
  BY <1>1, InitInv, PTL DEF Spec

\* Every variable keeps its type.
THEOREM TypeCorrectness == Spec => []TypeOK
<1>1. StateInv => TypeOK
  BY DEF StateInv
<1>2. QED
  BY <1>1, StateInvariance, PTL

\* Checkpoints stay closed under dependsOn, the node in flight is one whose
\* dependencies are done, and COMPLETED means that every selected step is done.
THEOREM CheckpointSafety == Spec => [](CheckpointClosed /\ InFlight /\ CompletedMeansDone)
<1>1. StateInv => CheckpointClosed /\ InFlight /\ CompletedMeansDone
  BY DEF StateInv, RowInv, NodeInFlight, InFlight, IsNextStep, Ready
<1>2. QED
  BY <1>1, StateInvariance, PTL

\* An active row has its runner while the server is up, a row at rest has none,
\* and a requested pause is not lost.
THEOREM NoLostWakeUp == Spec => [](RunnerPerExecution /\ PauseFlag)
<1>1. StateInv => RunnerPerExecution /\ PauseFlag
  BY DEF StateInv, RunnerInv
<1>2. QED
  BY <1>1, StateInvariance, PTL

\* A Codex that runs with its signal intact runs for the node in flight.
THEOREM CodexAdmission == Spec => []CodexIsAdmitted
<1>1. StateInv => CodexIsAdmitted
  BY DEF StateInv, RunnerInv, CodexIsAdmitted, AbortReaches, RowNamesStep, HeldStep, Await
<1>2. QED
  BY <1>1, StateInvariance, PTL

\* The node in flight is one whose dependencies are done (CheckpointSafety's part).
THEOREM InFlightSafety == Spec => []InFlight
  BY CheckpointSafety, PTL

\* A requested pause survives in the row until it is taken; failExecution may leave the
\* flag behind, but no runner looks at that row again (NoLostWakeUp's part).
THEOREM PauseIsKept == Spec => []PauseFlag
  BY NoLostWakeUp, PTL

------------------------------------------------------------------------------
(***************************************************************************)
(* ExecutionRunner implements ExecutionLifecycle, and what follows for the *)
(* steps of the row.  Only the transactions on the row matter: each is a   *)
(* step of the lifecycle, or changes nothing the lifecycle can see.        *)
(***************************************************************************)
LifecycleStep == [Lifecycle!Next]_(Lifecycle!vars)

\* The row as the lifecycle sees it does not change.
LEMMA Unseen ==
    ASSUME UNCHANGED <<completedNodeIds, currentNodeId>>,
           status' = status \/ (status \in Active /\ status' \in Active)
    PROVE  LifecycleStep
  BY DEF LifecycleStep, Lifecycle!vars, Phase

LEMMA RowUnseen ==
    ASSUME UNCHANGED row
    PROVE  LifecycleStep
  BY Unseen DEF row

LEMMA StartNodeBegins ==
    ASSUME NEW n \in Node, IsNextStep(n), ~StartConflict(n), StartNode(n)
    PROVE  LifecycleStep
<1>1. CASE currentNodeId = n
  BY <1>1, Unseen DEF StartNode
<1>2. CASE currentNodeId # n
  <2>1. Lifecycle!Begin(n)
    BY <1>2 DEF Lifecycle!Begin, Phase, StartNode, StartConflict, Active, IsNextStep, Ready,
       Incomplete
  <2>2. QED
    BY <2>1 DEF LifecycleStep, Lifecycle!Next
<1>3. QED
  BY <1>1, <1>2

LEMMA CompleteNodeFinishes ==
    ASSUME NEW n \in Node, CompleteNode(n),
           status # "CANCELLED" => status \in Active /\ currentNodeId = n
    PROVE  LifecycleStep
<1>1. CASE status = "CANCELLED"
  BY <1>1, RowUnseen DEF CompleteNode
<1>2. CASE status # "CANCELLED"
  <2>1. Lifecycle!Finish
    BY <1>2, NodeAssumption DEF Lifecycle!Finish, Phase, CompleteNode
  <2>2. QED
    BY <2>1 DEF LifecycleStep, Lifecycle!Next
<1>3. QED
  BY <1>1, <1>2

\* Both ways to fail: of the node in flight, of the execution as a whole.
LEMMA FailureFails ==
    ASSUME status \in Active \cup Terminal,
           FailExecution \/ \E n \in Node : FailNode(n)
    PROVE  LifecycleStep
<1>1. CASE status \in Terminal
  BY <1>1, RowUnseen DEF FailExecution, FailNode
<1>2. CASE status \notin Terminal
  <2>1. Lifecycle!Fail
    BY <1>2 DEF Lifecycle!Fail, Phase, FailExecution, FailNode, Active, Terminal
  <2>2. QED
    BY <2>1 DEF LifecycleStep, Lifecycle!Next
<1>3. QED
  BY <1>1, <1>2

\* A runner that throws fails a row it found active, or leaves it as it is.
LEMMA ThrowsFail ==
    ASSUME status \in Active \cup Terminal, RunnerThrows
    PROVE  LifecycleStep
  BY RowUnseen, FailureFails DEF RunnerThrows

------------------------------------------------------------------------------
\* What a runner in its loop or in an await knows of the row.
LEMMA RunnerKnows ==
    ASSUME StateInv, pc # "none"
    PROVE  /\ status \in Active \cup {"CANCELLED"}
           /\ pc \in Await => step \in Node /\ IsNextStep(step)
           /\ pc \in Await \ {"verify"} =>
                 status = "CANCELLED" \/ (status \in Active /\ currentNodeId = step)
<1>1. status \in Active \cup {"CANCELLED"}
  BY DEF StateInv, TypeOK, RowOK, Status, Terminal, RunnerInv, RunnerPerExecution
<1>2. pc \in Await => step \in Node /\ IsNextStep(step)
  BY SelectionAssumption DEF StateInv, RunnerInv, HeldStep, IsNextStep, Ready, Incomplete
<1>3. QED
  BY <1>1, <1>2 DEF StateInv, RunnerInv, RowNamesStep

LEMMA LoopHeadImplements ==
    ASSUME StateInv, AtLoopHead
    PROVE  LifecycleStep
<1> USE RunnerKnows DEF AtHead, Active, Terminal
<1>1. CASE LoopFindsClosed \/ LoopFindsInactive
  BY <1>1, RowUnseen DEF LoopFindsClosed, LoopFindsInactive
<1>2. CASE PauseAtCheckpoint
  <2>1. Lifecycle!Pause
    BY <1>2 DEF Lifecycle!Pause, Phase, PauseAtCheckpoint, Pausing, StateInv, RunnerInv, PauseFlag
  <2>2. QED
    BY <2>1 DEF LifecycleStep, Lifecycle!Next
<1>3. CASE CompleteExecution
  <2>1. CASE currentNodeId = None
    <3>1. Lifecycle!Complete
      BY <1>3, <2>1 DEF Lifecycle!Complete, Phase, CompleteExecution, Stepping, Incomplete
    <3>2. QED
      BY <3>1 DEF LifecycleStep, Lifecycle!Next
  <2>2. CASE currentNodeId # None
    BY <1>3, <2>2, FailureFails DEF CompleteExecution, Stepping
  <2>3. QED
    BY <2>1, <2>2
<1>4. CASE LoopRejects
  BY <1>4, ThrowsFail DEF LoopRejects, Stepping
<1>5. ASSUME NEW n \in Node, ReachBreakpoint(n) PROVE LifecycleStep
  BY <1>5, Unseen DEF ReachBreakpoint, Stepping
<1>6. ASSUME NEW n \in Node, BeginVerify(n) PROVE LifecycleStep
  BY <1>6, RowUnseen DEF BeginVerify
<1>7. ASSUME NEW n \in Node, StartSimulated(n) PROVE LifecycleStep
  BY <1>7, ThrowsFail, StartNodeBegins DEF StartSimulated, Admits, Stepping
<1>8. ASSUME NEW n \in Node, RefuseSimulatedReview(n) PROVE LifecycleStep
  <2>1. Lifecycle!Fail
    BY <1>8 DEF Lifecycle!Fail, Phase, RefuseSimulatedReview, Admits, Stepping
  <2>2. QED
    BY <2>1 DEF LifecycleStep, Lifecycle!Next
<1>9. QED
  BY <1>1, <1>2, <1>3, <1>4, <1>5, <1>6, <1>7, <1>8 DEF AtLoopHead

LEMMA ResumesImplement ==
    ASSUME StateInv, Resumes
    PROVE  LifecycleStep
<1> USE RunnerKnows DEF Await
<1>1. CASE \/ PrepareStops \/ InvokeAdapter \/ SpawnCodex \/ AdapterRetries
           \/ ReviewStops \/ ReviewAccepts \/ RetryProceeds
           \/ \E verdict \in BOOLEAN : AdapterReturns(verdict)
  BY <1>1, RowUnseen
  DEF PrepareStops, InvokeAdapter, SpawnCodex, AdapterRetries, ReviewStops, ReviewAccepts,
      RetryProceeds, AdapterReturns
<1>2. CASE \/ PrepareFails \/ AdapterFails \/ RetryFindsDrift
           \/ ReviewThrows \/ ReviewRefuses \/ CaptureFails
  <2>1. pc \in Await /\ StepThrows
    BY <1>2 DEF PrepareFails, AdapterFails, RetryFindsDrift, ReviewThrows, ReviewRefuses,
       CaptureFails
  <2>2. status \in Active \cup Terminal /\ step \in Node
    BY <2>1 DEF Terminal
  <2>3. QED
    BY <2>1, <2>2, FailureFails DEF StepThrows
<1>3. CASE VerifyFindsDrift
  BY <1>3, FailureFails DEF VerifyFindsDrift, Terminal
<1>4. CASE VerifyConflicts
  BY <1>4, ThrowsFail DEF VerifyConflicts, Terminal
<1>5. CASE VerifyPasses
  BY <1>5, StartNodeBegins DEF VerifyPasses
<1>6. CASE SimulatedDone
  BY <1>6, RowUnseen, CompleteNodeFinishes DEF SimulatedDone
<1>7. CASE CaptureCompletes
  BY <1>7, CompleteNodeFinishes DEF CaptureCompletes
<1>8. QED
  BY <1>1, <1>2, <1>3, <1>4, <1>5, <1>6, <1>7 DEF Resumes

LEMMA HandlersImplement ==
    ASSUME StateInv, Handlers
    PROVE  LifecycleStep
<1>1. CASE RequestPause
  BY <1>1, Unseen DEF RequestPause, Active
<1>2. CASE CancelExecution
  <2>1. Lifecycle!Cancel
    BY <1>2 DEF Lifecycle!Cancel, Phase, CancelExecution, Active
  <2>2. QED
    BY <2>1 DEF LifecycleStep, Lifecycle!Next
<1>3. CASE ResumePinned
  <2>1. Lifecycle!Resume
    BY <1>3 DEF Lifecycle!Resume, Phase, ResumePinned, Active
  <2>2. QED
    BY <2>1 DEF LifecycleStep, Lifecycle!Next
<1>4. CASE SupersedeWithSuccessor
  <2>1. Lifecycle!Supersede
    BY <1>4 DEF Lifecycle!Supersede, Phase, SupersedeWithSuccessor, Active
  <2>2. QED
    BY <2>1 DEF LifecycleStep, Lifecycle!Next
<1>5. QED
  BY <1>1, <1>2, <1>3, <1>4 DEF Handlers

LEMMA EnvironmentImplements ==
    ASSUME StateInv, Environment
    PROVE  LifecycleStep
<1>1. CASE Restart
  BY <1>1, RowUnseen, FailureFails DEF Restart
<1>2. CASE ~Restart
  BY <1>2, RowUnseen
  DEF Environment, CodexHangs, CodexReleased, PinsChange, WorkspaceEdited, Close, CloseEnds, Crash
<1>3. QED
  BY <1>1, <1>2

------------------------------------------------------------------------------
\* The execution row only ever moves as an execution may, whatever the runner,
\* the requests that race it, and the crashes and restarts of the server do.
THEOREM Refinement == Spec => ImplementsLifecycle
<1>1. Init => Lifecycle!Init
  BY DEF Init, Lifecycle!Init, Phase, Closed, Active
<1>2. StateInv /\ [Next]_vars => [Lifecycle!Next]_(Lifecycle!vars)
  <2> SUFFICES ASSUME StateInv, [Next]_vars PROVE LifecycleStep
    BY DEF LifecycleStep
  <2>1. CASE UNCHANGED vars
    BY <2>1, RowUnseen DEF vars
  <2>2. CASE Next
    BY <2>2, LoopHeadImplements, ResumesImplement, HandlersImplement, EnvironmentImplements
    DEF Next, Runner
  <2>3. QED
    BY <2>1, <2>2
<1>3. QED
  BY <1>1, <1>2, StateInvariance, PTL DEF Spec, ImplementsLifecycle, Lifecycle!Spec

\* A terminal row is left alone by a late completion, by a second failure, by a
\* pause that stayed requested and by a restart.
THEOREM TerminalFinality == Spec => TerminalIsFinal
<1>1. ASSUME StateInv, Next, status \in Terminal PROVE UNCHANGED row
  <2> USE <1>1
  <2>0. pc # "none" => status = "CANCELLED"
    BY RunnerKnows DEF Active, Terminal
  <2>1. CASE AtLoopHead
    BY <2>0, <2>1 DEF AtLoopHead, AtHead, Stepping, Pausing, Admits, LoopFindsClosed,
       LoopFindsInactive, PauseAtCheckpoint, CompleteExecution, LoopRejects, ReachBreakpoint,
       BeginVerify, StartSimulated, RefuseSimulatedReview, StateInv, RunnerInv, PauseFlag, row
  <2>2. CASE Resumes
    <3>1. status = "CANCELLED" /\ pc # "none"
      BY <2>0, <2>2 DEF Resumes, SimulatedDone, VerifyFindsDrift, VerifyPasses, VerifyConflicts,
         PrepareFails, PrepareStops, InvokeAdapter, SpawnCodex, AdapterReturns, AdapterFails,
         AdapterRetries, RetryFindsDrift, RetryProceeds, ReviewThrows, ReviewStops,
         ReviewRefuses, ReviewAccepts, CaptureFails, CaptureCompletes
    <3>2. currentNodeId = None /\ step \in Node
      BY <2>2, <3>1, RunnerKnows DEF StateInv, RowInv, NodeInFlight, Active, Resumes, Await,
         SimulatedDone, VerifyFindsDrift, VerifyPasses, VerifyConflicts,
         PrepareFails, PrepareStops, InvokeAdapter, SpawnCodex, AdapterReturns, AdapterFails,
         AdapterRetries, RetryFindsDrift, RetryProceeds, ReviewThrows, ReviewStops,
         ReviewRefuses, ReviewAccepts, CaptureFails, CaptureCompletes
    <3>3. ~VerifyPasses
      BY <3>1, <3>2, NodeAssumption DEF VerifyPasses, StartConflict
    <3>4. QED
      BY <2>2, <3>1, <3>3 DEF Resumes, SimulatedDone, VerifyFindsDrift, VerifyConflicts,
         PrepareFails, PrepareStops, InvokeAdapter, SpawnCodex, AdapterReturns, AdapterFails,
         AdapterRetries, RetryFindsDrift, RetryProceeds, ReviewThrows, ReviewStops,
         ReviewRefuses, ReviewAccepts, CaptureFails, CaptureCompletes, StepThrows,
         RunnerThrows, FailNode, FailExecution, CompleteNode, Terminal, row
  <2>3. CASE Handlers
    BY <2>3 DEF Handlers, RequestPause, CancelExecution, ResumePinned, SupersedeWithSuccessor,
       Active, Terminal
  <2>4. CASE Environment
    BY <2>4 DEF Environment, CodexHangs, CodexReleased, PinsChange, WorkspaceEdited, Close,
       CloseEnds, Crash, Restart, FailExecution, row
  <2>5. QED
    BY <2>1, <2>2, <2>3, <2>4 DEF Next, Runner
<1>2. StateInv /\ [Next]_vars => [(status \in Terminal) => UNCHANGED row]_vars
  BY <1>1
<1>3. QED
  BY <1>2, StateInvariance, PTL DEF Spec, TerminalIsFinal

------------------------------------------------------------------------------
(***************************************************************************)
(* The log.  What a step may append to it, and what it may then do to the  *)
(* row, is shown action by action (LogStep); that the log keeps its        *)
(* promises follows from that alone.                                       *)
(***************************************************************************)
Appended == (Len(events) + 1)..Len(events')

Grows ==
    /\ Len(events) \in Nat /\ Len(events') \in Nat
    /\ Len(events') >= Len(events)
    /\ \A i \in 1..Len(events) : events'[i] = events[i]

\* A node starts first in its transaction, in a RUNNING row that has it neither in
\* flight nor done nor at a breakpoint.
StartsAreDue ==
    \A i \in Appended : events'[i].type = "node.started" =>
        /\ i = Len(events) + 1
        /\ status = "RUNNING"
        /\ events'[i].node \notin completedNodeIds /\ events'[i].node # None
        /\ events'[i].node # currentNodeId
        /\ ~NeedsBreak(events'[i].node)
        /\ status' \in Terminal \/ currentNodeId' = events'[i].node

GivesUpInTheLog ==
    /\ status \in Terminal => status' \in Terminal
    /\ completedNodeIds \subseteq completedNodeIds'
    /\ currentNodeId # None =>
          \/ status' \in Terminal
          \/ currentNodeId' = currentNodeId
          \/ currentNodeId \in completedNodeIds'
          \/ \E j \in Appended : events'[j].type = "execution.paused"

PassesInTheLog ==
    /\ \A n \in passedBreakpointNodeIds' \ passedBreakpointNodeIds :
          /\ status' # "RUNNING"
          /\ \E j \in Appended :
                events'[j] = [type |-> "execution.breakpoint_reached", node |-> n]
    /\ status' = "RUNNING" =>
          status = "RUNNING" \/ \E k \in Appended : events'[k].type = "execution.resumed"

LogStep ==
    Grows /\ StartsAreDue /\ GivesUpInTheLog /\ PassesInTheLog /\ HeldIsPassed'

\* A transaction that logs nothing, one event or two.
LEMMA NothingLogged ==
    ASSUME LogOK, UNCHANGED events
    PROVE  Grows /\ Appended = {}
  BY DEF LogOK, Grows, Appended

LEMMA OneLogged ==
    ASSUME LogOK, NEW type, NEW n, Record(type, n)
    PROVE  /\ Grows /\ Appended = {Len(events) + 1}
           /\ events'[Len(events) + 1] = [type |-> type, node |-> n]
  BY DEF LogOK, Record, Grows, Appended

LEMMA TwoLogged ==
    ASSUME LogOK, NEW first, NEW second, events' = events \o <<first, second>>
    PROVE  /\ Grows /\ Appended = {Len(events) + 1, Len(events) + 2}
           /\ events'[Len(events) + 1] = first /\ events'[Len(events) + 2] = second
  BY DEF LogOK, Grows, Appended

LEMMA ThreeLogged ==
    ASSUME LogOK, NEW first \in Event, NEW second \in Event, NEW third \in Event,
           events' = events \o <<first>> \o <<second, third>>
    PROVE  /\ Grows /\ Appended = {Len(events) + 1, Len(events) + 2, Len(events) + 3}
           /\ events'[Len(events) + 1] = first /\ events'[Len(events) + 2] = second
           /\ events'[Len(events) + 3] = third
<1> DEFINE began == events \o <<first>>
<1>1. /\ began \in Seq(Event) /\ Len(events) \in Nat /\ Len(began) = Len(events) + 1
      /\ began[Len(events) + 1] = first
      /\ \A i \in 1..Len(events) : began[i] = events[i]
  BY DEF LogOK
<1>2. events' = began \o <<second, third>>
  OBVIOUS
<1> HIDE DEF began
<1>3. /\ Len(events') = Len(began) + 2
      /\ events'[Len(began) + 1] = second /\ events'[Len(began) + 2] = third
      /\ \A i \in 1..Len(began) : events'[i] = began[i]
  BY <1>1, <1>2
<1>4. /\ Len(events') = Len(events) + 3 /\ events'[Len(events) + 1] = first
      /\ events'[Len(events) + 2] = second /\ events'[Len(events) + 3] = third
  BY <1>1, <1>3
<1>5. Appended = {Len(events) + 1, Len(events) + 2, Len(events) + 3}
  BY <1>1, <1>4 DEF Appended
<1>6. Grows
  BY <1>1, <1>3, <1>4 DEF Grows
<1>7. QED
  BY <1>4, <1>5, <1>6

\* The log keeps its promises when every step does what LogStep says.
LEMMA LogKept ==
    ASSUME LogInv, StartedOnce, BreakpointPausesFirst, LogStep
    PROVE  LogInv' /\ StartedOnce' /\ BreakpointPausesFirst'
<1> USE DEF LogStep, Grows, Appended
<1>1. StartedOnce'
  <2> SUFFICES ASSUME NEW i \in 1..Len(events'), NEW k \in 1..Len(events'),
                      i < k, events'[i].type = "node.started", events'[k] = events'[i]
               PROVE  \E j \in i..k : events'[j].type = "execution.paused"
    BY DEF StartedOnce
  <2>1. CASE k \in 1..Len(events)
    BY <2>1 DEF StartedOnce
  <2>2. CASE k \notin 1..Len(events)
    <3>1. /\ k = Len(events) + 1 /\ i \in 1..Len(events)
          /\ events[i].type = "node.started"
          /\ status \notin Terminal /\ events[i].node # currentNodeId
          /\ events[i].node \notin completedNodeIds
      BY <2>2 DEF StartsAreDue, Terminal
    <3>2. PICK j \in (i + 1)..Len(events) : events[j].type = "execution.paused"
      BY <3>1 DEF LogInv, StartedIsAccounted
    <3>3. j \in i..k /\ events'[j].type = "execution.paused"
      BY <3>1, <3>2
    <3>4. QED
      BY <3>3
  <2>3. QED
    BY <2>1, <2>2
<1>2. BreakpointPausesFirst'
  <2> SUFFICES ASSUME NEW i \in 1..Len(events'),
                      events'[i].type = "node.started", events'[i].node \in Breakpoint
               PROVE  \E j, k \in 1..(i - 1) :
                          /\ j < k
                          /\ events'[j] = [type |-> "execution.breakpoint_reached",
                                           node |-> events'[i].node]
                          /\ events'[k].type = "execution.resumed"
    BY DEF BreakpointPausesFirst
  <2>1. CASE i \in 1..Len(events)
    <3>1. PICK j, k \in 1..(i - 1) :
              /\ j < k
              /\ events[j] = [type |-> "execution.breakpoint_reached",
                              node |-> events[i].node]
              /\ events[k].type = "execution.resumed"
      BY <2>1 DEF BreakpointPausesFirst
    <3>2. QED
      BY <2>1, <3>1
  <2>2. CASE i \notin 1..Len(events)
    <3>1. /\ i = Len(events) + 1 /\ status = "RUNNING"
          /\ events'[i].node \in passedBreakpointNodeIds
      BY <2>2 DEF StartsAreDue, NeedsBreak
    <3>2. PICK j \in 1..Len(events) :
              /\ events[j] = [type |-> "execution.breakpoint_reached",
                              node |-> events'[i].node]
              /\ \E k \in (j + 1)..Len(events) : events[k].type = "execution.resumed"
      BY <3>1 DEF LogInv, PassedIsLogged
    <3>3. PICK k \in (j + 1)..Len(events) : events[k].type = "execution.resumed"
      BY <3>2
    <3>4. /\ j \in 1..(i - 1) /\ k \in 1..(i - 1) /\ j < k
          /\ events'[j] = events[j] /\ events'[k] = events[k]
      BY <3>1, <3>2, <3>3
    <3>5. QED
      BY <3>2, <3>3, <3>4
  <2>3. QED
    BY <2>1, <2>2
<1>3. StartedIsAccounted'
  <2> SUFFICES ASSUME NEW i \in 1..Len(events'), events'[i].type = "node.started",
                      status' \notin Terminal
               PROVE  \/ currentNodeId' # None /\ events'[i].node = currentNodeId'
                      \/ events'[i].node \in completedNodeIds'
                      \/ \E j \in (i + 1)..Len(events') : events'[j].type = "execution.paused"
    BY DEF StartedIsAccounted
  <2>1. CASE i \notin 1..Len(events)
    BY <2>1 DEF StartsAreDue
  <2>2. CASE i \in 1..Len(events)
    <3>1. CASE \E j \in (i + 1)..Len(events) : events[j].type = "execution.paused"
      BY <2>2, <3>1
    <3>2. CASE events[i].node \in completedNodeIds
      BY <2>2, <3>2 DEF GivesUpInTheLog
    <3>3. CASE currentNodeId # None /\ events[i].node = currentNodeId
      BY <2>2, <3>3 DEF GivesUpInTheLog
    <3>4. QED
      BY <2>2, <3>1, <3>2, <3>3 DEF LogInv, StartedIsAccounted, GivesUpInTheLog
  <2>3. QED
    BY <2>1, <2>2
<1>4. PassedIsLogged'
  <2> SUFFICES ASSUME NEW n \in passedBreakpointNodeIds'
               PROVE  \E j \in 1..Len(events') :
                  /\ events'[j] = [type |-> "execution.breakpoint_reached", node |-> n]
                  /\ status' = "RUNNING" =>
                        \E k \in (j + 1)..Len(events') : events'[k].type = "execution.resumed"
    BY DEF PassedIsLogged
  <2>1. CASE n \notin passedBreakpointNodeIds
    BY <2>1 DEF PassesInTheLog
  <2>2. CASE n \in passedBreakpointNodeIds
    <3>1. PICK j \in 1..Len(events) :
              /\ events[j] = [type |-> "execution.breakpoint_reached", node |-> n]
              /\ status = "RUNNING" =>
                    \E k \in (j + 1)..Len(events) : events[k].type = "execution.resumed"
      BY <2>2 DEF LogInv, PassedIsLogged
    <3>2. status' = "RUNNING" =>
              \E k \in (j + 1)..Len(events') : events'[k].type = "execution.resumed"
      BY <3>1 DEF PassesInTheLog
    <3>3. QED
      BY <3>1, <3>2
  <2>3. QED
    BY <2>1, <2>2
<1>5. QED
  BY <1>1, <1>2, <1>3, <1>4 DEF LogInv

\* A step that leaves the row and the log alone holds no new step.
LEMMA NothingDone ==
    ASSUME StateInv, HeldIsPassed, UNCHANGED <<row, events>>,
           pc' \in Await => pc \in Await /\ step' = step
    PROVE  LogStep
<1>1. Grows /\ Appended = {}
  BY NothingLogged DEF StateInv, TypeOK
<1>2. QED
  BY <1>1 DEF LogStep, StartsAreDue, GivesUpInTheLog, PassesInTheLog, HeldIsPassed,
     NeedsBreak, row

\* One that logs an event of another type than node.started, and starts nothing.
LEMMA OneEventDone ==
    ASSUME StateInv, HeldIsPassed,
           NEW type \in EventType \ {"node.started"}, NEW n, Record(type, n),
           UNCHANGED <<completedNodeIds, passedBreakpointNodeIds>>,
           status \in Terminal => status' \in Terminal,
           \/ currentNodeId' = currentNodeId \/ status' \in Terminal
           \/ type = "execution.paused",
           status' = "RUNNING" => status = "RUNNING" \/ type = "execution.resumed",
           pc' \in Await => pc \in Await /\ step' = step
    PROVE  LogStep
<1>1. /\ Grows /\ Appended = {Len(events) + 1}
      /\ events'[Len(events) + 1] = [type |-> type, node |-> n]
  BY OneLogged DEF StateInv, TypeOK
<1>2. QED
  BY <1>1 DEF LogStep, StartsAreDue, GivesUpInTheLog, PassesInTheLog, HeldIsPassed, NeedsBreak

\* startNode starts the first ready step once its breakpoint is behind it.
LEMMA StartDone ==
    ASSUME StateInv, NEW n \in Node, IsNextStep(n), ~NeedsBreak(n), ~StartConflict(n),
           StartNode(n), step' = n
    PROVE  LogStep
<1>1. HeldIsPassed'
  BY DEF HeldIsPassed, NeedsBreak, StartNode
<1>2. CASE currentNodeId = n
  BY <1>1, <1>2, NothingLogged
  DEF StateInv, TypeOK, LogStep, StartsAreDue, GivesUpInTheLog, PassesInTheLog, StartNode
<1>3. CASE currentNodeId # n
  <2>1. /\ Grows /\ Appended = {Len(events) + 1}
        /\ events'[Len(events) + 1] = [type |-> "node.started", node |-> n]
    BY <1>3, OneLogged DEF StateInv, TypeOK, StartNode
  <2>2. n \notin completedNodeIds /\ n # None /\ currentNodeId = None /\ status = "RUNNING"
    BY <1>3, NodeAssumption DEF IsNextStep, Ready, Incomplete, StartConflict
  <2>3. QED
    BY <1>1, <1>3, <2>1, <2>2
    DEF LogStep, StartsAreDue, GivesUpInTheLog, PassesInTheLog, StartNode
<1>4. QED
  BY <1>2, <1>3

LEMMA CompleteDone ==
    ASSUME StateInv, HeldIsPassed, NEW n, CompleteNode(n),
           status = "CANCELLED" \/ currentNodeId = n,
           pc' \notin Await
    PROVE  LogStep
<1>1. CASE status = "CANCELLED"
  BY <1>1, NothingDone DEF CompleteNode
<1>2. CASE status # "CANCELLED"
  <2>1. /\ Grows /\ Appended = {Len(events) + 1}
        /\ events'[Len(events) + 1] = [type |-> "node.completed", node |-> n]
    BY <1>2, OneLogged DEF StateInv, TypeOK, CompleteNode
  <2>2. QED
    BY <1>2, <2>1
    DEF LogStep, StartsAreDue, GivesUpInTheLog, PassesInTheLog, HeldIsPassed, CompleteNode
<1>3. QED
  BY <1>1, <1>2

LEMMA FailNodeDone ==
    ASSUME StateInv, HeldIsPassed, NEW n, FailNode(n), pc' \notin Await
    PROVE  LogStep
<1>1. CASE status \in Terminal
  BY <1>1, NothingDone DEF FailNode
<1>2. CASE status \notin Terminal
  <2>1. /\ Grows /\ Appended = {Len(events) + 1, Len(events) + 2}
        /\ events'[Len(events) + 1] = [type |-> "node.failed", node |-> n]
        /\ events'[Len(events) + 2] = [type |-> "execution.failed", node |-> n]
    BY <1>2, TwoLogged DEF StateInv, TypeOK, FailNode
  <2>2. QED
    BY <1>2, <2>1
    DEF LogStep, StartsAreDue, GivesUpInTheLog, PassesInTheLog, HeldIsPassed, FailNode, Terminal
<1>3. QED
  BY <1>1, <1>2

LEMMA FailExecutionDone ==
    ASSUME StateInv, HeldIsPassed, FailExecution, pc' \notin Await
    PROVE  LogStep
<1>1. CASE status \in Terminal
  BY <1>1, NothingDone DEF FailExecution
<1>2. CASE status \notin Terminal
  BY <1>2, OneEventDone DEF FailExecution, EventType, Terminal
<1>3. QED
  BY <1>1, <1>2

LEMMA ThrowDone ==
    ASSUME StateInv, HeldIsPassed, RunnerThrows
    PROVE  LogStep
<1>1. pc' \notin Await
  BY DEF RunnerThrows, RunnerEnds, Await
<1>2. QED
  BY <1>1, NothingDone, FailExecutionDone DEF RunnerThrows

LEMMA LoopHeadLogs ==
    ASSUME StateInv, HeldIsPassed, AtLoopHead
    PROVE  LogStep
<1> USE DEF Await
<1>1. CASE LoopFindsClosed \/ LoopFindsInactive
  BY <1>1, NothingDone DEF LoopFindsClosed, LoopFindsInactive, RunnerEnds
<1>2. CASE PauseAtCheckpoint
  BY <1>2, NothingDone, OneEventDone
  DEF PauseAtCheckpoint, Pausing, RunnerEnds, EventType, StateInv, RunnerInv, PauseFlag, AtHead,
      Terminal
<1>3. CASE CompleteExecution
  <2>1. CASE currentNodeId = None
    BY <1>3, <2>1, OneEventDone
    DEF CompleteExecution, Stepping, RunnerEnds, EventType, Terminal
  <2>2. CASE currentNodeId # None
    BY <1>3, <2>2, FailExecutionDone DEF CompleteExecution, RunnerEnds
  <2>3. QED
    BY <2>1, <2>2
<1>4. CASE LoopRejects
  BY <1>4, ThrowDone DEF LoopRejects
<1>5. ASSUME NEW n \in Node, ReachBreakpoint(n) PROVE LogStep
  <2>1. /\ Grows /\ Appended = {Len(events) + 1, Len(events) + 2}
        /\ events'[Len(events) + 1] = [type |-> "execution.pause_requested", node |-> None]
        /\ events'[Len(events) + 2] = [type |-> "execution.breakpoint_reached", node |-> n]
    BY <1>5, TwoLogged DEF StateInv, TypeOK, ReachBreakpoint
  <2>2. QED
    BY <1>5, <2>1
    DEF LogStep, StartsAreDue, GivesUpInTheLog, PassesInTheLog, HeldIsPassed, ReachBreakpoint,
        Stepping, AtHead, process, Terminal
<1>6. ASSUME NEW n \in Node, BeginVerify(n) PROVE LogStep
  <2>1. Grows /\ Appended = {}
    BY <1>6, NothingLogged DEF StateInv, TypeOK, BeginVerify
  <2>2. QED
    BY <1>6, <2>1
    DEF LogStep, StartsAreDue, GivesUpInTheLog, PassesInTheLog, HeldIsPassed, NeedsBreak,
        BeginVerify, Admits, row
<1>7. ASSUME NEW n \in Node, StartSimulated(n) PROVE LogStep
  BY <1>7, ThrowDone, StartDone DEF StartSimulated, Admits
<1>8. ASSUME NEW n \in Node, RefuseSimulatedReview(n) PROVE LogStep
  <2>0. n \notin completedNodeIds /\ n # None
    BY <1>8, NodeAssumption DEF RefuseSimulatedReview, Admits, IsNextStep, Ready, Incomplete
  <2>1. /\ Grows
        /\ \A i \in Appended : events'[i].type = "node.started" =>
              i = Len(events) + 1 /\ events'[i].node = n /\ currentNodeId # n
    <3>1. CASE currentNodeId = n
      <4>1. events' = events \o <<[type |-> "node.failed", node |-> n],
                                  [type |-> "execution.failed", node |-> n]>>
        BY <1>8, <3>1 DEF RefuseSimulatedReview, StateInv, TypeOK, LogOK
      <4>2. QED
        BY <4>1, TwoLogged DEF StateInv, TypeOK
    <3>2. CASE currentNodeId # n
      <4>1. events' = events \o <<[type |-> "node.started", node |-> n]>>
                             \o <<[type |-> "node.failed", node |-> n],
                                  [type |-> "execution.failed", node |-> n]>>
        BY <1>8, <3>2 DEF RefuseSimulatedReview
      <4>2. \A type \in {"node.started", "node.failed", "execution.failed"} :
               [type |-> type, node |-> n] \in Event
        BY <1>8 DEF Event, EventType
      <4>3. /\ Grows /\ Appended = {Len(events) + 1, Len(events) + 2, Len(events) + 3}
            /\ events'[Len(events) + 1] = [type |-> "node.started", node |-> n]
            /\ events'[Len(events) + 2] = [type |-> "node.failed", node |-> n]
            /\ events'[Len(events) + 3] = [type |-> "execution.failed", node |-> n]
        BY <4>1, <4>2, ThreeLogged DEF StateInv, TypeOK
      <4>4. QED
        BY <3>2, <4>3
    <3>3. QED
      BY <3>1, <3>2
  <2>2. QED
    BY <1>8, <2>0, <2>1
    DEF LogStep, StartsAreDue, GivesUpInTheLog, PassesInTheLog, HeldIsPassed, NeedsBreak,
        RefuseSimulatedReview, Admits, Stepping, RunnerEnds, Terminal
<1>9. QED
  BY <1>1, <1>2, <1>3, <1>4, <1>5, <1>6, <1>7, <1>8 DEF AtLoopHead

LEMMA ResumesLog ==
    ASSUME StateInv, HeldIsPassed, Resumes
    PROVE  LogStep
<1> USE RunnerKnows DEF Await
<1>1. CASE \/ PrepareStops \/ InvokeAdapter \/ SpawnCodex \/ AdapterRetries
           \/ ReviewStops \/ ReviewAccepts
           \/ \E verdict \in BOOLEAN : AdapterReturns(verdict)
  BY <1>1, NothingDone
  DEF PrepareStops, InvokeAdapter, SpawnCodex, AdapterRetries, ReviewStops, ReviewAccepts,
      AdapterReturns, RunnerEnds, RunnerAt
<1>2. CASE RetryProceeds
  BY <1>2, OneEventDone DEF RetryProceeds, EventType, row
<1>3. CASE \/ PrepareFails \/ AdapterFails \/ RetryFindsDrift
           \/ ReviewThrows \/ ReviewRefuses \/ CaptureFails
  <2>1. StepThrows
    BY <1>3 DEF PrepareFails, AdapterFails, RetryFindsDrift, ReviewThrows, ReviewRefuses,
       CaptureFails
  <2>2. QED
    BY <2>1, FailNodeDone DEF StepThrows, RunnerEnds
<1>4. CASE VerifyFindsDrift
  BY <1>4, FailExecutionDone DEF VerifyFindsDrift, RunnerEnds
<1>5. CASE VerifyConflicts
  BY <1>5, ThrowDone DEF VerifyConflicts
<1>6. CASE VerifyPasses
  BY <1>6, StartDone DEF VerifyPasses, RunnerAt, HeldIsPassed
<1>7. CASE SimulatedDone
  BY <1>7, NothingDone, CompleteDone DEF SimulatedDone, RunnerEnds, RunnerAt
<1>8. CASE CaptureCompletes
  BY <1>8, CompleteDone DEF CaptureCompletes, RunnerAt
<1>9. QED
  BY <1>1, <1>2, <1>3, <1>4, <1>5, <1>6, <1>7, <1>8 DEF Resumes

LEMMA HandlersLog ==
    ASSUME StateInv, HeldIsPassed, Handlers
    PROVE  LogStep
<1> USE OneEventDone DEF EventType, Active, Terminal
<1>1. CASE RequestPause
  BY <1>1 DEF RequestPause, process
<1>2. CASE CancelExecution
  BY <1>2 DEF CancelExecution
<1>3. CASE ResumePinned
  BY <1>3 DEF ResumePinned, Await
<1>4. CASE SupersedeWithSuccessor
  BY <1>4 DEF SupersedeWithSuccessor, process
<1>5. QED
  BY <1>1, <1>2, <1>3, <1>4 DEF Handlers

LEMMA EnvironmentLogs ==
    ASSUME StateInv, HeldIsPassed, Environment
    PROVE  LogStep
<1> USE DEF Await
<1>1. CASE Restart
  <2>1. pc' \notin Await
    BY <1>1 DEF Restart, StateInv, RunnerInv, AbortReaches
  <2>2. CASE status \notin Active
    BY <1>1, <2>1, <2>2, NothingDone DEF Restart
  <2>3. CASE status \in Active /\ Interrupted
    BY <1>1, <2>1, <2>3, FailExecutionDone DEF Restart
  <2>4. CASE status \in Active /\ ~Interrupted
    BY <1>1, <2>1, <2>4, OneEventDone DEF Restart, EventType, row
  <2>5. QED
    BY <2>2, <2>3, <2>4
<1>2. CASE ~Restart
  BY <1>2, NothingDone
  DEF Environment, CodexHangs, CodexReleased, PinsChange, WorkspaceEdited, Close, CloseEnds,
      Crash, RunnerAt, process
<1>3. QED
  BY <1>1, <1>2

\* The log keeps up with the row in every reachable state.
THEOREM Invariance == Spec => []IInv
<1>1. Init => LogInv /\ StartedOnce /\ BreakpointPausesFirst
  BY DEF Init, LogInv, StartedIsAccounted, PassedIsLogged, HeldIsPassed, StartedOnce,
     BreakpointPausesFirst, Await
<1>2. StateInv /\ LogInv /\ StartedOnce /\ BreakpointPausesFirst /\ [Next]_vars =>
          LogInv' /\ StartedOnce' /\ BreakpointPausesFirst'
  <2> SUFFICES ASSUME StateInv, LogInv, StartedOnce, BreakpointPausesFirst, [Next]_vars
               PROVE  LogStep
    BY LogKept
  <2> USE DEF LogInv
  <2>1. CASE UNCHANGED vars
    BY <2>1, NothingDone DEF vars, process
  <2>2. CASE Next
    BY <2>2, LoopHeadLogs, ResumesLog, HandlersLog, EnvironmentLogs DEF Next, Runner
  <2>3. QED
    BY <2>1, <2>2
<1>3. QED
  BY <1>1, <1>2, StateInvariance, PTL DEF Spec, IInv

\* No crash, replay, cancel or late result makes the runner record the start of a
\* node twice, unless a pause gave the node up in between.
THEOREM StartsOnce == Spec => []StartedOnce
<1>1. IInv => StartedOnce
  BY DEF IInv
<1>2. QED
  BY <1>1, Invariance, PTL

\* No node with a breakpoint starts before the execution has paused at it and has
\* been resumed, whatever crashes come in between.
THEOREM BreakpointsPause == Spec => []BreakpointPausesFirst
<1>1. IInv => BreakpointPausesFirst
  BY DEF IInv
<1>2. QED
  BY <1>1, Invariance, PTL

\* In a plan that is not simulated, a restart fails the execution that has a node of
\* Codex in flight.  (A plan whose provider is the simulation may have such nodes,
\* and then it does not: see the run mixed_plan_restart.)
THEOREM InterruptedFailsClosed ==
    ASSUME ~SimulatedPlan
    PROVE  Spec => InterruptedLiveNodeFailsClosed
<1>1. StateInv /\ [Next]_vars =>
          [server = "down" /\ server' = "up" /\ currentNodeId \in Live => status' = "FAILED"]_vars
  <2> SUFFICES ASSUME StateInv, Next, server = "down", server' = "up", currentNodeId \in Live
               PROVE  status' = "FAILED"
    BY DEF vars, process
  <2>1. currentNodeId # None /\ status \in Active
    BY NodeAssumption, ConfigurationAssumption DEF StateInv, RowInv, NodeInFlight
  <2>2. Restart
    <3>1. pc = "none"
      BY DEF StateInv, RunnerInv, AbortReaches
    <3>2. QED
      BY <3>1 DEF Next, Runner, AtLoopHead, Resumes, Handlers, Environment, Serving, AtHead,
         Stepping, Admits, LoopFindsClosed, PauseAtCheckpoint, LoopFindsInactive,
         CompleteExecution, LoopRejects, ReachBreakpoint, BeginVerify, StartSimulated,
         RefuseSimulatedReview, SimulatedDone, VerifyFindsDrift, VerifyPasses, VerifyConflicts,
         PrepareFails, PrepareStops, InvokeAdapter, SpawnCodex, AdapterReturns, AdapterFails,
         AdapterRetries, RetryFindsDrift, RetryProceeds, ReviewThrows, ReviewStops,
         ReviewRefuses, ReviewAccepts, CaptureFails, CaptureCompletes, RequestPause,
         CancelExecution, ResumePinned, SupersedeWithSuccessor, CodexHangs, CodexReleased,
         PinsChange, WorkspaceEdited, Close, CloseEnds, Crash, process
  <2>3. QED
    BY <2>1, <2>2 DEF Restart, Interrupted, FailExecution, Active, Terminal
<1>2. QED
  BY <1>1, StateInvariance, PTL DEF Spec, InterruptedLiveNodeFailsClosed

------------------------------------------------------------------------------
(***************************************************************************)
(* EngineShutdown: what close() waits for is enough, for any number of     *)
(* executions, requests and streams.                                       *)
(***************************************************************************)
LEMMA EngineInitIInv == EngineInit => EngineIInv
<1> SUFFICES ASSUME EngineInit PROVE EngineIInv
  OBVIOUS
<1>1. streams \in 0 .. MaxStreams /\ arrived \in 0 .. MaxRequests
  BY ShutdownAssumption DEF EngineInit
<1>2. EngineTypeOK
  BY <1>1 DEF EngineInit, EngineTypeOK, Codes
<1> QED  BY <1>2 DEF EngineInit, EngineIInv, RunsAreTold, Awaited, EngineClosed

\* The turn in which the engine is told to stop.
LEMMA StopKeeps ==
  ASSUME EngineIInv, NEW code \in {"0", "1"}, Stop(code), UNCHANGED <<listening, runners, handlers, storage, exit, late>>,
         start' \in {"binding", "serving", "failed"}
  PROVE  EngineIInv'
<1>1. Chats' = Chats  BY DEF Chats, handlers
<1>2. CASE stopping # "no"
  BY <1>1, <1>2 DEF EngineIInv, EngineTypeOK, RunsAreTold, Awaited, EngineClosed, Codes, Stop, handlers
<1>3. CASE stopping = "no"
  <2>1. stopping' = code /\ stage' = "chats" /\ waited' = Chats /\ told' = told \cup runners \cup Chats /\ streams' = 0
    BY <1>3 DEF Stop, StreamsEnded
  <2>2. EngineTypeOK'
    <3>1. Chats \subseteq Request  BY DEF Chats
    <3>2. streams' \in 0 .. MaxStreams  BY <2>1, ShutdownAssumption
    <3> QED  BY <1>3, <2>1, <3>1, <3>2 DEF EngineIInv, EngineTypeOK, Codes, handlers
  <2> QED  BY <1>1, <2>1, <2>2 DEF EngineIInv, RunsAreTold, Awaited, EngineClosed
<1> QED  BY <1>2, <1>3

\* What close() and start() do.
LEMMA ServerKeeps ==
  ASSUME EngineIInv, Signalled \/ Closing \/ Bound \/ BindFails
  PROVE  EngineIInv'
<1>1. CASE Signalled
  BY <1>1, StopKeeps DEF EngineIInv, EngineTypeOK, Signalled
<1>2. CASE ChatsEnd
  BY <1>2 DEF EngineIInv, EngineTypeOK, RunsAreTold, Awaited, EngineClosed, Chats, Codes, Alive, ChatsEnd, handlers
<1>3. CASE ShellsEnd
  BY <1>3 DEF EngineIInv, EngineTypeOK, RunsAreTold, Awaited, EngineClosed, Chats, Codes, Alive, ShellsEnd, handlers
<1>4. CASE ListenerEnds
  BY <1>4 DEF EngineIInv, EngineTypeOK, RunsAreTold, Awaited, EngineClosed, Chats, Codes, Alive, ListenerEnds, handlers
<1>5. CASE Exits
  BY <1>5 DEF EngineIInv, EngineTypeOK, RunsAreTold, Awaited, EngineClosed, Chats, Codes, Alive, Exits, RunnersDone, handlers
<1>6. CASE Bound
  BY <1>6 DEF EngineIInv, EngineTypeOK, RunsAreTold, Awaited, EngineClosed, Chats, Codes, Alive, Bound, Scheduled, handlers
<1>7. CASE BindFails
  BY <1>7, StopKeeps DEF BindFails
<1> QED  BY <1>1, <1>2, <1>3, <1>4, <1>5, <1>6, <1>7 DEF Closing

\* What clients do, and what they asked for.
LEMMA RequestsKeep ==
  ASSUME EngineIInv, NEW r \in Request,
         ClientLeaves(r) \/ Ends(r) \/ \E k \in {"call", "run", "chat"} : Arrives(r, k)
  PROVE  EngineIInv'
<1>1. ASSUME NEW k \in {"call", "run", "chat"}, Arrives(r, k)
      PROVE  EngineIInv'
  <2>1. EngineTypeOK'
    BY <1>1, ShutdownAssumption DEF EngineIInv, EngineTypeOK, Arrives, Codes
  <2>2. Chats' = IF k = "chat" THEN Chats \cup {r} ELSE Chats
    BY <1>1 DEF EngineIInv, EngineTypeOK, Arrives, Chats
  <2> QED  BY <1>1, <2>1, <2>2 DEF EngineIInv, RunsAreTold, Awaited, EngineClosed, Arrives
<1>2. CASE ClientLeaves(r)
  BY <1>2 DEF EngineIInv, EngineTypeOK, RunsAreTold, Awaited, EngineClosed, Chats, Codes, ClientLeaves
<1>3. CASE Ends(r)
  <2>1. EngineTypeOK'
    BY <1>3 DEF EngineIInv, EngineTypeOK, Ends, Scheduled, Codes
  <2>2. Chats' = Chats \ {r}
    BY <1>3 DEF EngineIInv, EngineTypeOK, Ends, Chats
  <2>3. (EngineClosed => runners' = runners) /\ UNCHANGED <<stage, waited, late>> /\ told' = told \ {r}
    BY <1>3 DEF Ends, Scheduled
  <2> QED  BY <2>1, <2>2, <2>3, ShutdownAssumption DEF EngineIInv, EngineTypeOK, RunsAreTold, Awaited, EngineClosed
<1> QED  BY <1>1, <1>2, <1>3

LEMMA OthersKeep ==
  ASSUME EngineIInv, Joins \/ StreamLeaves \/ \E e \in Execution : RunEnds(e)
  PROVE  EngineIInv'
<1>1. CASE Joins
  BY <1>1, ShutdownAssumption DEF EngineIInv, EngineTypeOK, RunsAreTold, Awaited, EngineClosed, Chats, Codes, Joins, handlers
<1>2. CASE StreamLeaves
  BY <1>2, ShutdownAssumption DEF EngineIInv, EngineTypeOK, RunsAreTold, Awaited, EngineClosed, Chats, Codes, StreamLeaves, handlers
<1>3. ASSUME NEW e \in Execution, RunEnds(e)
      PROVE  EngineIInv'
  BY <1>3 DEF EngineIInv, EngineTypeOK, RunsAreTold, Awaited, EngineClosed, Chats, Codes, RunEnds, handlers
<1> QED  BY <1>1, <1>2, <1>3

LEMMA EngineStutter == ASSUME EngineIInv, UNCHANGED engineVars PROVE EngineIInv'
  BY DEF EngineIInv, EngineTypeOK, RunsAreTold, Awaited, EngineClosed, Chats, Codes, engineVars, handlers

\* What close() waits for stays enough, whatever comes meanwhile.
THEOREM EngineInvariance == EngineSpec => []EngineIInv
<1>1. EngineInit => EngineIInv  BY EngineInitIInv
<1>2. EngineIInv /\ [EngineNext]_engineVars => EngineIInv'
  BY ServerKeeps, RequestsKeep, OthersKeep, EngineStutter DEF EngineNext
<1> QED  BY <1>1, <1>2, PTL DEF EngineSpec

\* The code behind it: close() aborts every runner in the turn in which it sets `closed`,
\* and scheduleExecution starts none afterwards.
THEOREM EveryRunIsTold == EngineSpec => [](EngineTypeOK /\ RunsAreTold)
<1>1. EngineIInv => EngineTypeOK /\ RunsAreTold  BY DEF EngineIInv
<1> QED  BY <1>1, EngineInvariance, PTL

\* The code behind it: the order of close(), and what each of its waits is for.
THEOREM StorageClosedLast == EngineSpec => []NobodyCutOff
<1>1. EngineIInv => NobodyCutOff  BY DEF EngineIInv, EngineTypeOK, Awaited, NobodyCutOff
<1> QED  BY <1>1, EngineInvariance, PTL
=============================================================================
