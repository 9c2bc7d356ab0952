--------------------------- MODULE EngineShutdown ---------------------------
(***************************************************************************)
(* The process of the engine from its start to its exit: the signals, the  *)
(* one close() that whoever stops it waits for, and the requests, streams, *)
(* chats and runners that close() ends in turn.                            *)
(*                                                                         *)
(* close() gives up its turn four times; between them requests arrive as   *)
(* long as the listener is open, and handlers do not look at `closed`,     *)
(* except those of the shells, which Terminals follows.  A handler goes on *)
(* when its client has gone; then the listener does not wait for it.  A    *)
(* killed process closes nothing: that is ExecutionRunner's Crash.         *)
(***************************************************************************)
EXTENDS Naturals, FiniteSets

CONSTANTS Execution, Request,
          MaxRequests,   \* bound of the requests
          MaxStreams     \* bound of the streams

ASSUME ShutdownAssumption ==
    /\ MaxRequests \in Nat /\ MaxStreams \in Nat /\ Execution \cap Request = {}

VARIABLES
    start,       \* start(): "binding", "serving", or "failed"
    stopping,    \* the exit code stop() was first called with, "no" before
    stage,       \* what close() waits for, "open" before it is called
    waited,      \* the chats or the runners it waits for
    listening,
    runners,     \* runnerPromises
    told,        \* the runners and chats whose signal is aborted
    request,     \* the handlers that have not ended: "call", "run", "chat"
    gone,        \* those whose client has left
    streams,     \* event streams that are open
    arrived,     \* the number of requests that came
    storage,     \* "open" or "closed"
    exit,        \* the exit code, "no" before
    late         \* observer: "stream" or "chat" when one came after close() had ended them all

handlers   == <<request, gone, arrived>>
engineVars == <<start, stopping, stage, waited, listening, runners, told, request, gone, streams,
                arrived, storage, exit, late>>

Codes        == {"no", "0", "1"}
Alive        == exit = "no"
EngineClosed == stage # "open"
Chats        == {r \in Request : request[r] = "chat"}

EngineTypeOK ==
    /\ start \in {"binding", "serving", "failed"} /\ {stopping, exit} \subseteq Codes
    /\ stage \in {"open", "chats", "shells", "listener", "runners", "closed"}
    /\ waited \subseteq Request \cup Execution /\ told \subseteq Request \cup Execution
    /\ listening \in BOOLEAN /\ runners \subseteq Execution
    /\ request \in [Request -> {"none", "call", "run", "chat"}]
    /\ gone \subseteq {r \in Request : request[r] # "none"}
    /\ streams \in 0 .. MaxStreams /\ arrived \in 0 .. MaxRequests /\ late \subseteq {"stream", "chat"}
    /\ storage = "closed" <=> stage = "closed"
    /\ stopping = "no" <=> stage = "open"

EngineInit ==
    /\ start = "binding" /\ stopping = "no" /\ stage = "open" /\ waited = {} /\ listening = FALSE
    /\ runners = {} /\ told = {} /\ request = [r \in Request |-> "none"] /\ gone = {} /\ streams = 0
    /\ arrived = 0 /\ storage = "open" /\ exit = "no" /\ late = {}

------------------------------------------------------------------------------
(* close()                                                                 *)

\* Mutant: the streams of the traces are not ended.
StreamsForgotten == streams

StreamsEnded == 0

\* stop(): the first caller closes, and a later one does not even wait.
Stop(code) ==
    IF stopping # "no" THEN UNCHANGED <<stopping, stage, waited, told, streams>>
    ELSE /\ stopping' = code /\ stage' = "chats"
         /\ waited' = Chats /\ told' = told \cup runners \cup Chats
         /\ streams' = StreamsEnded

Signalled ==
    /\ Alive /\ stopping = "no" /\ Stop("0")
    /\ UNCHANGED <<start, listening, runners, handlers, storage, exit, late>>

ChatsEnd ==
    /\ Alive /\ stage = "chats" /\ waited \cap Chats = {}
    /\ stage' = "shells"
    /\ UNCHANGED <<start, stopping, waited, listening, runners, told, handlers, streams, storage, exit, late>>

\* The shells end or have had their 700 ms; then nobody is let in any more.
ShellsEnd ==
    /\ Alive /\ stage = "shells"
    /\ IF listening THEN stage' = "listener" /\ listening' = FALSE /\ UNCHANGED waited
       ELSE stage' = "runners" /\ waited' = runners /\ UNCHANGED listening
    /\ UNCHANGED <<start, stopping, runners, told, handlers, streams, storage, exit, late>>

\* server.close() calls back when the last connection has ended.
ListenerEnds ==
    /\ Alive /\ stage = "listener"
    /\ streams = 0 /\ \A r \in Request : request[r] # "none" => r \in gone
    /\ stage' = "runners" /\ waited' = runners
    /\ UNCHANGED <<start, stopping, listening, runners, told, handlers, streams, storage, exit, late>>

\* Mutant: the runners are not waited for.
RunnersLeft == TRUE

RunnersDone == waited \cap runners = {}

\* The storage is closed, and stop() exits.
Exits ==
    /\ Alive /\ stage = "runners" /\ RunnersDone
    /\ stage' = "closed" /\ storage' = "closed" /\ exit' = stopping
    /\ UNCHANGED <<start, stopping, waited, listening, runners, told, handlers, streams, late>>

------------------------------------------------------------------------------
(* start()                                                                 *)

\* Mutant: what is started is not told that the server has closed.
ScheduledAlways(es) == runners \cup es

\* scheduleExecution
Scheduled(es) == IF EngineClosed THEN runners ELSE runners \cup es

\* The listener is open, and what the last process left is taken up in the same turn;
\* close() may have begun, and have found nothing to close.
Bound ==
    /\ Alive /\ start = "binding"
    /\ listening' = TRUE
    /\ start' = "serving" /\ \E es \in SUBSET Execution : runners' = Scheduled(es)
    /\ UNCHANGED <<stopping, stage, waited, told, handlers, streams, storage, exit, late>>

BindFails ==
    /\ Alive /\ start = "binding"
    /\ start' = "failed" /\ Stop("1")
    /\ UNCHANGED <<listening, runners, handlers, storage, exit, late>>

------------------------------------------------------------------------------
(* Requests                                                                *)

Arrives(r, kind) ==
    /\ Alive /\ listening /\ request[r] = "none" /\ arrived < MaxRequests
    /\ request' = [request EXCEPT ![r] = kind] /\ arrived' = arrived + 1
    /\ late' = IF kind = "chat" /\ EngineClosed THEN late \cup {kind} ELSE late
    /\ UNCHANGED <<start, stopping, stage, waited, listening, runners, told, gone, streams, storage, exit>>

\* A chat stops when its client leaves.
ClientLeaves(r) ==
    /\ Alive /\ request[r] # "none" /\ r \notin gone
    /\ gone' = gone \cup {r} /\ told' = IF r \in Chats THEN told \cup {r} ELSE told
    /\ UNCHANGED <<start, stopping, stage, waited, listening, runners, request, streams, arrived, storage, exit, late>>

\* Mutant: the client that left is remembered.
EndsForClient(r) ==
    /\ Alive /\ request[r] # "none"
    /\ request' = [request EXCEPT ![r] = "none"]
    /\ UNCHANGED <<start, stopping, stage, waited, listening, runners, told, gone, streams, arrived, storage, exit, late>>

Ends(r) ==
    /\ Alive /\ request[r] # "none"
    /\ IF request[r] = "run" THEN \E e \in Execution : runners' = Scheduled({e}) ELSE UNCHANGED runners
    /\ request' = [request EXCEPT ![r] = "none"] /\ gone' = gone \ {r} /\ told' = told \ {r}
    /\ UNCHANGED <<start, stopping, stage, waited, listening, streams, arrived, storage, exit, late>>

Joins ==
    /\ Alive /\ listening /\ streams < MaxStreams
    /\ streams' = streams + 1 /\ late' = IF EngineClosed THEN late \cup {"stream"} ELSE late
    /\ UNCHANGED <<start, stopping, stage, waited, listening, runners, told, handlers, storage, exit>>

StreamLeaves ==
    /\ Alive /\ streams > 0 /\ streams' = streams - 1
    /\ UNCHANGED <<start, stopping, stage, waited, listening, runners, told, handlers, storage, exit, late>>

\* A run ends by itself, or because it was told to.
RunEnds(e) ==
    /\ Alive /\ e \in runners
    /\ runners' = runners \ {e} /\ told' = told \ {e}
    /\ UNCHANGED <<start, stopping, stage, waited, listening, handlers, streams, storage, exit, late>>

Closing == ChatsEnd \/ ShellsEnd \/ ListenerEnds \/ Exits

EngineNext ==
    \/ Signalled \/ Closing \/ Bound \/ BindFails \/ Joins \/ StreamLeaves
    \/ \E r \in Request : ClientLeaves(r) \/ Ends(r) \/ \E k \in {"call", "run", "chat"} : Arrives(r, k)
    \/ \E e \in Execution : RunEnds(e)

\* What was told to stop ends, and so does a handler of another request (CodexChild has the
\* planner that may not).
EngineFairness ==
    /\ WF_engineVars(Closing)
    /\ \A r \in Request : WF_engineVars(Ends(r) /\ (r \in told \/ request[r] # "chat"))
    /\ \A e \in Execution : WF_engineVars(RunEnds(e) /\ e \in told)

EngineSpec == EngineInit /\ [][EngineNext]_engineVars /\ EngineFairness

------------------------------------------------------------------------------
\* "During app shutdown: await service.close()": storage is closed only when no run and no
\* chat has still to record how it ended, whoever's client had gone and whatever start()
\* took up meanwhile; only a chat that came after close() had stopped them may be cut off.
NobodyCutOff == storage = "closed" => runners = {} /\ (Chats = {} \/ "chat" \in late)

\* A run that is under way while the engine closes has been told to stop.
RunsAreTold == EngineClosed => runners \subseteq told

\* Closing ends, unless a stream or a chat came after close() had ended those it knew.
ClosingEnds == EngineClosed ~> (~Alive \/ late # {})

------------------------------------------------------------------------------
(***************************************************************************)
(* What close() waits for is enough for any number of executions, requests *)
(* and streams.  It waits for the chats and runners it found; that no more *)
(* of them come, or that a chat which did is known to be late, is what the *)
(* invariant adds.                                                         *)
(***************************************************************************)
Awaited ==
    /\ stage = "chats" => Chats \subseteq waited \/ "chat" \in late
    /\ stage \in {"shells", "listener", "runners", "closed"} => Chats = {} \/ "chat" \in late
    /\ stage = "runners" => runners \subseteq waited
    /\ stage = "closed" => runners = {}

EngineIInv == EngineTypeOK /\ RunsAreTold /\ Awaited
=============================================================================
