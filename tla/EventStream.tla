----------------------------- MODULE EventStream -----------------------------
(***************************************************************************)
(* The events of one execution, from the table in which the server stores  *)
(* them to the list the workbench shows.                                   *)
(*                                                                         *)
(* An event is stored and written to the connected streams in one turn.  A *)
(* stream that connects is sent what is stored after the larger of its     *)
(* query and its Last-Event-ID.  The workbench listens for a fixed list of *)
(* types; only those move its cursor.  The answers to its own pause and    *)
(* cancel requests travel on other connections than the stream.            *)
(*                                                                         *)
(* An event stands for its type and for the status of the row when it was  *)
(* stored; its sequence is its position in the log.                        *)
(***************************************************************************)
EXTENDS Naturals, Sequences, SequencesExt

CONSTANTS MaxEvents,   \* bound of the log
          MaxLosses    \* bound of lost connections and restarts

StreamAssumption == MaxEvents \in Nat \ {0} /\ MaxLosses \in Nat

VARIABLES
    log,        \* execution_events; its last entry has the row's status
    conn,       \* the EventSource: "closed", "connecting" or "open"
    wire,       \* sequences written to the connection and not yet received
    query,      \* the `after` of its URL
    lastId,     \* the Last-Event-ID the browser keeps for it
    cursor,     \* cursorByExecutionRef; 0 when it has none
    events,     \* the list shown
    shown,      \* the status of activeExecution, "none" without one
    loading,    \* loadGraph has not yet shown the history
    snapshot,   \* the last sequence of a history that was fetched, 0 if none
    pause, cancel,   \* a request: "none", "sent", or the status it is answered with
    losses

vars == <<log, conn, wire, query, lastId, cursor, events, shown, loading, snapshot, pause, cancel,
          losses>>

Active   == {"running", "pause_requested", "paused"}
Terminal == {"completed", "failed", "cancelled"}
Event    == [type : {"status", "node", "trace"}, status : Active \cup Terminal]

TypeOK ==
    /\ log \in Seq(Event) /\ Len(log) \in 1 .. MaxEvents
    /\ conn \in {"closed", "connecting", "open"}
    /\ conn # "closed" <=> shown \in Active
    /\ wire \in Seq(DOMAIN log) /\ events \in Seq(DOMAIN log)
    /\ {query, lastId, cursor, snapshot} \subseteq 0 .. Len(log)
    /\ shown \in Active \cup Terminal \cup {"none"}
    /\ loading \in BOOLEAN
    /\ pause \in {"none", "sent", "pause_requested"}
    /\ cancel \in {"none", "sent", "cancelled"}
    /\ losses \in 0 .. MaxLosses

Init ==
    /\ log = <<[type |-> "status", status |-> "running"]>>
    /\ conn = "closed" /\ wire = <<>> /\ query = 0 /\ lastId = 0
    /\ cursor = 0 /\ events = <<>> /\ shown = "none" /\ loading = TRUE /\ snapshot = 0
    /\ pause = "none" /\ cancel = "none" /\ losses = 0

status == Last(log).status

\* EVENT_TYPES.
Heard(e) == e.type = "node" \/ (e.type = "status" /\ e.status # "cancelled")

After(q, id) == IF q > id THEN q ELSE id

Following(n) == [i \in 1 .. Len(log) - n |-> n + i]

------------------------------------------------------------------------------
\* Mutant: after a status the execution has ended with, nothing is published.
StoreQuietly(type, s) ==
    /\ Len(log) < MaxEvents
    /\ log' = Append(log, [type |-> type, status |-> s])
    /\ wire' = IF conn = "open" /\ s \in Active THEN Append(wire, Len(log')) ELSE wire

\* appendEvent, publish.
Store(type, s) ==
    /\ Len(log) < MaxEvents
    /\ log' = Append(log, [type |-> type, status |-> s])
    /\ wire' = IF conn = "open" THEN Append(wire, Len(log')) ELSE wire

Transitions == {<<"running", "pause_requested">>, <<"running", "completed">>, <<"running", "failed">>,
                <<"pause_requested", "paused">>, <<"pause_requested", "failed">>,
                <<"paused", "running">>, <<"running", "cancelled">>,
                <<"pause_requested", "cancelled">>, <<"paused", "cancelled">>}

\* The runner, or another window of the workbench.
RowMoves(s) ==
    /\ <<status, s>> \in Transitions
    /\ Store("status", s)
    /\ UNCHANGED <<conn, query, lastId, cursor, events, shown, loading, snapshot, pause, cancel, losses>>

NodeMoves ==
    /\ status \in {"running", "pause_requested"}
    /\ Store("node", status)
    /\ UNCHANGED <<conn, query, lastId, cursor, events, shown, loading, snapshot, pause, cancel, losses>>

\* Spans are ended after the row has come to rest as well.
TraceMoves ==
    /\ Store("trace", status)
    /\ UNCHANGED <<conn, query, lastId, cursor, events, shown, loading, snapshot, pause, cancel, losses>>

------------------------------------------------------------------------------
\* Mutant: a stream is registered after what it missed was read, and waits in between.
ConnectsLate ==
    /\ conn = "connecting"
    /\ conn' = "open"
    /\ \E n \in After(query, lastId) .. Len(log) : wire' = SubSeq(Following(After(query, lastId)), 1, n - After(query, lastId))
    /\ UNCHANGED <<log, query, lastId, cursor, events, shown, loading, snapshot, pause, cancel, losses>>

\* GET events: registers the client and replays, page by page, in one turn.
Connects ==
    /\ conn = "connecting"
    /\ conn' = "open"
    /\ wire' = Following(After(query, lastId))
    /\ UNCHANGED <<log, query, lastId, cursor, events, shown, loading, snapshot, pause, cancel, losses>>

\* The connection breaks or the server restarts; what was on the wire is lost.
Loses ==
    /\ conn = "open" /\ losses < MaxLosses
    /\ conn' = "connecting" /\ wire' = <<>> /\ losses' = losses + 1
    /\ UNCHANGED <<log, query, lastId, cursor, events, shown, loading, snapshot, pause, cancel>>

\* The effect of useExecutionStream after a commit: a stream is open while the
\* execution is active, and begins where the cursor, or else the list, ends.
Commit(new, list, at) ==
    /\ shown' = new /\ events' = list /\ cursor' = at
    /\ CASE shown \notin Active /\ new \in Active ->
                /\ conn' = "connecting" /\ wire' = <<>> /\ lastId' = 0
                /\ query' = IF at # 0 THEN at ELSE IF list = <<>> THEN 0 ELSE Last(list)
         [] shown \in Active /\ new \notin Active ->
                conn' = "closed" /\ wire' = <<>> /\ lastId' = 0 /\ query' = 0
         [] OTHER -> UNCHANGED <<conn, query>>

\* Mutant: an event is shown each time it is received.
ListedTwice(list, s) == Append(list, s)

Listed(list, s) == IF s \in Range(list) THEN list ELSE Append(list, s)

\* handleExecutionEvent: a status the execution has ended with stays.
Received(e) == IF e.type # "status" \/ shown \in Terminal THEN shown ELSE e.status

Delivers ==
    /\ conn = "open" /\ wire # <<>>
    /\ LET s == Head(wire) IN
          IF Heard(log[s])
          THEN /\ Commit(Received(log[s]), Listed(events, s), s)
               /\ conn' # "closed" => wire' = Tail(wire) /\ lastId' = s
          ELSE /\ wire' = Tail(wire) /\ lastId' = s
               /\ UNCHANGED <<conn, query, cursor, events, shown>>
    /\ UNCHANGED <<log, loading, snapshot, pause, cancel, losses>>

------------------------------------------------------------------------------
\* loadGraph, of another graph and back, or in a window that is opened anew.
Leaves ==
    /\ ~loading /\ pause = "none"
    /\ \E at \in {cursor, 0} : Commit("none", <<>>, at)
    /\ shown \notin Active => UNCHANGED <<wire, lastId>>
    /\ loading' = TRUE /\ snapshot' = 0
    /\ UNCHANGED <<log, pause, cancel, losses>>

\* GET /api/executions/:id answers page after page, while there is more: the last
\* ends where the log does.
PagesEnd == Len(log)

\* Mutant: the next page begins one event too late.
FetchesPast ==
    /\ loading /\ snapshot = 0
    /\ snapshot' = PagesEnd + 1
    /\ UNCHANGED <<log, conn, wire, query, lastId, cursor, events, shown, loading, pause, cancel, losses>>

\* getExecutionHistory
Fetches ==
    /\ loading /\ snapshot = 0
    /\ snapshot' = PagesEnd
    /\ UNCHANGED <<log, conn, wire, query, lastId, cursor, events, shown, loading, pause, cancel, losses>>

Loads ==
    /\ loading /\ snapshot # 0
    /\ Commit(log[snapshot].status, [i \in 1 .. snapshot |-> i], cursor)
    /\ log[snapshot].status \notin Active => UNCHANGED <<wire, lastId>>
    /\ loading' = FALSE /\ snapshot' = 0
    /\ UNCHANGED <<log, pause, cancel, losses>>

PauseSent ==
    /\ shown = "running" /\ pause = "none"
    /\ pause' = "sent"
    /\ UNCHANGED <<log, conn, wire, query, lastId, cursor, events, shown, loading, snapshot, cancel, losses>>

CancelSent ==
    /\ shown \in Active /\ pause = "none" /\ cancel = "none"
    /\ cancel' = "sent"
    /\ UNCHANGED <<log, conn, wire, query, lastId, cursor, events, shown, loading, snapshot, pause, losses>>

PauseHandled ==
    /\ pause = "sent"
    /\ CASE status = "running" -> Store("status", "pause_requested") /\ pause' = "pause_requested"
         [] status = "pause_requested" -> pause' = "pause_requested" /\ UNCHANGED <<log, wire>>
         [] OTHER -> pause' = "none" /\ UNCHANGED <<log, wire>>
    /\ UNCHANGED <<conn, query, lastId, cursor, events, shown, loading, snapshot, cancel, losses>>

CancelHandled ==
    /\ cancel = "sent"
    /\ CASE status \in Active -> Store("status", "cancelled") /\ cancel' = "cancelled"
         [] status = "cancelled" -> cancel' = "cancelled" /\ UNCHANGED <<log, wire>>
         [] OTHER -> cancel' = "none" /\ UNCHANGED <<log, wire>>
    /\ UNCHANGED <<conn, query, lastId, cursor, events, shown, loading, snapshot, pause, losses>>

\* setActiveExecution of an answer, whatever has been shown since.
Answered(answer) ==
    /\ Commit(answer, events, cursor)
    /\ (shown \in Active <=> answer \in Active) => UNCHANGED <<wire, lastId>>
    /\ UNCHANGED <<log, loading, snapshot, losses>>

PauseAnswered == pause = "pause_requested" /\ pause' = "none" /\ Answered(pause) /\ UNCHANGED cancel
CancelAnswered == cancel = "cancelled" /\ cancel' = "none" /\ Answered(cancel) /\ UNCHANGED pause

Next ==
    \/ \E s \in Active \cup Terminal : RowMoves(s)
    \/ NodeMoves \/ TraceMoves
    \/ Connects \/ Loses \/ Delivers
    \/ Leaves \/ Fetches \/ Loads
    \/ PauseSent \/ CancelSent \/ PauseHandled \/ CancelHandled \/ PauseAnswered \/ CancelAnswered

\* The browser reconnects and hands over what it has received; requests are answered.
Fairness ==
    /\ WF_vars(Connects) /\ WF_vars(Delivers) /\ WF_vars(Fetches) /\ WF_vars(Loads)
    /\ WF_vars(PauseHandled) /\ WF_vars(CancelHandled)
    /\ WF_vars(PauseAnswered) /\ WF_vars(CancelAnswered)

Spec == Init /\ [][Next]_vars /\ Fairness

------------------------------------------------------------------------------
\* projectExecutionDisplay: what has ended is read from the events as well.
Shows(s) == shown = s \/ \E i \in Range(events) : log[i] = [type |-> "status", status |-> s]

\* Mutant: only the status that was answered counts.
DisplayedOfStatus == shown

Displayed ==
    IF shown = "none" THEN "none"
    ELSE IF Shows("cancelled") THEN "cancelled"
    ELSE IF Shows("failed") THEN "failed"
    ELSE IF Shows("completed") THEN "completed" ELSE shown

\* "Replay ordered SSE events": however connections break and answers race, events
\* are shown in the order in which they were stored, each once.
ShownInOrder == \A i, j \in DOMAIN events : i < j => events[i] < events[j]

\* No event the workbench listens for is passed over: what lies before the cursor
\* is shown or is still in the history that is being loaded.
NothingPassedOver ==
    ~loading => \A s \in 1 .. cursor : Heard(log[s]) => s \in Range(events)

FailureStaysDisplayedStep == Displayed = "failed" => Displayed' \in {"failed", "none"}

\* "A replay or late completion must never hide a terminal failure": neither may an
\* answer that was overtaken by the stream.
FailureStaysDisplayed == [][FailureStaysDisplayedStep]_vars

\* What is stored while the workbench follows the execution reaches it.
EventsArrive ==
    \A s \in 1 .. MaxEvents :
        (s \in DOMAIN log /\ Heard(log[s])) ~> (s \in Range(events) \/ shown \notin Active)

\* The workbench maps 'execution.cancelled' to a status: a run that is cancelled in
\* another window is shown as cancelled.
CancelIsShown == (status = "cancelled") ~> (Displayed = "cancelled")
==============================================================================
