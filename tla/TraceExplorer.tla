---------------------------- MODULE TraceExplorer ----------------------------
(***************************************************************************)
(* The Trace Explorer: the pages of a graph's traces, the trace that is    *)
(* selected, and the answers that arrive for them.                         *)
(*                                                                         *)
(* A trace is a number: newer traces have greater ones.  A request reads   *)
(* the rows when it is served and is answered later.  An effect cancels    *)
(* the request of its last run: its answer is dropped.  The requests for   *)
(* more are not part of an effect.                                         *)
(***************************************************************************)
EXTENDS Naturals, Sequences, SequencesExt, FiniteSetsExt

CONSTANTS Graphs, None,
          Limit,        \* traces of a page
          MaxTraces     \* bound

ExplorerAssumption == Limit \in Nat \ {0} /\ None \notin Graphs

VARIABLES
    rows,        \* the traces: a sequence of the graphs they belong to
    graph,       \* the graph that is open
    traces, page, selected, detail,   \* what the panel shows
    list,        \* the request of the list effect, None when it is answered
    older,       \* the request for older traces
    ofDetail,    \* the trace the detail effect asks for
    more,        \* the trace whose further events are asked for
    raced        \* observer: "older" or "more" outlived what they were asked for

vars == <<rows, graph, traces, page, selected, detail, list, older, ofDetail, more, raced>>

NoPage == [hasMore |-> FALSE, nextBefore |-> None]

Init ==
    /\ rows = <<>> /\ graph \in Graphs
    /\ traces = <<>> /\ page = NoPage /\ selected = None /\ detail = None
    /\ list = [graph |-> graph, before |-> None, answer |-> None]
    /\ older = None /\ ofDetail = None /\ more = None /\ raced = FALSE

TypeOK ==
    /\ rows \in Seq(Graphs) /\ graph \in Graphs
    /\ ToSet(traces) \subseteq DOMAIN rows
    /\ \A n, m \in DOMAIN traces : traces[n] = traces[m] => n = m
    /\ {selected, detail, ofDetail, more} \subseteq DOMAIN rows \cup {None}

------------------------------------------------------------------------------
(***************************************************************************)
(* GET traces: newest first, after the cursor.                             *)
(***************************************************************************)
Newest(set)        == SetToSortSeq(set, LAMBDA t, u : t > u)
TracesOf(g)        == {t \in DOMAIN rows : rows[t] = g}

\* Mutant: the cursor's own trace is on the page again.
AfterCursorIncluded(g, before) == {t \in TracesOf(g) : before = None \/ t <= before}

AfterCursor(g, before) == {t \in TracesOf(g) : before = None \/ t < before}

\* Mutant: the cursor is the trace that was read beyond the page.
NextBeforeBeyond(all, items) == IF Len(all) > Limit THEN all[Limit + 1] ELSE None

\* One trace beyond the page says whether there are more.
NextBefore(all, items) == IF Len(all) > Limit THEN Last(items) ELSE None

Answer(g, before) ==
    LET all   == Newest(AfterCursor(g, before))
        items == SubSeq(all, 1, IF Len(all) < Limit THEN Len(all) ELSE Limit)
    IN [items |-> items, page |-> [hasMore |-> Len(all) > Limit, nextBefore |-> NextBefore(all, items)]]

TraceStarts(g) ==
    /\ Len(rows) < MaxTraces /\ rows' = Append(rows, g)
    /\ UNCHANGED <<graph, traces, page, selected, detail, list, older, ofDetail, more, raced>>

Served(request) == [request EXCEPT !.answer = Answer(request.graph, request.before)]
Unserved(request) == request # None /\ request.answer = None

Serves ==
    /\ \/ Unserved(list) /\ list' = Served(list) /\ UNCHANGED older
       \/ Unserved(older) /\ older' = Served(older) /\ UNCHANGED list
    /\ UNCHANGED <<rows, graph, traces, page, selected, detail, ofDetail, more, raced>>

------------------------------------------------------------------------------
\* Another graph is opened: the list and the detail are forgotten, the page is not.
OpensGraph(g) ==
    /\ g # graph /\ graph' = g
    /\ traces' = <<>> /\ selected' = None /\ detail' = None /\ ofDetail' = None
    /\ list' = [graph |-> g, before |-> None, answer |-> None]
    /\ raced' = (older # None \/ more # None)
    /\ UNCHANGED <<rows, page, older, more>>

\* A live event, or the button: both effects run again.
Refreshes ==
    /\ list' = [graph |-> graph, before |-> None, answer |-> None]
    /\ ofDetail' = selected
    /\ raced' = (raced \/ older # None)
    /\ UNCHANGED <<rows, graph, traces, page, selected, detail, older, more>>

\* Mutant: the selection falls back whenever the list is read.
SelectionFirst(items) == IF items = <<>> THEN None ELSE items[1]

\* The selection stays while it is on the page; or else it is one of the page.
Selection(items) ==
    IF selected \in ToSet(items) THEN selected ELSE IF items = <<>> THEN None ELSE items[1]

ListArrives ==
    /\ list # None /\ list.answer # None
    /\ traces' = list.answer.items /\ page' = list.answer.page
    /\ selected' = Selection(list.answer.items)
    /\ ofDetail' = IF selected' # selected THEN selected' ELSE ofDetail
    /\ detail' = IF selected' = None THEN None ELSE detail
    /\ list' = None
    /\ raced' = (raced \/ (more # None /\ selected' # selected))
    /\ UNCHANGED <<rows, graph, older, more>>

AsksOlder ==
    /\ page.hasMore /\ older = None
    /\ older' = [graph |-> graph, before |-> page.nextBefore, answer |-> None]
    /\ raced' = (raced \/ list # None)
    /\ UNCHANGED <<rows, graph, traces, page, selected, detail, list, ofDetail, more>>

\* Mutant: what is known is listed again.
AddedAgain(items) == traces \o items

\* What is known is not listed again.
Added(items) == traces \o SelectSeq(items, LAMBDA t : t \notin ToSet(traces))

OlderArrives ==
    /\ older # None /\ older.answer # None
    /\ traces' = Added(older.answer.items) /\ page' = older.answer.page /\ older' = None
    /\ UNCHANGED <<rows, graph, selected, detail, list, ofDetail, more, raced>>

Selects(t) ==
    /\ t \in ToSet(traces) /\ t # selected
    /\ selected' = t /\ ofDetail' = t
    /\ raced' = (raced \/ more # None)
    /\ UNCHANGED <<rows, graph, traces, page, detail, list, older, more>>

\* Mutant: the answer that is shown is that of any run of the effect.
DetailOfAny == {t \in DOMAIN rows : rows[t] = graph}

\* The effect's answer counts unless another run cancelled it.
DetailOf == {ofDetail}

DetailArrives ==
    /\ ofDetail # None
    /\ detail' \in DetailOf /\ ofDetail' = None
    /\ UNCHANGED <<rows, graph, traces, page, selected, list, older, more, raced>>

AsksMore ==
    /\ detail # None /\ more = None
    /\ more' = detail
    /\ raced' = (raced \/ detail # selected \/ ofDetail # None)
    /\ UNCHANGED <<rows, graph, traces, page, selected, detail, list, older, ofDetail>>

\* It replaces the detail of another trace.
MoreArrives ==
    /\ more # None /\ detail' = more /\ more' = None
    /\ UNCHANGED <<rows, graph, traces, page, selected, list, older, ofDetail, raced>>

Next ==
    \/ \E g \in Graphs : TraceStarts(g) \/ OpensGraph(g)
    \/ Serves \/ Refreshes \/ ListArrives \/ AsksOlder \/ OlderArrives
    \/ \E t \in ToSet(traces) : Selects(t)
    \/ DetailArrives \/ AsksMore \/ MoreArrives

Spec == Init /\ [][Next]_vars

------------------------------------------------------------------------------
\* "Page stable newest-first plan and execution trace history": whatever starts between
\* two pages, the list is one stretch of the graph's traces, without gaps, and the end
\* of it is the end of the history when there is no more.
PagesAreStable ==
    ~raced /\ list = None /\ traces # <<>> =>
        /\ traces = Newest({t \in TracesOf(graph) : t <= traces[1] /\ t >= Last(traces)})
        /\ ~page.hasMore => ~\E t \in TracesOf(graph) : t < Last(traces)

\* The detail that stays is that of the selected trace.
DetailIsSelected ==
    ~raced /\ list = None /\ ofDetail = None /\ more = None => detail = selected

SelectionStaysStep ==
    (ListArrives /\ selected \in ToSet(list.answer.items)) => UNCHANGED selected

\* A refresh alone never moves the selection within the page.
SelectionStays == [][SelectionStaysStep]_vars
==============================================================================
