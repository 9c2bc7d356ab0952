------------------------------- MODULE Traces -------------------------------
(***************************************************************************)
(* The traces of one graph: the observer of an operation, the rows it      *)
(* writes, and the stream on which a workbench follows them.               *)
(*                                                                         *)
(* A repository call is one transaction, and observe() turns a call that   *)
(* fails into nothing.  A span's key is in the observer's map while the    *)
(* operation means it to be open.  The log is trace_events; a sequence is  *)
(* a position in it.                                                       *)
(***************************************************************************)
EXTENDS Naturals, Sequences, SequencesExt, FiniteSets

CONSTANTS Traces,
          Executions,      \* the traces of executions; the others are of plans
          Keys,            \* of the spans an operation opens below its root
          ParentKey,       \* the key under which each of them is opened
          MaxSpans, MaxEvents, MaxFailures   \* bounds: spans of a trace, span events, failures and lost connections

TracesAssumption == "root" \notin Keys /\ Executions \subseteq Traces /\ ParentKey \in [Keys -> Keys \cup {"root"}]

VARIABLES
    db,         \* the rows: trace -> status and root, the spans, the log
    observer,   \* trace -> the keys that are open and their spans; no "root": no observer
    operation,  \* trace -> "none", "running", how it ended, or "left" by the process before
    stream,     \* the EventSource: whether it is open, its cursor, what it was sent
    failures

tracesVars == <<db, observer, operation, stream, failures>>

SpanStatuses == {"RUNNING", "OK", "ERROR", "CANCELLED"}
Outcomes     == {"OK", "ERROR"}
AllKeys      == Keys \cup {"root"}

Span  == [trace : Traces, parent : Nat, status : SpanStatuses, auto : BOOLEAN]
Event == [type : {"trace.started", "span.started", "span.event", "span.ended", "trace.ended"},
          trace : Traces, span : Nat, returned : BOOLEAN]
Rows  == [traces : [Traces -> [status : SpanStatuses \cup {"none"}, root : Nat]], spans : Seq(Span), log : Seq(Event)]

TracesTypeOK ==
    /\ db \in Rows
    /\ observer \in [Traces -> UNION {[open -> DOMAIN db.spans] : open \in SUBSET AllKeys}]
    /\ operation \in [Traces -> {"none", "running", "left"} \cup Outcomes]
    /\ stream \in [open : BOOLEAN, cursor : 0 .. Len(db.log), sent : SUBSET (1 .. Len(db.log))]
    /\ failures \in Nat

NoKeys == [k \in {} |-> 0]

TracesInit ==
    /\ db = [traces |-> [t \in Traces |-> [status |-> "none", root |-> 0]], spans |-> <<>>, log |-> <<>>]
    /\ observer = [t \in Traces |-> NoKeys] /\ operation = [t \in Traces |-> "none"]
    /\ stream = [open |-> FALSE, cursor |-> 0, sent |-> {}] /\ failures = 0

------------------------------------------------------------------------------
(***************************************************************************)
(* Repository transactions: what the rows are afterwards.                  *)
(***************************************************************************)
TraceEnded(d, t)  == d.traces[t].status \notin {"none", "RUNNING"}
SpanEnded(d, s)   == d.spans[s].status # "RUNNING"
SpansOf(d, t)     == {s \in DOMAIN d.spans : d.spans[s].trace = t}
OpenSpans(d, t)   == {s \in SpansOf(d, t) : ~SpanEnded(d, s)}

\* _appendTraceEvent.  What endTrace appends for a span it closes is not returned.
Logged(d, type, t, s, returned) ==
    [d EXCEPT !.log = Append(@, [type |-> type, trace |-> t, span |-> s, returned |-> returned])]

CreateTrace(d, t) == Logged([d EXCEPT !.traces[t].status = "RUNNING"], "trace.started", t, 0, TRUE)

\* Mutant: a span may be opened in a trace that has ended.
MayStartAny(d, t, parent) == TRUE

MayStart(d, t, parent) == ~TraceEnded(d, t) /\ (parent # 0 => d.spans[parent].trace = t)

StartSpan(d, t, parent) ==
    LET s == Len(d.spans) + 1
        opened == [d EXCEPT !.spans = Append(@, [trace |-> t, parent |-> parent, status |-> "RUNNING", auto |-> FALSE]),
                            !.traces[t].root = IF parent = 0 THEN s ELSE @]
    IN Logged(opened, "span.started", t, s, TRUE)

\* Spans of a trace end, one after another: the rows, and an event for each of them.
EndSpans(d, t, spans, status, auto, returned) ==
    [d EXCEPT !.spans = [s \in DOMAIN d.spans |->
                  IF s \in spans THEN [d.spans[s] EXCEPT !.status = status, !.auto = auto] ELSE d.spans[s]],
              !.log = @ \o [n \in 1 .. Cardinality(spans) |->
                  [type |-> "span.ended", trace |-> t, span |-> SetToSeq(spans)[n], returned |-> returned]]]

\* Mutant: a span ends as often as it is asked to.
EndSpanAgain(d, s, status) == EndSpans(d, d.spans[s].trace, {s}, status, FALSE, TRUE)

\* A span that has ended stays as it is.
EndSpan(d, s, status) == IF SpanEnded(d, s) THEN d ELSE EndSpans(d, d.spans[s].trace, {s}, status, FALSE, TRUE)

\* Mutant: spans that were forgotten stay open.
ClosedNone(d, t, status) == d

\* Spans that were forgotten are closed with the trace, ...
Closed(d, t, status) ==
    EndSpans(d, t, OpenSpans(d, t), IF status = "CANCELLED" THEN "CANCELLED" ELSE "ERROR", TRUE, FALSE)

\* Mutant: ... which may say OK all the same.
TerminalStatusAsked(d, t, status) == status

\* ... which is then no success.
TerminalStatus(d, t, status) == IF status = "OK" /\ OpenSpans(d, t) # {} THEN "ERROR" ELSE status

EndTrace(d, t, status) ==
    IF TraceEnded(d, t) THEN d
    ELSE Logged([Closed(d, t, status) EXCEPT !.traces[t].status = TerminalStatus(d, t, status)],
                "trace.ended", t, d.traces[t].root, TRUE)

------------------------------------------------------------------------------
\* Mutant: a sequence is published that is not stored yet.
PublishedAhead(d, new) == Len(d.log) + 1 .. Len(new.log) + 1

\* Mutant: the end of a span is not published.
PublishedStarts(d, new) == {n \in Len(d.log) + 1 .. Len(new.log) : new.log[n].returned /\ new.log[n].type # "span.ended"}

\* observe(): what the call returned is published.
Published(d, new) == {n \in Len(d.log) + 1 .. Len(new.log) : new.log[n].returned}

CallsWrite(new) ==
    /\ db' = new
    /\ IF ~stream.open \/ Published(db, new) = {} THEN UNCHANGED stream
       ELSE \E last \in Published(db, new) :
               /\ \A n \in Published(db, new) : n <= last
               /\ stream' = [open |-> TRUE, cursor |-> last, sent |-> stream.sent \cup Published(db, new)]

\* Calls fail within the bound.
CallsFail(n) == failures + n <= MaxFailures /\ failures' = failures + n
CallsWork    == UNCHANGED failures

\* beginTrace: without a root there is no observer, and the operation goes on.
BeginTrace(t) ==
    /\ operation[t] = "none"
    /\ operation' = [operation EXCEPT ![t] = "running"]
    /\ LET created == CreateTrace(db, t)
           rooted == StartSpan(created, t, 0)
       IN \/ CallsWork /\ CallsWrite(rooted) /\ observer' = [observer EXCEPT ![t] = [k \in {"root"} |-> Len(rooted.spans)]]
          \/ CallsFail(1) /\ UNCHANGED <<db, stream, observer>>
          \/ CallsFail(1) /\ CallsWrite(EndTrace(created, t, "ERROR")) /\ UNCHANGED observer
          \/ CallsFail(2) /\ CallsWrite(created) /\ UNCHANGED observer

\* Mutant: a span whose parent's key is not open has no parent.
ParentOfOpen(t, k) == IF ParentKey[k] \in DOMAIN observer[t] THEN observer[t][ParentKey[k]] ELSE 0

\* startSpan: a key that is open is joined; the parent is the root unless its key is open.
ParentOf(t, k) == IF ParentKey[k] \in DOMAIN observer[t] THEN observer[t][ParentKey[k]] ELSE db.traces[t].root

Observed(t) == operation[t] = "running" /\ "root" \in DOMAIN observer[t]

StartsSpan(t, k) ==
    /\ Observed(t) /\ k \notin DOMAIN observer[t]
    /\ Cardinality(SpansOf(db, t)) < MaxSpans
    /\ \/ /\ CallsWork /\ MayStart(db, t, ParentOf(t, k))
          /\ CallsWrite(StartSpan(db, t, ParentOf(t, k)))
          /\ observer' = [observer EXCEPT ![t] = [j \in DOMAIN @ \cup {k} |-> IF j = k THEN Len(db.spans) + 1 ELSE @[j]]]
       \/ CallsFail(1) /\ UNCHANGED <<db, stream, observer>>
    /\ UNCHANGED operation

\* Mutant: an event is recorded whatever has ended.
TakesEventAny(s) == TRUE

TakesEvent(s) == ~SpanEnded(db, s) /\ ~TraceEnded(db, db.spans[s].trace)

RecordsEvent(t, k) ==
    /\ Observed(t) /\ k \in DOMAIN observer[t]
    /\ Cardinality({n \in DOMAIN db.log : db.log[n].type = "span.event"}) < MaxEvents
    /\ TakesEvent(observer[t][k])
    /\ CallsWrite(Logged(db, "span.event", t, observer[t][k], TRUE))
    /\ UNCHANGED <<observer, operation, failures>>

\* endSpan: the key is free whether the row was written or not.
EndsSpan(t, k, status) ==
    /\ Observed(t) /\ k \in DOMAIN observer[t] \ {"root"}
    /\ \/ CallsWork /\ CallsWrite(EndSpan(db, observer[t][k], status))
       \/ CallsFail(1) /\ UNCHANGED <<db, stream>>
    /\ observer' = [observer EXCEPT ![t] = [j \in DOMAIN @ \ {k} |-> @[j]]]
    /\ UNCHANGED operation

\* Mutant: the root ends with the trace, as what was forgotten does.
RootEndsNot(d, t, status) == d

RootEnds(d, t, status) == IF d.traces[t].root = 0 THEN d ELSE EndSpan(d, d.traces[t].root, status)

\* finishTrace and closePersistedTrace, after calls of which n have failed
ClosesTrace(d, n, t, status) ==
    \/ CallsFail(n) /\ CallsWrite(EndTrace(RootEnds(d, t, status), t, status))
    \/ CallsFail(n + 1) /\ CallsWrite(RootEnds(d, t, status))
    \/ CallsFail(n + 1) /\ CallsWrite(EndTrace(d, t, status))
    \/ CallsFail(n + 2) /\ CallsWrite(d)

\* The operation is over.
FinishesTrace(t, status) ==
    /\ operation[t] = "running"
    /\ operation' = [operation EXCEPT ![t] = status]
    /\ IF Observed(t) THEN ClosesTrace(db, 0, t, status) ELSE CallsWork /\ UNCHANGED <<db, stream>>
    /\ observer' = [observer EXCEPT ![t] = NoKeys]

\* An execution is cancelled while its operation still runs: each open span is ended,
\* then the trace.
CancelsTrace(t) ==
    /\ t \in Executions
    /\ operation[t] = "running" /\ db.traces[t].status = "RUNNING"
    /\ \E lost \in SUBSET OpenSpans(db, t) :
          ClosesTrace(EndSpans(db, t, OpenSpans(db, t) \ lost, "CANCELLED", FALSE, TRUE), Cardinality(lost), t, "CANCELLED")
    /\ UNCHANGED <<observer, operation>>

\* The process ends.  An execution that the next one recovers goes on in its trace,
\* without the spans it had open.
Restart ==
    \E recovered \in SUBSET {t \in Executions : operation[t] = "running"} :
        /\ CallsFail(1)
        /\ stream' = [stream EXCEPT !.open = FALSE]
        /\ observer' = [t \in Traces |-> IF t \in recovered /\ Observed(t) /\ ~TraceEnded(db, t)
                                          THEN [k \in {"root"} |-> db.traces[t].root] ELSE NoKeys]
        /\ operation' = [t \in Traces |->
              IF t \in recovered THEN "running"
              ELSE IF db.traces[t].status = "RUNNING" THEN "left"
              ELSE IF operation[t] = "running" THEN "ERROR" ELSE operation[t]]
        /\ UNCHANGED db

\* The next one closes what was left running before it serves, an execution's trace
\* according to the execution's status.
ClosesLeft(t) ==
    /\ operation[t] = "left"
    /\ \E status \in IF t \in Executions THEN Outcomes \cup {"CANCELLED"} ELSE {"ERROR"} :
          /\ ClosesTrace(db, 0, t, status)
          /\ operation' = [operation EXCEPT ![t] = IF status = "OK" THEN "OK" ELSE "ERROR"]
    /\ UNCHANGED observer

\* GET traces/events: what is stored after the cursor, then what is published
ConnectsStream ==
    /\ ~stream.open
    /\ stream' = [open |-> TRUE, cursor |-> Len(db.log), sent |-> stream.sent \cup stream.cursor + 1 .. Len(db.log)]
    /\ UNCHANGED <<db, observer, operation, failures>>

LosesStream ==
    /\ stream.open /\ CallsFail(1) /\ stream' = [stream EXCEPT !.open = FALSE]
    /\ UNCHANGED <<db, observer, operation>>

Serves ==
    /\ \A t \in Traces : operation[t] # "left"
    /\ \/ \E t \in Traces :
              \/ BeginTrace(t) \/ CancelsTrace(t)
              \/ \E k \in Keys : StartsSpan(t, k)
              \/ \E k \in Keys : RecordsEvent(t, k)
              \/ \E k \in Keys, o \in Outcomes : EndsSpan(t, k, o)
              \/ \E o \in Outcomes : FinishesTrace(t, o)
       \/ ConnectsStream \/ LosesStream

TracesNext == Serves \/ Restart \/ \E t \in Traces : ClosesLeft(t)

TracesSpec == TracesInit /\ [][TracesNext]_tracesVars

------------------------------------------------------------------------------
\* A trace that has ended has no open span, and one that is OK closed every span of
\* its own accord: a success never hides that something was forgotten.
EndedIsClosed(d) ==
    \A t \in Traces : TraceEnded(d, t) =>
        /\ OpenSpans(d, t) = {}
        /\ d.traces[t].status = "OK" => \A s \in SpansOf(d, t) : ~d.spans[s].auto

\* "enforces causal ownership": a span is opened after its parent, in its trace, and
\* while the parent is open or the trace is.
Owned(d) ==
    \A s \in DOMAIN d.spans : LET p == d.spans[s].parent IN
        IF p = 0 THEN d.traces[d.spans[s].trace].root = s ELSE p < s /\ d.spans[p].trace = d.spans[s].trace

\* "terminal history": the log tells each span and each trace as one story, that begins
\* once, ends at most once, and has nothing after its end.
OneStory(d) ==
    \A n \in DOMAIN d.log : \A m \in 1 .. n - 1 :
        /\ d.log[m].type = "trace.ended" => d.log[n].trace # d.log[m].trace
        /\ d.log[m].type = "span.ended" /\ d.log[n].span = d.log[m].span => d.log[n].type = "trace.ended"

\* "No span remains open across human approval": when nothing failed, an operation
\* that is over has ended its trace.
NothingLeftOpen ==
    failures = 0 => \A t \in Traces : operation[t] \in Outcomes => TraceEnded(db, t) /\ OpenSpans(db, t) = {}

\* When nothing failed and nobody cancelled, a trace says what its operation said: only
\* a span that the operation forgot makes a success an error.
SaysWhatHappened ==
    \A t \in Traces :
        failures = 0 /\ operation[t] = "OK" /\ db.traces[t].status # "CANCELLED" =>
            (db.traces[t].status = "OK" <=> ~\E s \in SpansOf(db, t) : db.spans[s].parent # 0 /\ db.spans[s].auto)

\* A stream has been sent every event up to its cursor that its operation reported.
StreamFollows ==
    \A n \in 1 .. stream.cursor : db.log[n].returned => n \in stream.sent

\* ... and every event that is stored.
StreamIsComplete == stream.sent = 1 .. stream.cursor

------------------------------------------------------------------------------
\* The log is of the rows: an end that was logged is in them.
LogIsOfRows(d) ==
    \A n \in DOMAIN d.log : LET e == d.log[n] IN
        /\ e.span # 0 => e.span \in SpansOf(d, e.trace)
        /\ e.type = "span.ended" => e.span # 0 /\ SpanEnded(d, e.span)
        /\ e.type = "trace.ended" => TraceEnded(d, e.trace)

\* A trace has spans once it has a root, which is the span that has no parent.
RootsAreSpans(d) ==
    \A t \in Traces : LET r == d.traces[t].root IN
        /\ IF r = 0 THEN SpansOf(d, t) = {} ELSE r \in SpansOf(d, t) /\ d.spans[r].parent = 0
        /\ d.traces[t].status = "none" => r = 0

\* Only the end of its trace marks a span as forgotten.
ForgottenIsEnded(d) == \A s \in DOMAIN d.spans : d.spans[s].auto => TraceEnded(d, d.spans[s].trace)

RowsAreSound(d) ==
    /\ d \in Rows /\ EndedIsClosed(d) /\ Owned(d) /\ OneStory(d)
    /\ LogIsOfRows(d) /\ RootsAreSpans(d) /\ ForgottenIsEnded(d)

\* What an observer holds is of its trace, whose operation runs.
ObserversHold ==
    \A t \in Traces :
        /\ operation[t] = "none" => db.traces[t].status = "none"
        /\ DOMAIN observer[t] # {} =>
              /\ Observed(t) /\ db.traces[t].root # 0 /\ observer[t]["root"] = db.traces[t].root
              /\ \A k \in DOMAIN observer[t] : observer[t][k] \in SpansOf(db, t)

\* When nothing failed, nothing was left; an operation that runs has its observer, and
\* only a cancel has ended its trace.
NothingLost ==
    failures = 0 => \A t \in Traces :
        /\ operation[t] # "left"
        /\ operation[t] = "running" => Observed(t) /\ db.traces[t].status \in {"RUNNING", "CANCELLED"}

\* What is stored and was not sent to an open stream was not reported either.
StreamIsCurrent ==
    /\ stream.sent \subseteq 1 .. stream.cursor
    /\ stream.open => \A n \in stream.cursor + 1 .. Len(db.log) : ~db.log[n].returned

TracesIInv ==
    /\ TracesTypeOK /\ RowsAreSound(db) /\ ObserversHold
    /\ NothingLost /\ NothingLeftOpen /\ SaysWhatHappened
    /\ StreamFollows /\ StreamIsCurrent
==============================================================================
