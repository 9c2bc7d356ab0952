-------------------------- MODULE ExecutionDisplay --------------------------
(***************************************************************************)
(* The badges of the steps and of the intents of a plan, which the window  *)
(* derives from the row of the run it holds and from the events it has     *)
(* listed.  The two travel separately: a history hands over both, the      *)
(* stream only events, the answer to a pause or a cancel only the row.     *)
(*                                                                         *)
(* Steps are numbered in the order of the plan.  That a stream delivers in *)
(* order and passes over nothing is EventStream's; a superseded run, whose *)
(* window shows its successor, is left out.                                *)
(***************************************************************************)
EXTENDS Naturals, Sequences, SequencesExt

CONSTANTS Steps, Intents,
          Linked,      \* the steps an intent stands behind
          MaxEvents,   \* bound of the log
          Prompt,      \* whether an answer arrives before what is stored after it
          None

DisplayAssumption ==
    /\ Steps \in SUBSET (Nat \ {0}) /\ Linked \in [Intents -> SUBSET Steps] /\ MaxEvents \in Nat /\ Prompt \in BOOLEAN
    /\ None \notin Steps

VARIABLES
    row,      \* executions: status, currentNodeId, completedNodeIds
    sel,      \* selectedNodeIds
    log,      \* execution_events that bear on a badge
    tried,    \* the steps that were started
    broken,   \* the step whose failure ended the run
    seen,     \* activeExecution, None before a history has arrived
    from, to, \* the events listed are those after `from` up to `to`
    told,     \* whether an event of the cancellation is listed
    fetch,    \* a history on its way: the row and the number of events
    answer    \* an answer to pause or cancel on its way: a row

server == <<row, sel, log, tried, broken>>
window == <<seen, from, to, told>>
vars   == <<row, sel, log, tried, broken, seen, from, to, told, fetch, answer>>

Active == {"running", "pause_requested", "paused"}
Badges == {"draft", "queued", "running", "paused", "completed", "failed", "blocked", "cancelled", "not_run"}
Row    == [status : Active \cup {"completed", "failed", "cancelled"}, current : Steps \cup {None}, done : SUBSET Steps]
Event  == [type : {"started", "done", "broke", "failed", "completed", "cancelled", "status"}, step : Steps \cup {None},
           status : Active \cup {None}]

TypeOK ==
    /\ row \in Row /\ log \in Seq(Event) /\ tried \subseteq sel /\ sel \subseteq Steps
    /\ broken \in tried \cup {None} /\ row.done \subseteq sel
    /\ seen \in Row \cup {None} /\ from <= to /\ to <= Len(log) /\ told \in BOOLEAN
    /\ fetch \in [at : {"none", "history", "bundle"}, row : Row \cup {None}, to : 0 .. Len(log)]
    /\ answer \in Row \cup {None}
    /\ told => row.status = "cancelled"

NoFetch == [at |-> "none", row |-> None, to |-> 0]

\* A run that starts afresh, or with checkpoints it reuses.
Init ==
    /\ sel \in SUBSET Steps \ {{}}
    /\ \E reused \in SUBSET sel : row = [status |-> "running", current |-> None, done |-> reused]
    /\ log = <<>> /\ tried = {} /\ broken = None
    /\ seen = None /\ from = 0 /\ to = 0 /\ told = FALSE /\ fetch = NoFetch /\ answer = None

------------------------------------------------------------------------------
(* The server                                                              *)

Moves == row.status \in Active /\ Len(log) < MaxEvents

Says(type, step, status) == log' = Append(log, [type |-> type, step |-> step, status |-> status])

\* Mutant: the selection is not looked at.
LeftOfPlan == Steps \ row.done

Left == sel \ row.done

Starts ==
    /\ Moves /\ row.status = "running" /\ row.current = None /\ Left # {}
    /\ LET s == CHOOSE s \in Left : \A t \in Left : s <= t IN
          row' = [row EXCEPT !.current = s] /\ tried' = tried \cup {s} /\ Says("started", s, None)
    /\ UNCHANGED <<sel, broken, window, fetch, answer>>

Completes ==
    /\ Moves /\ row.current # None
    /\ row' = [row EXCEPT !.current = None, !.done = @ \cup {row.current}] /\ Says("done", row.current, None)
    /\ UNCHANGED <<sel, tried, broken, window, fetch, answer>>

\* The node's failure, and that of the execution.
Breaks ==
    /\ Moves /\ row.current # None
    /\ row' = [row EXCEPT !.status = "failed", !.current = None] /\ broken' = row.current
    /\ log' = log \o <<[type |-> "broke", step |-> row.current, status |-> None],
                       [type |-> "broke", step |-> row.current, status |-> None],
                       [type |-> "failed", step |-> None, status |-> None]>>
    /\ UNCHANGED <<sel, tried, window, fetch, answer>>

\* failExecution, by the runner or after a restart: the event names no step.
FailsRun ==
    /\ Moves /\ row.status # "paused"
    /\ row' = [row EXCEPT !.status = "failed", !.current = None] /\ broken' = row.current /\ Says("failed", None, None)
    /\ UNCHANGED <<sel, tried, window, fetch, answer>>

Ends ==
    /\ Moves /\ row.status = "running" /\ Left = {} /\ row.current = None
    /\ row' = [row EXCEPT !.status = "completed"] /\ Says("completed", None, None)
    /\ UNCHANGED <<sel, tried, broken, window, fetch, answer>>

\* A pause is asked for here or elsewhere; here its answer is on its way.
PausesAt ==
    /\ Moves /\ row.status = "running"
    /\ row' = [row EXCEPT !.status = "pause_requested"] /\ Says("status", None, "pause_requested")
    /\ answer' \in (IF answer = None /\ seen # None THEN {row', None} ELSE {answer})
    /\ UNCHANGED <<sel, tried, broken, window, fetch>>

Pauses ==
    /\ Moves /\ row.status = "pause_requested" /\ row.current = None
    /\ row' = [row EXCEPT !.status = "paused"] /\ Says("status", None, "paused")
    /\ UNCHANGED <<sel, tried, broken, window, fetch, answer>>

Resumes ==
    /\ Moves /\ row.status = "paused"
    /\ row' = [row EXCEPT !.status = "running"] /\ Says("status", None, "running")
    /\ UNCHANGED <<sel, tried, broken, window, fetch, answer>>

Cancels ==
    /\ Moves
    /\ row' = [row EXCEPT !.status = "cancelled", !.current = None] /\ Says("cancelled", row.current, None)
    /\ answer' \in (IF answer = None /\ seen # None THEN {row', None} ELSE {answer})
    /\ UNCHANGED <<sel, tried, broken, window, fetch>>

Server == Starts \/ Completes \/ Breaks \/ FailsRun \/ Ends \/ PausesAt \/ Pauses \/ Resumes \/ Cancels

------------------------------------------------------------------------------
(* The window                                                              *)

Overtakes == answer = None \/ ~Prompt

\* loadGraph, when the window is opened or comes back from another workspace, and no
\* answer is awaited: the history, or when it fails the row of the bundle and no events.
Fetches ==
    /\ fetch = NoFetch /\ answer = None /\ seen' = None
    /\ fetch' \in {[at |-> "history", row |-> row, to |-> Len(log)], [at |-> "bundle", row |-> row, to |-> 0]}
    /\ UNCHANGED <<server, from, to, told, answer>>

\* The stream that then opens may go on from a cursor of before.
Loads ==
    /\ Overtakes /\ fetch # NoFetch /\ fetch' = NoFetch /\ seen' = fetch.row
    /\ IF fetch.at = "history"
       THEN from' = 0 /\ to' = fetch.to /\ told' = (fetch.row.status = "cancelled")
       ELSE from' \in {0, to} /\ to' = from' /\ told' = FALSE
    /\ UNCHANGED <<server, answer>>

\* handleExecutionEvent; the cancellation is not among the events listened for.
Delivers ==
    /\ Overtakes /\ seen # None /\ seen.status \in Active /\ to < Len(log) /\ to' = to + 1
    /\ LET e == log[to'] IN
          seen' = CASE e.type = "status"                  -> [seen EXCEPT !.status = e.status]
                    [] e.type \in {"failed", "completed"} -> [seen EXCEPT !.status = e.type]
                    [] OTHER -> seen
    /\ UNCHANGED <<server, from, told, fetch, answer>>

Answers ==
    /\ answer # None /\ answer' = None /\ seen' = answer
    /\ UNCHANGED <<server, from, to, told, fetch>>

Next == Server \/ Fetches \/ Loads \/ Delivers \/ Answers

Spec == Init /\ [][Next]_vars

------------------------------------------------------------------------------
(* projectExecutionDisplay                                                 *)

Listed      == {log[i] : i \in from + 1 .. to}
Named(type) == {e.step : e \in {l \in Listed : l.type = type}}
Told(type)  == \E e \in Listed : e.type = type

\* Mutant: the steps that ended are taken from the events alone.
CompletedOfEvents == Named("done")

Completed == seen.done \cup Named("done")
Failed    == Named("broke")
Started   == Named("started")

\* Mutant: the row is trusted.
StatusOfRow == seen.status

Status ==
    CASE seen.status = "cancelled" \/ told -> "cancelled"
      [] seen.status = "failed" \/ Failed # {} \/ Told("failed") -> "failed"
      [] seen.status = "completed" \/ Told("completed") -> "completed"
      [] OTHER -> seen.status

\* Mutant: the end of the run is looked at before the end of the step.
BadgeOfRun(s) ==
    CASE s \notin sel           -> "draft"
      [] s \in Failed \/ (Status = "failed" /\ s \in Started) -> "failed"
      [] s \in Completed        -> "completed"
      [] OTHER                  -> Status

Badge(s) ==
    CASE s \notin sel           -> "draft"
      [] s \in Failed           -> "failed"
      [] s \in Completed        -> "completed"
      [] Status = "cancelled"   -> "cancelled"
      [] Status = "failed"      -> IF s \in Started \/ seen.current = s THEN "failed" ELSE "blocked"
      [] Status = "completed"   -> "not_run"
      [] Status = "paused"      -> "paused"
      [] s \in Started \/ seen.current = s -> "running"
      [] OTHER -> "queued"

\* The first of `order` among the states.
FirstOf(order, states) ==
    IF Range(order) \cap states = {} THEN "not_run" ELSE SelectSeq(order, LAMBDA b : b \in states)[1]

\* Mutant: an intent is complete when one of its steps is.
AggregateSome(states) ==
    IF states \subseteq {"draft"} THEN "draft"
    ELSE FirstOf(<<"failed", "running", "completed", "cancelled", "blocked", "paused", "queued">>, states)

\* aggregateStatuses
Aggregate(states) ==
    CASE states \subseteq {"draft"} -> "draft"
      [] states = {"completed"}     -> "completed"
      [] OTHER -> LET b == FirstOf(<<"failed", "running", "cancelled", "blocked", "paused", "completed", "queued">>, states)
                  IN IF b = "completed" THEN "partial" ELSE b

IntentBadge(i) == Aggregate({Badge(s) : s \in Linked[i]})

------------------------------------------------------------------------------
\* What the server knows of a step.
Truth(s) ==
    CASE s \notin sel    -> "draft"
      [] s = broken      -> "failed"
      [] s \in row.done  -> "completed"
      [] row.status = "failed"    -> "blocked"
      [] row.status = "cancelled" -> "cancelled"
      [] row.status = "paused"    -> "paused"
      [] row.current = s          -> "running"
      [] OTHER                    -> "queued"

\* The window has all the events, or knows of the cancellation.
UpToDate ==
    /\ seen # None
    /\ \/ row.status = "cancelled" /\ seen.status = "cancelled"
       \/ row.status # "cancelled" /\ from = 0 /\ to = Len(log)

\* "projects durable reused checkpoints, pause and cancellation without stale queued
\* badges": in whichever order the row and the events came, a window that is up to
\* date shows for every step what the server knows of it.
UpToDateIsTrue == UpToDate /\ answer = None => \A s \in Steps : Badge(s) = Truth(s)

\* A window that is behind shows no end of a step that has not come.
EndsAreRecorded ==
    seen # None => \A s \in Steps :
        /\ Badge(s) = "completed" => s \in row.done
        /\ Badge(s) = "failed"    => s = broken
        /\ Badge(s) \in {"blocked", "cancelled"} => row.status \in {"failed", "cancelled"}

FailureStaysStep ==
    \A s \in Steps : seen # None /\ Badge(s) = "failed" /\ fetch' = fetch => Badge(s)' = "failed"

\* "A replay or late completion must never hide a terminal failure": nor may a late
\* answer, unless the window loads again.
FailureStays == [][FailureStaysStep]_vars

\* "requires every linked step to complete and does not turn partial selected coverage
\* into intent completion", nor an intent into one without a failure that has been shown.
IntentIsCovered ==
    seen # None => \A i \in Intents :
        /\ IntentBadge(i) = "completed" => Linked[i] # {} /\ Linked[i] \subseteq row.done
        /\ IntentBadge(i) # "failed" => \A s \in Linked[i] : Badge(s) # "failed"
==============================================================================
