------------------------------ MODULE Terminals ------------------------------
(***************************************************************************)
(* Shells in project folders, and how they and approved executions keep    *)
(* out of each other's way.                                                *)
(*                                                                         *)
(* Several graphs may be bound to one folder.  A route that opens a shell  *)
(* waits for the file system, one that writes to it for the body too, and  *)
(* one that admits an execution for the freshness of its plan; what they   *)
(* rely on is looked at again in the turn that acts.  A folder stands for  *)
(* its canonical path.                                                     *)
(*                                                                         *)
(* Of the executions of a graph one is followed here: "running" stands for *)
(* queued, running and pausing.  PATCH is one turn (the race in its route  *)
(* belongs to PlanApproval).  A shell has "ended" when it has exited, or   *)
(* failed to start, which only the window tells apart.  'spawn' and a      *)
(* spawn's 'error' are emitted before any other turn, so "starting" is     *)
(* never seen between two actions.                                         *)
(*                                                                         *)
(* close() forgets the shells that have not ended yet, while requests that *)
(* came before it go on: from then on they are held against the shells     *)
(* that are still known only.                                              *)
(***************************************************************************)
EXTENDS Naturals, FiniteSets, FiniteSetTheorems, TLAPS

CONSTANTS Graph, Folder, Session, Client, None,
          MaxSessions     \* MAX_SESSIONS

TerminalAssumption ==
    /\ None \notin Graph \cup Folder \cup Session
    /\ Folder # {}
    /\ MaxSessions \in Nat

VARIABLES
    folder,      \* graphs.workspace_path
    run,         \* the execution of a graph
    session,     \* of the shells that were opened, the process and its place
    listed,      \* the sessions map
    request,     \* routes that await
    server       \* "up", "closing", or "swept" once close() has cleared the map

vars == <<folder, run, session, listed, request, server>>

SessionRow == [status : {"none", "running", "stopping", "ended"},
               graph : Graph \cup {None}, folder : Folder \cup {None}]

Request == [route : {"open", "input", "execute", "resume"}, at : {"stat", "body"},
            graph : Graph, session : Session \cup {None}, folder : Folder]

TypeOK ==
    /\ folder \in [Graph -> Folder]
    /\ run \in [Graph -> {"none", "running", "paused"}]
    /\ session \in [Session -> SessionRow]
    /\ \A s \in Session : session[s].status # "none" =>
          session[s].graph \in Graph /\ session[s].folder \in Folder
    /\ listed \subseteq {s \in Session : session[s].status # "none"}
    /\ request \in [Client -> Request \cup {None}]
    /\ server \in {"up", "closing", "swept"}

Init ==
    /\ folder \in [Graph -> Folder]
    /\ run = [g \in Graph |-> "none"]
    /\ session = [s \in Session |-> [status |-> "none", graph |-> None, folder |-> None]]
    /\ listed = {}
    /\ request = [c \in Client |-> None]
    /\ server = "up"

Open(s) == session[s].status \in {"running", "stopping"}

\* Mutant: a shell that is being stopped is forgotten already.
NotRunning == {s \in listed : session[s].status # "running"}

Ended == {s \in listed : session[s].status = "ended"}

\* Mutant: only the graph's own execution is looked for.
WorkspaceIdleOfGraph(g, path) == run[g] = "none"

\* assertWorkspaceIdle: no execution of this graph nor of any graph in the folder.
WorkspaceIdle(g, path) ==
    \A h \in Graph : h = g \/ folder[h] = path => run[h] = "none"

\* Mutant: a shell that is being stopped does not count.
GraphIdleOfRunning(g) ==
    \A s \in listed : session[s].status = "running" =>
        session[s].graph # g /\ session[s].folder # folder[g]

\* assertGraphIdle: no shell of this graph nor of any graph in its folder.
GraphIdle(g) ==
    \A s \in listed : Open(s) => session[s].graph # g /\ session[s].folder # folder[g]

------------------------------------------------------------------------------
Begins(c, route, at, g, s) ==
    /\ request[c] = None
    /\ request' = [request EXCEPT ![c] = [route |-> route, at |-> at, graph |-> g,
                                          session |-> s, folder |-> folder[g]]]
    /\ UNCHANGED <<folder, run, session, listed, server>>

Waits(c, route, at) ==
    request[c] # None /\ request[c].route = route /\ request[c].at = at

Ends(c) == request' = [request EXCEPT ![c] = None]

\* A check fails, or the body is refused.
Refused(c) ==
    /\ request[c] # None
    /\ Ends(c)
    /\ UNCHANGED <<folder, run, session, listed, server>>

\* POST terminal.
OpenBegins(c, g) ==
    /\ server = "up"
    /\ WorkspaceIdle(g, folder[g])
    /\ Begins(c, "open", "stat", g, None)

WorkspaceChecked(c) ==
    /\ WorkspaceIdle(request[c].graph, request[c].folder)
    /\ folder[request[c].graph] = request[c].folder

HasShell(g) == \E s \in listed : Open(s) /\ session[s].graph = g

\* Mutant: a session does not say whose shell it is.
SpawnUnbound(s, row) ==
    /\ session' = [session EXCEPT ![s] = [row EXCEPT !.graph = None]]
    /\ listed' = (listed \ Ended) \cup {s}

\* Sessions that have ended make room first.  The spawn may fail.
Spawn(s, row) ==
    /\ session' = [session EXCEPT ![s] = row]
    /\ listed' = (listed \ Ended) \cup {s}

\* Mutant: one too many.
HasRoomForOneMore == Cardinality({x \in listed : Open(x)}) <= MaxSessions

\* The size of the map, once those that have ended are out of it.
HasRoom == Cardinality({x \in listed : Open(x)}) < MaxSessions

\* Mutant: the check for a shell of the graph is not repeated after the await.
SpawnsAnother(c, s) ==
    /\ Waits(c, "open", "stat")
    /\ WorkspaceChecked(c)
    /\ session[s].status = "none"
    /\ HasRoom
    /\ \E status \in {"running", "ended"} :
          Spawn(s, [status |-> status, graph |-> request[c].graph, folder |-> request[c].folder])
    /\ Ends(c)
    /\ UNCHANGED <<folder, run, server>>

\* Whether the server has been closed meanwhile is not looked at.
OpenSpawns(c, s) ==
    /\ Waits(c, "open", "stat")
    /\ WorkspaceChecked(c)
    /\ ~HasShell(request[c].graph)
    /\ session[s].status = "none"
    /\ HasRoom
    /\ \E status \in {"running", "ended"} :
          Spawn(s, [status |-> status, graph |-> request[c].graph, folder |-> request[c].folder])
    /\ Ends(c)
    /\ UNCHANGED <<folder, run, server>>

\* POST input.
InputBegins(c, s) ==
    /\ server = "up"
    /\ s \in listed
    /\ WorkspaceIdle(session[s].graph, folder[session[s].graph])
    /\ Begins(c, "input", "stat", session[s].graph, s)

Stopping(s) ==
    [session EXCEPT ![s].status = IF @ = "running" THEN "stopping" ELSE @]

\* A shell left behind in a folder the graph is not bound to any more is stopped.  The
\* route holds the session, which may be out of the map by now.
InputChecks(c) ==
    /\ Waits(c, "input", "stat")
    /\ WorkspaceChecked(c)
    /\ IF request[c].folder # session[request[c].session].folder
       THEN session' = Stopping(request[c].session) /\ Ends(c)
       ELSE /\ session[request[c].session].status = "running"
            /\ request' = [request EXCEPT ![c].at = "body"]
            /\ UNCHANGED session
    /\ UNCHANGED <<folder, run, listed, server>>

\* The body has arrived; nothing is looked at again.
InputWrites(c) ==
    /\ Waits(c, "input", "body")
    /\ Ends(c)
    /\ UNCHANGED <<folder, run, session, listed, server>>

\* POST stop, the sweep of idle sessions; close() ends both.
Stop(s) ==
    /\ server = "up"
    /\ s \in listed
    /\ session[s].status = "running"
    /\ session' = Stopping(s)
    /\ UNCHANGED <<folder, run, listed, request, server>>

SweepForgets(s) ==
    /\ server = "up"
    /\ s \in Ended
    /\ listed' = listed \ {s}
    /\ UNCHANGED <<folder, run, session, request, server>>

\* The shell ends by itself or by the signals of stop().
ShellCloses(s) ==
    /\ Open(s)
    /\ session' = [session EXCEPT ![s].status = "ended"]
    /\ UNCHANGED <<folder, run, listed, request, server>>

------------------------------------------------------------------------------
\* POST execute.
ExecuteBegins(c, g) ==
    /\ run[g] = "none"
    /\ GraphIdle(g)
    /\ Begins(c, "execute", "stat", g, None)

\* Mutant: shells are not looked for again.
AdmitsUnchecked(c) ==
    /\ Waits(c, "execute", "stat")
    /\ run[request[c].graph] = "none"
    /\ run' = [run EXCEPT ![request[c].graph] = "running"]
    /\ Ends(c)
    /\ UNCHANGED <<folder, session, listed, server>>

ExecuteAdmits(c) ==
    /\ Waits(c, "execute", "stat")
    /\ GraphIdle(request[c].graph)
    /\ run[request[c].graph] = "none"
    /\ run' = [run EXCEPT ![request[c].graph] = "running"]
    /\ Ends(c)
    /\ UNCHANGED <<folder, session, listed, server>>

\* POST resume.
ResumeBegins(c, g) ==
    /\ run[g] = "paused"
    /\ GraphIdle(g)
    /\ Begins(c, "resume", "body", g, None)

\* Shells are looked for before the body only.
ResumesPinned(c) ==
    /\ Waits(c, "resume", "body")
    /\ run[request[c].graph] = "paused"
    /\ run' = [run EXCEPT ![request[c].graph] = "running"]
    /\ Ends(c)
    /\ UNCHANGED <<folder, session, listed, server>>

RunPauses(g) ==
    /\ run[g] = "running"
    /\ run' = [run EXCEPT ![g] = "paused"]
    /\ UNCHANGED <<folder, session, listed, request, server>>

RunEnds(g) ==
    /\ run[g] # "none"
    /\ run' = [run EXCEPT ![g] = "none"]
    /\ UNCHANGED <<folder, session, listed, request, server>>

\* PATCH graph; shells are not looked at.
Rebind(g, path) ==
    /\ run[g] = "none"
    /\ folder' = [folder EXCEPT ![g] = path]
    /\ UNCHANGED <<run, session, listed, request, server>>

------------------------------------------------------------------------------
\* close() stops the running shells and waits for them, at most 700 ms.
Close ==
    /\ server = "up"
    /\ server' = "closing"
    /\ session' = [s \in Session |-> IF s \in listed THEN Stopping(s)[s] ELSE session[s]]
    /\ UNCHANGED <<folder, run, listed, request>>

\* The map is cleared of every session, ended or not.
CloseSweeps ==
    /\ server = "closing"
    /\ server' = "swept"
    /\ listed' = {}
    /\ UNCHANGED <<folder, run, session, request>>

Next ==
    \/ \E c \in Client :
          \/ Refused(c) \/ InputChecks(c) \/ InputWrites(c)
          \/ ExecuteAdmits(c) \/ ResumesPinned(c)
          \/ \E g \in Graph : OpenBegins(c, g) \/ ExecuteBegins(c, g) \/ ResumeBegins(c, g)
          \/ \E s \in Session : OpenSpawns(c, s) \/ InputBegins(c, s)
    \/ \E s \in Session : Stop(s) \/ SweepForgets(s) \/ ShellCloses(s)
    \/ \E g \in Graph : RunPauses(g) \/ RunEnds(g) \/ \E path \in Folder : Rebind(g, path)
    \/ Close \/ CloseSweeps

Spec == Init /\ [][Next]_vars

------------------------------------------------------------------------------
\* The shells that count: all that are open, until close() has cleared the map; of those
\* after it, which requests in flight may still open, the ones in the map.
Known(s) == Open(s) /\ (server # "swept" \/ s \in listed)

\* "An active or paused approved execution blocks shell creation/input for every graph
\* bound to the same canonical project folder.  An active terminal likewise blocks
\* execution start/resume."
Exclusive ==
    \A s \in Session, g \in Graph :
        Known(s) /\ run[g] # "none" => session[s].graph # g /\ session[s].folder # folder[g]

\* However many requests to open a shell were in flight, a graph gets one.
OneShellPerGraph ==
    \A s, t \in Session : Known(s) /\ Known(t) /\ session[s].graph = session[t].graph => s = t

\* "Sessions are in memory, capped at eight", across requests that all saw room.
ShellsBounded == Cardinality({s \in Session : Known(s)}) <= MaxSessions

\* "Server shutdown closes streams and stops shells": it does not stop the one that a
\* request in flight opens.
ShutdownStopsShells ==
    server = "swept" => \A s \in Session : session[s].status # "running"

\* Until close() clears the map, no shell that is open is out of it: what looks at the
\* map sees every shell, and close() stops every one.
ShellsAreListed == server # "swept" => \A s \in Session : Open(s) => s \in listed

------------------------------------------------------------------------------
(***************************************************************************)
(* What keeps shells and executions apart holds for any number of graphs,  *)
(* folders, sessions and requests: it is inductive as it stands, because   *)
(* what a request remembers is compared again before it acts, and what the *)
(* routes look at, the map, has every shell that counts.                   *)
(***************************************************************************)
Inv == TypeOK /\ Exclusive /\ OneShellPerGraph /\ ShellsAreListed

\* The limit is on a number of shells, of which there could be infinitely many.
ShellsAreFinite == IsFiniteSet({s \in Session : Known(s)})

IInv == Inv /\ ShellsAreFinite /\ ShellsBounded

\* At first there is neither a shell nor an execution.
LEMMA InitInv == TerminalAssumption /\ Init => Inv
  BY DEF TerminalAssumption, Init, Inv, TypeOK, Exclusive, OneShellPerGraph, ShellsAreListed, Known,
         Open, SessionRow, Request

\* The shells that count are those of the map that are open.
LEMMA KnownIsListed == Inv => \A s \in Session : Known(s) <=> s \in listed /\ Open(s)
  BY DEF Inv, Known, ShellsAreListed

\* The moves that touch requests, or that only end shells and executions.
LEMMA RequestsKeep ==
  ASSUME Inv, NEW c \in Client,
         \/ Refused(c) \/ InputWrites(c)
         \/ \E g \in Graph : OpenBegins(c, g) \/ ExecuteBegins(c, g) \/ ResumeBegins(c, g)
         \/ \E s \in Session : InputBegins(c, s)
  PROVE  Inv'
<1>1. TypeOK'
  <2>1. CASE Refused(c) \/ InputWrites(c)
    BY <2>1 DEF Inv, TypeOK, Refused, InputWrites, Ends
  <2>2. ASSUME NEW g \in Graph, OpenBegins(c, g) \/ ExecuteBegins(c, g) \/ ResumeBegins(c, g)
        PROVE  TypeOK'
    BY <2>2 DEF Inv, TypeOK, OpenBegins, ExecuteBegins, ResumeBegins, Begins, Request
  <2>3. ASSUME NEW s \in Session, InputBegins(c, s)
        PROVE  TypeOK'
    <3>1. session[s].graph \in Graph
      BY <2>3 DEF Inv, TypeOK, InputBegins
    <3> QED  BY <2>3, <3>1 DEF Inv, TypeOK, InputBegins, Begins, Request
  <2> QED  BY <2>1, <2>2, <2>3
<1>2. UNCHANGED <<folder, run, session, listed, server>>
  BY DEF Refused, InputWrites, OpenBegins, ExecuteBegins, ResumeBegins, InputBegins, Begins
<1> QED  BY <1>1, <1>2 DEF Inv, Exclusive, OneShellPerGraph, ShellsAreListed, Known, Open

LEMMA StoppingOpen ==
  ASSUME TypeOK, NEW s \in Session, NEW new, new = Stopping(s)
  PROVE  /\ new \in [Session -> SessionRow]
         /\ \A x \in Session : /\ new[x].graph = session[x].graph
                               /\ new[x].folder = session[x].folder
                               /\ new[x].status \in {"running", "stopping"} <=> Open(x)
                               /\ new[x].status = "none" <=> session[x].status = "none"
  BY DEF TypeOK, Stopping, SessionRow, Open

\* A session stays where it is, and no shell opens or comes into the map again.
ShellsOnlyEnd ==
    \A x \in Session : /\ session'[x].graph = session[x].graph
                       /\ session'[x].folder = session[x].folder
                       /\ Open(x)' => Open(x)
                       /\ Known(x)' => Known(x)
                       /\ session'[x].status = "none" <=> session[x].status = "none"

LEMMA ShellsEnd ==
  ASSUME Inv, UNCHANGED <<folder, run>>, session' \in [Session -> SessionRow], listed' \subseteq listed,
         request' \in [Client -> Request \cup {None}], server' \in {"up", "closing", "swept"},
         ShellsOnlyEnd, ShellsAreListed'
  PROVE  Inv'
  BY DEF Inv, TypeOK, Exclusive, OneShellPerGraph, ShellsOnlyEnd

LEMMA SpawnKeeps ==
  ASSUME Inv, NEW c \in Client, NEW s \in Session, OpenSpawns(c, s)
  PROVE  Inv'
<1> DEFINE r == request[c]
<1>1. r \in Request /\ r.graph \in Graph /\ r.folder \in Folder
  BY DEF Inv, TypeOK, OpenSpawns, Waits, Request
<1>2. PICK status \in {"running", "ended"} :
        Spawn(s, [status |-> status, graph |-> r.graph, folder |-> r.folder])
  BY DEF OpenSpawns
<1>3. session' \in [Session -> SessionRow] /\ UNCHANGED <<folder, run, server>>
  BY <1>1, <1>2 DEF Inv, TypeOK, OpenSpawns, Spawn, SessionRow
<1>4. \A x \in Session \ {s} : /\ session'[x] = session[x]
                               /\ x \in listed' <=> x \in listed \ Ended
                               /\ Known(x)' => Known(x)
  BY <1>2, <1>3 DEF Inv, TypeOK, Spawn, Known, Open, Ended
<1>5. session'[s].graph = r.graph /\ session'[s].folder = r.folder /\ s \in listed'
      /\ session'[s].status # "none"
  BY <1>2 DEF Inv, TypeOK, Spawn
<1>6. TypeOK'
  <2>1. listed' \subseteq {x \in Session : session'[x].status # "none"}
    BY <1>2, <1>4, <1>5 DEF Inv, TypeOK, Spawn
  <2>2. request' \in [Client -> Request \cup {None}]
    BY DEF Inv, TypeOK, OpenSpawns, Ends
  <2>3. \A x \in Session : session'[x].status # "none" =>
          session'[x].graph \in Graph /\ session'[x].folder \in Folder
    BY <1>1, <1>4, <1>5 DEF Inv, TypeOK
  <2> QED  BY <1>3, <2>1, <2>2, <2>3 DEF Inv, TypeOK
<1>7. Exclusive'
  <2>1. WorkspaceIdle(r.graph, r.folder) /\ folder[r.graph] = r.folder
    BY DEF OpenSpawns, WorkspaceChecked
  <2> QED  BY <1>3, <1>4, <1>5, <2>1 DEF Inv, Exclusive, WorkspaceIdle, TypeOK
<1>8. OneShellPerGraph'
  <2>1. \A x \in Session : Known(x) => session[x].graph # r.graph
    BY KnownIsListed DEF OpenSpawns, HasShell
  <2> QED  BY <1>4, <1>5, <2>1 DEF Inv, OneShellPerGraph
<1>9. ShellsAreListed'
  BY <1>3, <1>4, <1>5 DEF Inv, TypeOK, ShellsAreListed, Open, Ended
<1> QED  BY <1>6, <1>7, <1>8, <1>9 DEF Inv

LEMMA RunsKeep ==
  ASSUME Inv,
         \/ \E c \in Client : ExecuteAdmits(c) \/ ResumesPinned(c)
         \/ \E g \in Graph : RunPauses(g) \/ RunEnds(g) \/ \E path \in Folder : Rebind(g, path)
  PROVE  Inv'
<1> USE DEF Inv, TypeOK, Exclusive, OneShellPerGraph, ShellsAreListed, Known, Open
<1>1. ASSUME NEW c \in Client, ExecuteAdmits(c)
      PROVE  Inv'
  <2>1. request[c].graph \in Graph
    BY <1>1 DEF ExecuteAdmits, Waits, Request
  <2> QED  BY <1>1, <2>1 DEF GraphIdle, ExecuteAdmits, Ends
<1>2. ASSUME NEW c \in Client, ResumesPinned(c)
      PROVE  Inv'
  <2>1. request[c].graph \in Graph
    BY <1>2 DEF ResumesPinned, Waits, Request
  <2> QED  BY <1>2, <2>1 DEF ResumesPinned, Ends
<1>3. ASSUME NEW g \in Graph, RunPauses(g) \/ RunEnds(g)
      PROVE  Inv'
  BY <1>3 DEF RunPauses, RunEnds
<1>4. ASSUME NEW g \in Graph, NEW path \in Folder, Rebind(g, path)
      PROVE  Inv'
  BY <1>4 DEF Rebind
<1> QED  BY <1>1, <1>2, <1>3, <1>4

\* Each disjunct of Next keeps Inv.
LEMMA StepInv == Inv /\ [Next]_vars => Inv' /\ ((\A c \in Client, s \in Session : ~OpenSpawns(c, s)) => ShellsOnlyEnd)
<1> SUFFICES ASSUME Inv, [Next]_vars
             PROVE  Inv' /\ ((\A c \in Client, s \in Session : ~OpenSpawns(c, s)) => ShellsOnlyEnd)
  OBVIOUS
<1>1. ASSUME NEW s \in Session, Stop(s) \/ SweepForgets(s) \/ ShellCloses(s)
      PROVE  Inv' /\ ShellsOnlyEnd
  <2>1. CASE Stop(s)
    <3>1. session' \in [Session -> SessionRow] /\ ShellsOnlyEnd
      BY <2>1, StoppingOpen DEF Inv, TypeOK, Stop, Open, Known, ShellsOnlyEnd
    <3>2. ShellsAreListed'
      BY <2>1, <3>1 DEF Inv, Stop, ShellsAreListed, ShellsOnlyEnd
    <3> QED  BY <2>1, <3>1, <3>2, ShellsEnd DEF Inv, TypeOK, Stop
  <2>2. CASE SweepForgets(s)
    <3>1. ShellsOnlyEnd /\ ShellsAreListed'
      BY <2>2 DEF Inv, TypeOK, SweepForgets, Open, Known, Ended, ShellsOnlyEnd, ShellsAreListed
    <3> QED  BY <2>2, <3>1, ShellsEnd DEF Inv, TypeOK, SweepForgets
  <2>3. CASE ShellCloses(s)
    <3>1. session' \in [Session -> SessionRow]
      BY <2>3 DEF Inv, TypeOK, ShellCloses, SessionRow
    <3>2. ShellsOnlyEnd /\ ShellsAreListed'
      BY <2>3 DEF Inv, TypeOK, SessionRow, ShellCloses, Open, Known, ShellsOnlyEnd, ShellsAreListed
    <3> QED  BY <2>3, <3>1, <3>2, ShellsEnd DEF Inv, TypeOK, ShellCloses
  <2> QED  BY <1>1, <2>1, <2>2, <2>3
<1>2. ASSUME NEW c \in Client, InputChecks(c)
      PROVE  Inv' /\ ShellsOnlyEnd
  <2> DEFINE r == request[c]
  <2>1. r \in Request /\ UNCHANGED <<folder, run, listed, server>>
    BY <1>2 DEF Inv, TypeOK, InputChecks, Waits
  <2>2. request' \in [Client -> Request \cup {None}]
    BY <1>2, <2>1 DEF Inv, TypeOK, InputChecks, Ends, Request
  <2>3. session' \in [Session -> SessionRow] /\ ShellsOnlyEnd
    <3>1. CASE session' = session
      BY <2>1, <3>1 DEF Inv, TypeOK, Open, Known, ShellsOnlyEnd
    <3>2. CASE session' = Stopping(r.session) /\ r.session \in Session
      BY <2>1, <3>2, StoppingOpen DEF Inv, TypeOK, Open, Known, ShellsOnlyEnd
    <3>3. CASE session' = Stopping(r.session) /\ r.session \notin Session
      BY <3>1, <3>3 DEF Inv, TypeOK, Stopping
    <3> QED  BY <1>2, <3>1, <3>2, <3>3 DEF InputChecks
  <2>4. ShellsAreListed'
    BY <2>1, <2>3 DEF Inv, ShellsAreListed, ShellsOnlyEnd
  <2> QED  BY <2>1, <2>2, <2>3, <2>4, ShellsEnd DEF Inv, TypeOK
<1>3. CASE Close
  <2>1. \A s \in Session : session'[s] = Stopping(s)[s] \/ session'[s] = session[s]
    BY <1>3 DEF Close
  <2>2. session' \in [Session -> SessionRow]
    BY <1>3, StoppingOpen DEF Inv, TypeOK, Close
  <2>3. ShellsOnlyEnd
    BY <1>3, <2>1, StoppingOpen DEF Inv, Close, Open, Known, ShellsOnlyEnd
  <2>4. ShellsAreListed'
    BY <1>3, <2>3 DEF Inv, Close, ShellsAreListed, ShellsOnlyEnd
  <2> QED  BY <1>3, <2>2, <2>3, <2>4, ShellsEnd DEF Inv, TypeOK, Close
<1>4. CASE CloseSweeps
  <2>1. ShellsOnlyEnd /\ ShellsAreListed'
    BY <1>4 DEF CloseSweeps, Open, Known, ShellsOnlyEnd, ShellsAreListed
  <2> QED  BY <1>4, <2>1, ShellsEnd DEF Inv, TypeOK, CloseSweeps
<1>5. CASE UNCHANGED vars
  BY <1>5 DEF Inv, TypeOK, Exclusive, OneShellPerGraph, ShellsAreListed, ShellsOnlyEnd, Known, Open, vars
<1>6. ASSUME NEW c \in Client,
             \/ Refused(c) \/ InputWrites(c) \/ ExecuteAdmits(c) \/ ResumesPinned(c)
             \/ \E g \in Graph : OpenBegins(c, g) \/ ExecuteBegins(c, g) \/ ResumeBegins(c, g)
             \/ \E s \in Session : InputBegins(c, s)
      PROVE  Inv' /\ ShellsOnlyEnd
  <2>1. UNCHANGED <<session, listed, server>>
    BY <1>6 DEF Refused, InputWrites, ExecuteAdmits, ResumesPinned, OpenBegins, ExecuteBegins, ResumeBegins,
                InputBegins, Begins
  <2> QED  BY <1>6, <2>1, RequestsKeep, RunsKeep DEF ShellsOnlyEnd, Known, Open
<1>7. ASSUME NEW g \in Graph, RunPauses(g) \/ RunEnds(g) \/ \E path \in Folder : Rebind(g, path)
      PROVE  Inv' /\ ShellsOnlyEnd
  <2>1. UNCHANGED <<session, listed, server>>
    BY <1>7 DEF RunPauses, RunEnds, Rebind
  <2> QED  BY <1>7, <2>1, RunsKeep DEF ShellsOnlyEnd, Known, Open
<1> QED  BY <1>1, <1>2, <1>3, <1>4, <1>5, <1>6, <1>7, SpawnKeeps DEF Next

\* Shells are finitely many, because each is opened while there is room.
LEMMA BoundedStep ==
  ASSUME TerminalAssumption, ShellsAreFinite, ShellsBounded, Inv, [Next]_vars
  PROVE  ShellsAreFinite' /\ ShellsBounded'
<1> DEFINE shells == {s \in Session : Known(s)}
<1>1. Cardinality(shells) \in Nat /\ Cardinality(shells) <= MaxSessions /\ MaxSessions \in Nat
  BY FS_CardinalityType DEF TerminalAssumption, ShellsAreFinite, ShellsBounded
<1>2. ASSUME NEW c \in Client, NEW s \in Session, OpenSpawns(c, s)
      PROVE  IsFiniteSet(shells') /\ ShellsBounded'
  <2>1. Cardinality(shells) < MaxSessions
    <3>1. shells = {x \in listed : Open(x)}
      BY KnownIsListed DEF Inv, TypeOK
    <3> QED  BY <1>2, <3>1 DEF OpenSpawns, HasRoom
  <2>2. shells' \subseteq shells \cup {s}
    BY <1>2 DEF Inv, TypeOK, OpenSpawns, Spawn, Known, Open
  <2>3. /\ IsFiniteSet(shells \cup {s})
        /\ Cardinality(shells \cup {s}) <= Cardinality(shells) + 1
    <3>1. IsFiniteSet(shells \cup {s})
          /\ (Cardinality(shells \cup {s}) = Cardinality(shells)
               \/ Cardinality(shells \cup {s}) = Cardinality(shells) + 1)
      BY FS_AddElement DEF ShellsAreFinite
    <3> QED  BY <1>1, <3>1
  <2>4. IsFiniteSet(shells') /\ Cardinality(shells') <= Cardinality(shells \cup {s})
    BY <2>2, <2>3, FS_Subset
  <2>5. Cardinality(shells') \in Nat /\ Cardinality(shells \cup {s}) \in Nat
    BY <2>3, <2>4, FS_CardinalityType
  <2> QED  BY <1>1, <2>1, <2>3, <2>4, <2>5 DEF ShellsBounded
<1>3. CASE \A c \in Client, s \in Session : ~OpenSpawns(c, s)
  <2>1. shells' \subseteq shells
    BY <1>3, StepInv DEF ShellsOnlyEnd
  <2>2. IsFiniteSet(shells') /\ Cardinality(shells') <= Cardinality(shells)
    BY <2>1, FS_Subset DEF ShellsAreFinite
  <2>3. Cardinality(shells') \in Nat
    BY <2>2, FS_CardinalityType
  <2> QED  BY <1>1, <2>2, <2>3 DEF ShellsBounded, ShellsAreFinite
<1> QED  BY <1>2, <1>3 DEF ShellsAreFinite

LEMMA InitIInv == TerminalAssumption /\ Init => IInv
<1> SUFFICES ASSUME TerminalAssumption, Init PROVE IInv
  OBVIOUS
<1>1. {s \in Session : Known(s)} = {}
  BY DEF Init, Known, Open
<1>2. ShellsAreFinite /\ ShellsBounded
  BY <1>1, FS_EmptySet DEF TerminalAssumption, ShellsAreFinite, ShellsBounded
<1> QED  BY <1>2, InitInv DEF IInv

LEMMA NextIInv == TerminalAssumption /\ IInv /\ [Next]_vars => IInv'
  BY StepInv, BoundedStep DEF IInv

\* What a shell and an execution are kept apart by is kept by every step.
THEOREM Invariance ==
  ASSUME TerminalAssumption
  PROVE  Spec => []IInv
<1>1. Init => IInv
  BY InitIInv
<1>2. IInv /\ [Next]_vars => IInv'
  BY NextIInv
<1> QED  BY <1>1, <1>2, PTL DEF Spec

\* Sessions and requests keep their shape; a session that was opened has a graph.
THEOREM TypeCorrectness ==
  ASSUME TerminalAssumption
  PROVE  Spec => []TypeOK
<1>1. IInv => TypeOK
  BY DEF IInv, Inv
<1> QED  BY <1>1, Invariance, PTL

\* No shell is open in a folder in which an execution is active or paused, however
\* the requests to open, to execute, to resume and to rebind interleave, until close()
\* has cleared the map; after that, none of those in the map.
THEOREM Exclusion ==
  ASSUME TerminalAssumption
  PROVE  Spec => []Exclusive
<1>1. IInv => Exclusive
  BY DEF IInv, Inv
<1> QED  BY <1>1, Invariance, PTL

\* A graph has one shell at most, however many requests wait to open one, until close()
\* has cleared the map; after that, one in the map.
THEOREM SingleShell ==
  ASSUME TerminalAssumption
  PROVE  Spec => []OneShellPerGraph
<1>1. IInv => OneShellPerGraph
  BY DEF IInv, Inv
<1> QED  BY <1>1, Invariance, PTL

\* "Sessions are in memory, capped at eight": the limit holds across requests that all
\* saw room before they waited for the file system.  After close() has cleared the map
\* it counts those in the map.
THEOREM CappedShells ==
  ASSUME TerminalAssumption
  PROVE  Spec => []ShellsBounded
<1>1. IInv => ShellsBounded
  BY DEF IInv, Inv
<1> QED  BY <1>1, Invariance, PTL
==============================================================================
