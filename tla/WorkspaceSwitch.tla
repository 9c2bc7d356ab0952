--------------------------- MODULE WorkspaceSwitch ---------------------------
(***************************************************************************)
(* The window goes from one workspace to another: it opens on the first,   *)
(* and the user creates, selects, rebinds and deletes workspaces.  Each of *)
(* these saves the draft that is shown, asks the server, and loads a       *)
(* workspace in two answers: the bundle, and the history of its last run.  *)
(*                                                                         *)
(* What is shown is told apart by the workspace it belongs to; a draft is  *)
(* the set of edits in it.  A request fails before or after the server has *)
(* done its part.  What happens inside one workspace is in Workbench.      *)
(***************************************************************************)
EXTENDS Naturals, Sequences, SequencesExt

CONSTANTS Workspaces, None,
          MaxEdits,    \* bound of the edits
          Patient      \* whether the user waits for everything that is under way

SwitchAssumption == None \notin Workspaces /\ MaxEdits \in Nat /\ Patient \in BOOLEAN

VARIABLES
    stored, saved,   \* the server: the workspaces that exist and ever existed, their drafts
    runs,            \* the workspaces that have a run
    graphs,          \* the list in the window
    shown, content, dirty,             \* graph: its workspace, its edits, "unsaved"
    run, plan, sources, artifacts, hits,   \* the workspace each belongs to
    loading,
    load,            \* the load of the start and the one of the command
    main,            \* the command under way (busy)
    search, refresh, \* a search of the sources, a reload of the artifacts
    made, dropped    \* observers: the edits by workspace, the workspaces deleted

server == <<stored, saved, runs>>
graph  == <<shown, content, dirty>>
side   == <<run, plan, sources, artifacts, hits>>
tasks  == <<search, refresh>>
vars   == <<stored, saved, runs, graphs, shown, content, dirty, run, plan, sources, artifacts, hits,
            loading, load, main, search, refresh, made, dropped>>

Slots  == {"start", "command"}
NoLoad == [at |-> "none", of |-> None]
NoMain == [op |-> "none", at |-> "none", of |-> None]
Maybe    == Workspaces \cup {None}
MadeIn(w) == {e \in 1 .. Len(made) : made[e] = w}

TypeOK ==
    /\ stored \subseteq Workspaces /\ saved \in [Workspaces -> SUBSET (1 .. MaxEdits)]
    /\ \A i \in DOMAIN graphs : graphs[i] \in Workspaces
    /\ {shown, run, plan, sources, artifacts, hits, search, refresh} \subseteq Maybe
    /\ \A s \in Slots : load[s].at \in {"none", "bundle", "history"} /\ (load[s].at = "none" <=> load[s] = NoLoad)
    /\ main.op \in {"none", "create", "switch", "rebind", "delete"} /\ main.at \in {"none", "save", "request", "load"}
    /\ main.at = "load" <=> load["command"] # NoLoad
    /\ shown = None => ~dirty /\ content = {}

Init ==
    /\ stored \in SUBSET Workspaces /\ saved = [w \in Workspaces |-> {}] /\ runs \in SUBSET stored
    /\ graphs = <<>> /\ shown = None /\ content = {} /\ dirty = FALSE
    /\ run = None /\ plan = None /\ sources = None /\ artifacts = None /\ hits = None
    /\ loading = TRUE /\ load = [s \in Slots |-> NoLoad] /\ main = NoMain
    /\ search = None /\ refresh = None /\ made = <<>> /\ dropped = {}

------------------------------------------------------------------------------
(* Loading a workspace                                                     *)

\* loadWorkspace: the list, and its first workspace.
Opens ==
    /\ loading /\ load["start"] = NoLoad /\ main = NoMain /\ graphs = <<>> /\ shown = None
    /\ graphs' = SetToSeq(stored)
    /\ IF stored = {} THEN loading' = FALSE /\ UNCHANGED load
       ELSE loading' = TRUE /\ load' = [load EXCEPT !["start"] = [at |-> "bundle", of |-> Head(graphs')]]
    /\ UNCHANGED <<server, graph, side, main, tasks, made, dropped>>

\* Mutant: the command stays under way when its load has ended.
LoadEndsBusy(s) == load' = [load EXCEPT ![s] = NoLoad] /\ loading' = FALSE /\ UNCHANGED main

\* Mutant: only the command's end is noticed.
LoadEndsLoading(s) ==
    /\ load' = [load EXCEPT ![s] = NoLoad] /\ UNCHANGED loading
    /\ main' = IF s = "command" THEN NoMain ELSE main

\* The last step of loadGraph; the command that waited for it is over.
LoadEnds(s) ==
    /\ load' = [load EXCEPT ![s] = NoLoad] /\ loading' = FALSE
    /\ main' = IF s = "command" THEN NoMain ELSE main

\* Mutant: what was shown of the last workspace's run stays until the history arrives.
RunShownStill == run

RunShownFirst == None

\* The bundle replaces the graph and empties what was shown of its run.
BundleArrives(s) ==
    LET w == load[s].of IN
    /\ load[s].at = "bundle" /\ w \in stored
    /\ shown' = w /\ content' = saved[w] /\ dirty' = FALSE
    /\ sources' \in {w, None}
    /\ run' = RunShownFirst /\ artifacts' = None /\ hits' = None
    /\ IF w \in runs
       THEN load' = [load EXCEPT ![s].at = "history"] /\ UNCHANGED <<plan, loading, main>>
       ELSE plan' = w /\ LoadEnds(s)
    /\ UNCHANGED <<server, graphs, tasks, made, dropped>>

\* The history, or without it the run of the bundle: neither looks at what is shown now.
HistoryArrives(s) ==
    LET w == load[s].of IN
    /\ load[s].at = "history"
    /\ run' = w /\ artifacts' = w /\ plan' = w
    /\ LoadEnds(s)
    /\ UNCHANGED <<server, graphs, graph, sources, hits, tasks, made, dropped>>

LoadFails(s) ==
    /\ load[s].at = "bundle" /\ LoadEnds(s)
    /\ UNCHANGED <<server, graphs, graph, side, tasks, made, dropped>>

------------------------------------------------------------------------------
(* The user                                                                *)

Waits == Patient /\ (loading \/ search # None \/ refresh # None)

EditsDraft ==
    /\ shown # None /\ ~loading /\ main = NoMain /\ Len(made) < MaxEdits
    /\ made' = Append(made, shown) /\ content' = content \cup {Len(made')} /\ dirty' = TRUE
    /\ UNCHANGED <<server, graphs, shown, side, loading, load, main, tasks, dropped>>

\* Mutant: a draft is left as it is.
LeavesUnsaved(op) == "request"

\* persistCurrentDraftBeforeLeaving comes first, and for a deletion not at all.
Leaves(op) == IF dirty /\ op # "delete" THEN "save" ELSE "request"

Begins(op, w) ==
    /\ main = NoMain /\ ~Waits
    /\ op # "create" => shown # None
    /\ op = "create" => shown # None \/ ~loading
    /\ CASE op = "create" -> w = None
         [] op = "switch" -> w \in Range(graphs) \ {shown}
         [] OTHER         -> w = shown
    /\ main' = [op |-> op, at |-> Leaves(op), of |-> w]
    /\ UNCHANGED <<server, graphs, graph, side, loading, load, tasks, made, dropped>>

\* loadGraph is called.
Loads(w) ==
    /\ load' = [load EXCEPT !["command"] = [at |-> "bundle", of |-> w]] /\ loading' = TRUE
    /\ main' = [main EXCEPT !.at = "load", !.of = w]

Saves ==
    /\ main.at = "save" /\ shown \in stored
    /\ saved' = [saved EXCEPT ![shown] = content] /\ dirty' = FALSE
    /\ main' = [main EXCEPT !.at = "request"]
    /\ UNCHANGED <<stored, runs, graphs, shown, content, side, loading, load, tasks, made, dropped>>

\* Nothing is asked for: the workspace is only loaded.
Switches ==
    /\ main.op = "switch" /\ main.at = "request" /\ Loads(main.of)
    /\ UNCHANGED <<server, graphs, graph, side, tasks, made, dropped>>

Rebinds ==
    /\ main.op = "rebind" /\ main.at = "request" /\ main.of \in stored /\ Loads(main.of)
    /\ UNCHANGED <<server, graphs, graph, side, tasks, made, dropped>>

Creates(w) ==
    /\ main.op = "create" /\ main.at = "request" /\ w \in Workspaces \ (stored \cup dropped)
    /\ stored' = stored \cup {w} /\ graphs' = <<w>> \o graphs /\ Loads(w)
    /\ UNCHANGED <<saved, runs, graph, side, tasks, made, dropped>>

\* The rest of the list as it was when the deletion was asked for.
Deletes ==
    LET remaining == SelectSeq(graphs, LAMBDA g : g # main.of) IN
    /\ main.op = "delete" /\ main.at = "request" /\ main.of \in stored
    /\ stored' = stored \ {main.of} /\ dropped' = dropped \cup {main.of} /\ graphs' = remaining
    /\ IF remaining # <<>> THEN Loads(Head(remaining)) /\ UNCHANGED <<graph, side>>
       ELSE /\ shown' = None /\ content' = {} /\ dirty' = FALSE
            /\ run' = None /\ plan' = None /\ sources' = None /\ artifacts' = None /\ hits' = None
            /\ main' = NoMain /\ loading' = FALSE /\ UNCHANGED load
    /\ UNCHANGED <<saved, runs, tasks, made>>

\* A command fails; the server may have done its part.
Fails ==
    /\ main.at = "save" \/ (main.at = "request" /\ main.op # "switch")
    /\ \/ UNCHANGED <<stored, saved, dropped>>
       \/ main.at = "save" /\ saved' = [saved EXCEPT ![shown] = content] /\ UNCHANGED <<stored, dropped>>
       \/ /\ main.op = "delete" /\ stored' = stored \ {main.of} /\ dropped' = dropped \cup {main.of}
          /\ UNCHANGED saved
    /\ main' = NoMain
    /\ UNCHANGED <<runs, graphs, graph, side, loading, load, tasks, made>>

\* searchSources, and refreshArtifacts at an event of the run: both write what they are answered.
Searches ==
    /\ shown # None /\ ~loading /\ search = None /\ main = NoMain /\ search' = shown
    /\ UNCHANGED <<server, graphs, graph, side, loading, load, main, refresh, made, dropped>>

SearchAnswers ==
    /\ search # None /\ hits' \in {search, None} /\ search' = None
    /\ UNCHANGED <<server, graphs, graph, run, plan, sources, artifacts, loading, load, main, refresh, made, dropped>>

Refreshes ==
    /\ run # None /\ refresh = None /\ ~(Patient /\ main # NoMain) /\ refresh' = run
    /\ UNCHANGED <<server, graphs, graph, side, loading, load, main, search, made, dropped>>

RefreshAnswers ==
    /\ refresh # None /\ artifacts' \in {refresh, None} /\ refresh' = None
    /\ UNCHANGED <<server, graphs, graph, run, plan, sources, hits, loading, load, main, search, made, dropped>>

Answered ==
    \/ Opens \/ Saves \/ Switches \/ Rebinds \/ Deletes \/ Fails \/ SearchAnswers \/ RefreshAnswers
    \/ \E s \in Slots : BundleArrives(s) \/ HistoryArrives(s) \/ LoadFails(s)
    \/ \E w \in Workspaces : Creates(w)

Next ==
    \/ Answered \/ EditsDraft \/ Searches \/ Refreshes
    \/ \E op \in {"create", "switch", "rebind", "delete"}, w \in Maybe : Begins(op, w)

\* Every request is answered or fails.
Spec == Init /\ [][Next]_vars /\ WF_vars(Answered)

------------------------------------------------------------------------------
Settled == ~loading /\ main = NoMain

\* The plan, run, sources, artifacts and search results that the user acts on are
\* those of the workspace that is shown; between the two answers of a load the
\* plan is still the old one, and `busy` keeps the user from it.
ShownBelongTogether == Settled => {run, plan, sources, artifacts, hits} \subseteq {None, shown}

\* "keeps the current workspace active and does not create another workspace when its
\* dirty draft cannot be saved": whatever the user creates, selects, rebinds and in
\* whichever order answers arrive, an edit is in the window or in its own
\* workspace's stored draft, unless the workspace was deleted.
EditsAreKept ==
    \A w \in Workspaces \ dropped :
        /\ saved[w] \subseteq MadeIn(w)
        /\ MadeIn(w) \subseteq IF shown = w THEN content ELSE saved[w]

\* The window does not stay busy or loading.
WindowSettles == []<>Settled
==============================================================================
