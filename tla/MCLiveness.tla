----------------------------- MODULE MCLiveness ------------------------------
(***************************************************************************)
(* The liveness of the components, side by side, for TLC.                  *)
(*                                                                         *)
(* A behaviour is of one component; the others stay as they were at first. *)
(* Every fair action is one of the component's own fairness condition.     *)
(* EngineShutdown, whose assumption is evaluated here, has variables of    *)
(* its own.                                                                *)
(***************************************************************************)
EXTENDS EngineShutdown, Sequences, TLC

CONSTANTS
    Components,  \* those of which a behaviour is taken
    None, p1, p2, c1, c2, m1, m2, openai, codex

VARIABLES
    component,   \* the one that this behaviour is of
    run1, run2, run3, run4, run5, run6, run7, run8, run9, run10, run11, run12,
    run13, run14, run15,
    simulated1, simulated2, simulated3, simulated4, simulated5, simulated6,
    simulated7, simulated8, simulated9, simulated10, simulated11, simulated12,
    simulated13, simulated14, simulated15,
    chat1, chat2, chat3, chat4, chat5, chat6, chat7, chat8, chat9,
    harness1, harness2, harness3, harness4, harness5, harness6,
    detect1, detect2, detect3, detect4, detect5, detect6, detect7, detect8, detect9,
    source1, source2, source3, source4, source5, source6, source7, source8,
    child1, child2, child3, child4, child5, child6, child7, child8, child9, child10,
    child11, child12, child13, child14, child15,
    review1, review2, review3, review4, review5, review6, review7, review8, review9,
    review10, review11, review12, review13,
    owner1, owner2, owner3, owner4, owner5, owner6, owner7, owner8,
    client1, client2, client3, client4, client5, client6, client7, client8, client9,
    client10, client11, client12, client13, client14,
    import1, import2, import3, import4, import5, import6, import7, import8, import9,
    import10, import11, import12,
    event1, event2, event3, event4, event5, event6, event7, event8, event9, event10,
    event11, event12, event13,
    window1, window2, window3, window4, window5, window6, window7, window8, window9,
    window10, window11, window12, window13, window14, window15, window16, window17,
    window18,
    switch1, switch2, switch3, switch4, switch5, switch6, switch7, switch8, switch9,
    switch10, switch11, switch12, switch13, switch14, switch15, switch16, switch17,
    switch18, switch19

Is(c) == component = c

\* ExecutionRunner: "build" needs "design", "verify" needs both, and the plan does not
\* list them in that order.
Steps        == {"design", "build", "verify"}
Dependencies == [design |-> {}, build |-> {"design"}, verify |-> {"design", "build"}]
PlanOrder    == [verify |-> 1, design |-> 2, build |-> 3]

\* HarnessRunner, Autodetect, EvidenceSources, NodeReview
StageRoom   == [brief |-> 1, review |-> 1, compose |-> 2]
Kinds       == (openai :> "hosted") @@ (codex :> "cli")
Offers      == (openai :> {m1}) @@ (codex :> {})
Manifest(b) == <<"manifest", b>>
Entry(s, q) == [status |-> s, recorded |-> TRUE, quoted |-> q, invented |-> 0]

------------------------------------------------------------------------------
Runner == INSTANCE ExecutionRunner WITH
    None <- None, Node <- Steps, DependsOn <- Dependencies, Position <- PlanOrder,
    Selected <- Steps, Live <- {"build", "verify"}, Breakpoint <- {"build"},
    ReviewRequired <- {"verify"}, SimulatedPlan <- FALSE, MaxAttempts <- 2,
    MaxEvents <- 6,
    status <- run1, pauseRequested <- run2, currentNodeId <- run3,
    completedNodeIds <- run4, passedBreakpointNodeIds <- run5, events <- run6,
    server <- run7, pc <- run8, step <- run9, attempt <- run10, accepted <- run11,
    aborted <- run12, drift <- run13, fresh <- run14, pinsCurrent <- run15

Simulated == INSTANCE ExecutionRunner WITH
    None <- None, Node <- Steps, DependsOn <- Dependencies, Position <- PlanOrder,
    Selected <- Steps, Live <- {}, Breakpoint <- {"build"},
    ReviewRequired <- {"verify"}, SimulatedPlan <- TRUE, MaxAttempts <- 2,
    MaxEvents <- 6,
    status <- simulated1, pauseRequested <- simulated2, currentNodeId <- simulated3,
    completedNodeIds <- simulated4, passedBreakpointNodeIds <- simulated5,
    events <- simulated6, server <- simulated7, pc <- simulated8, step <- simulated9,
    attempt <- simulated10, accepted <- simulated11, aborted <- simulated12,
    drift <- simulated13, fresh <- simulated14, pinsCurrent <- simulated15

Chat == INSTANCE Chat WITH
    Conversations <- {c1}, Posts <- {p1, p2}, Applies <- {}, MaxDraft <- 1,
    MaxChanges <- 1,
    now <- chat1, executing <- chat2, running <- chat3, post <- chat4,
    message <- chat5, run <- chat6, proposal <- chat7, apply <- chat8,
    applied <- chat9

Harness == INSTANCE HarnessRunner WITH
    Runs <- {p1}, Budget <- 6, InputTokens <- 1, Least <- 1, Room <- StageRoom,
    Values <- {1}, MaxReported <- 3, CacheSize <- 2, MaxAttempts <- 3,
    row <- harness1, work <- harness2, cache <- harness3, moved <- harness4,
    spent <- harness5, made <- harness6

Detect == INSTANCE Autodetect WITH
    Unset <- None, DetectModels <- {m1}, Order <- <<openai, codex>>, KindOf <- Kinds,
    Offers <- Offers, Registered <- {openai, codex}, WithKey <- {openai},
    DetectOverlap <- TRUE, MaxRounds <- 2,
    at <- detect1, phase <- detect2, existing <- detect3, chosen <- detect4,
    conn <- detect5, detectProfile <- detect6, results <- detect7, failed <- detect8,
    rounds <- detect9

Evidence == INSTANCE EvidenceSources WITH
    NoContent <- None, Writers <- {p1, p2}, Bytes <- {m1}, Contents <- {m1, Manifest(m1)},
    Supported <- {m1}, Parseable <- {m1}, ManifestOf <- Manifest,
    DirectorySync <- FALSE,
    put <- source1, file <- source2, object <- source3, published <- source4,
    cut <- source5, graph <- source6, upload <- source7, sources <- source8

Codex == INSTANCE CodexChild WITH
    Kinds <- {"planner", "chat", "execution"}, MaxSignals <- 2,
    kind <- child1, heeds <- child2, step <- child3, child <- child4, code <- child5,
    termed <- child6, aborted <- child7, reason <- child8, timer <- child9,
    kill <- child10, stray <- child11, over <- child12, directory <- child13,
    server <- child14, stopped <- child15

Review == INSTANCE NodeReview WITH
    Reviewers <- 2, Criteria <- 1,
    Entries <- {Entry("supported", 1), Entry("contradicted", 0)}, MaxChanges <- 1,
    MaxEdits <- 1,
    config <- review1, connected <- review2, edits <- review3, stage <- review4,
    who <- review5, result <- review6, admitted <- review7, reviewed <- review8,
    used <- review9, answers <- review10, controller <- review11, clock <- review12,
    signal <- review13

Owner == INSTANCE StorageOwner WITH
    None <- None, Apps <- {p1, p2}, Together <- FALSE,
    pc <- owner1, alive <- owner2, lock <- owner3, data <- owner4, pidfile <- owner5,
    pg <- owner6, guardian <- owner7, crashed <- owner8

Storage == INSTANCE StorageClient WITH
    MaxRequests <- 5, MaxDepth <- 2,
    caller <- client1, request <- client2, requests <- client3, stack <- client4,
    closed <- client5, queue <- client6, gate <- client7, port <- client8,
    levels <- client9, aborted <- client10, committed <- client11,
    reported <- client12, refused <- client13, doubtful <- client14

Import == INSTANCE LegacyImport WITH
    Nothing <- None, Sources <- {m1, m2}, MaxCrashes <- 2, MaxWrites <- 2,
    legacy <- import1, damaged <- import2, importer <- import3, snapshot <- import4,
    left <- import5, objects <- import6, rows <- import7, written <- import8,
    record <- import9, marker <- import10, app <- import11, crashes <- import12

Events == INSTANCE EventStream WITH
    MaxEvents <- 3, MaxLosses <- 1,
    log <- event1, conn <- event2, wire <- event3, query <- event4, lastId <- event5,
    cursor <- event6, events <- event7, shown <- event8, loading <- event9,
    snapshot <- event10, pause <- event11, cancel <- event12, losses <- event13

Window == INSTANCE Workbench WITH
    Nodes <- {c1}, Selections <- {{}, {c1}}, MaxEdits <- 1, MaxDrafts <- 2,
    MaxPlans <- 1, ApprovesMeanwhile <- FALSE, SendsMeanwhile <- FALSE,
    drafts <- window1, plans <- window2, run <- window3, content <- window4,
    revision <- window5, dirty <- window6, undo <- window7, redo <- window8,
    edits <- window9, active <- window10, scope <- window11, asked <- window12,
    main <- window13, approval <- window14, busy <- window15, saving <- window16,
    locked <- window17, adopt <- window18

Switch == INSTANCE WorkspaceSwitch WITH
    None <- None, Workspaces <- {c1, c2}, MaxEdits <- 1, Patient <- TRUE,
    stored <- switch1, saved <- switch2, runs <- switch3, graphs <- switch4,
    shown <- switch5, content <- switch6, dirty <- switch7, run <- switch8,
    plan <- switch9, sources <- switch10, artifacts <- switch11, hits <- switch12,
    loading <- switch13, load <- switch14, main <- switch15, search <- switch16,
    refresh <- switch17, made <- switch18, dropped <- switch19

ASSUME Constants ==
    /\ Runner!NodeAssumption /\ Runner!SelectionAssumption /\ Runner!ConfigurationAssumption
    /\ Simulated!NodeAssumption /\ Simulated!SelectionAssumption /\ Simulated!ConfigurationAssumption
    /\ Chat!ChatAssumption /\ Chat!NilAssumption /\ Harness!HarnessAssumption
    /\ Detect!AutodetectAssumption /\ Evidence!SourcesAssumption /\ Evidence!StoreAssumption
    /\ Codex!ChildAssumption /\ Review!ReviewAssumption /\ Owner!OwnerAssumption
    /\ Storage!ClientAssumption /\ Import!ImportAssumption /\ Events!StreamAssumption
    /\ Window!BoundAssumption /\ Switch!SwitchAssumption

------------------------------------------------------------------------------
\* What a component leaves alone: the variables of the others.
runVars == <<run1, run2, run3, run4, run5, run6, run7, run8, run9, run10, run11,
    run12, run13, run14, run15>>
simulatedVars == <<simulated1, simulated2, simulated3, simulated4, simulated5,
    simulated6, simulated7, simulated8, simulated9, simulated10, simulated11,
    simulated12, simulated13, simulated14, simulated15>>
chatVars == <<chat1, chat2, chat3, chat4, chat5, chat6, chat7, chat8, chat9>>
harnessVars == <<harness1, harness2, harness3, harness4, harness5, harness6>>
detectVars == <<detect1, detect2, detect3, detect4, detect5, detect6, detect7,
    detect8, detect9>>
sourceVars == <<source1, source2, source3, source4, source5, source6, source7,
    source8>>
childVars == <<child1, child2, child3, child4, child5, child6, child7, child8,
    child9, child10, child11, child12, child13, child14, child15>>
reviewVars == <<review1, review2, review3, review4, review5, review6, review7,
    review8, review9, review10, review11, review12, review13>>
ownerVars == <<owner1, owner2, owner3, owner4, owner5, owner6, owner7, owner8>>
clientVars == <<client1, client2, client3, client4, client5, client6, client7,
    client8, client9, client10, client11, client12, client13, client14>>
importVars == <<import1, import2, import3, import4, import5, import6, import7,
    import8, import9, import10, import11, import12>>
eventVars == <<event1, event2, event3, event4, event5, event6, event7, event8,
    event9, event10, event11, event12, event13>>
windowVars == <<window1, window2, window3, window4, window5, window6, window7,
    window8, window9, window10, window11, window12, window13, window14, window15,
    window16, window17, window18>>
switchVars == <<switch1, switch2, switch3, switch4, switch5, switch6, switch7,
    switch8, switch9, switch10, switch11, switch12, switch13, switch14, switch15,
    switch16, switch17, switch18, switch19>>

allVars == <<component, engineVars, runVars, simulatedVars, chatVars, harnessVars,
    detectVars, sourceVars, childVars, reviewVars, ownerVars, clientVars,
    importVars, eventVars, windowVars, switchVars>>

SideInit ==
    /\ component \in Components
    /\ EngineInit
    /\ Runner!Init /\ (~Is("runner") => run4 = {})
    /\ Simulated!Init /\ (~Is("simulated runner") => simulated4 = {})
    /\ Chat!Init
    /\ Harness!HarnessInit
    /\ Detect!DetectInit /\ (~Is("autodetect") => detect6 = [p \in {openai, codex} |-> [enabled |-> TRUE, model |-> m1]])
    /\ Evidence!SourcesInit
    /\ Codex!ChildInit /\ (~Is("codex") => child1 = "chat" /\ child2 = TRUE)
    /\ Review!ReviewInit /\ (~Is("review") => review1 = 0 /\ review2 = TRUE /\ review3 = 0)
    /\ Owner!Init /\ (~Is("owner") => owner4 = "none")
    /\ Storage!ClientInit
    /\ Import!ImportInit /\ (~Is("import") => import1 = {} /\ import2 = {} /\ import7 = None)
    /\ Events!Init
    /\ Window!Init
    /\ Switch!Init /\ (~Is("workspaces") => switch1 = {} /\ switch3 = {})

SideNext ==
    \/ Is("shutdown") /\ EngineNext
       /\ UNCHANGED <<component, runVars, simulatedVars, chatVars, harnessVars, detectVars,
        sourceVars, childVars, reviewVars, ownerVars, clientVars, importVars,
        eventVars, windowVars, switchVars>>
    \/ Is("runner") /\ Runner!Next
       /\ UNCHANGED <<component, engineVars, simulatedVars, chatVars, harnessVars, detectVars,
        sourceVars, childVars, reviewVars, ownerVars, clientVars, importVars,
        eventVars, windowVars, switchVars>>
    \/ Is("simulated runner") /\ Simulated!Next
       /\ UNCHANGED <<component, engineVars, runVars, chatVars, harnessVars, detectVars, sourceVars,
        childVars, reviewVars, ownerVars, clientVars, importVars, eventVars,
        windowVars, switchVars>>
    \/ Is("chat") /\ Chat!Next
       /\ UNCHANGED <<component, engineVars, runVars, simulatedVars, harnessVars, detectVars,
        sourceVars, childVars, reviewVars, ownerVars, clientVars, importVars,
        eventVars, windowVars, switchVars>>
    \/ Is("harness") /\ Harness!HarnessNext
       /\ UNCHANGED <<component, engineVars, runVars, simulatedVars, chatVars, detectVars, sourceVars,
        childVars, reviewVars, ownerVars, clientVars, importVars, eventVars,
        windowVars, switchVars>>
    \/ Is("autodetect") /\ Detect!DetectNext
       /\ UNCHANGED <<component, engineVars, runVars, simulatedVars, chatVars, harnessVars,
        sourceVars, childVars, reviewVars, ownerVars, clientVars, importVars,
        eventVars, windowVars, switchVars>>
    \/ Is("sources") /\ Evidence!SourcesNext
       /\ UNCHANGED <<component, engineVars, runVars, simulatedVars, chatVars, harnessVars,
        detectVars, childVars, reviewVars, ownerVars, clientVars, importVars,
        eventVars, windowVars, switchVars>>
    \/ Is("codex") /\ Codex!ChildNext
       /\ UNCHANGED <<component, engineVars, runVars, simulatedVars, chatVars, harnessVars,
        detectVars, sourceVars, reviewVars, ownerVars, clientVars, importVars,
        eventVars, windowVars, switchVars>>
    \/ Is("review") /\ Review!ReviewNext
       /\ UNCHANGED <<component, engineVars, runVars, simulatedVars, chatVars, harnessVars,
        detectVars, sourceVars, childVars, ownerVars, clientVars, importVars,
        eventVars, windowVars, switchVars>>
    \/ Is("owner") /\ Owner!Next
       /\ UNCHANGED <<component, engineVars, runVars, simulatedVars, chatVars, harnessVars,
        detectVars, sourceVars, childVars, reviewVars, clientVars, importVars,
        eventVars, windowVars, switchVars>>
    \/ Is("client") /\ Storage!ClientNext
       /\ UNCHANGED <<component, engineVars, runVars, simulatedVars, chatVars, harnessVars,
        detectVars, sourceVars, childVars, reviewVars, ownerVars, importVars,
        eventVars, windowVars, switchVars>>
    \/ Is("import") /\ Import!ImportNext
       /\ UNCHANGED <<component, engineVars, runVars, simulatedVars, chatVars, harnessVars,
        detectVars, sourceVars, childVars, reviewVars, ownerVars, clientVars,
        eventVars, windowVars, switchVars>>
    \/ Is("events") /\ Events!Next
       /\ UNCHANGED <<component, engineVars, runVars, simulatedVars, chatVars, harnessVars,
        detectVars, sourceVars, childVars, reviewVars, ownerVars, clientVars,
        importVars, windowVars, switchVars>>
    \/ Is("window") /\ Window!Next
       /\ UNCHANGED <<component, engineVars, runVars, simulatedVars, chatVars, harnessVars,
        detectVars, sourceVars, childVars, reviewVars, ownerVars, clientVars,
        importVars, eventVars, switchVars>>
    \/ Is("workspaces") /\ Switch!Next
       /\ UNCHANGED <<component, engineVars, runVars, simulatedVars, chatVars, harnessVars,
        detectVars, sourceVars, childVars, reviewVars, ownerVars, clientVars,
        importVars, eventVars, windowVars>>

SideFairness ==
    /\ WF_engineVars(Is("shutdown") /\ Closing)
    /\ \A r \in Request : WF_engineVars(Is("shutdown") /\ Ends(r) /\ (r \in told \/ request[r] # "chat"))
    /\ \A e \in Execution : WF_engineVars(Is("shutdown") /\ RunEnds(e) /\ e \in told)
    /\ WF_runVars(Is("runner") /\ Runner!Runner)
    /\ WF_simulatedVars(Is("simulated runner") /\ Simulated!Runner)
    /\ \A r \in {p1, p2} : WF_chatVars(Is("chat") /\ Chat!Settles(r))
    /\ WF_harnessVars(Is("harness") /\ Harness!Steps(p1))
    /\ WF_detectVars(Is("autodetect") /\ Detect!Attempt)
    /\ \A w \in {p1, p2} : WF_sourceVars(Is("sources") /\ ((Evidence!Looks(w) \/ Evidence!Creates(w) \/ Evidence!WritesFile(w) \/ Evidence!Syncs(w) \/ Evidence!Links(w)
               \/ Evidence!Loses(w) \/ Evidence!SyncsDirectory(w) \/ Evidence!Unlinks(w))
              /\ UNCHANGED <<source6, source7, source8>>))
    /\ \A w \in {p1, p2} : WF_sourceVars(Is("sources") /\ (Evidence!Parses(w) \/ Evidence!CreatesSource(w) \/ Evidence!UploadFails(w)))
    /\ WF_childVars(Is("codex") /\ Codex!Prepares)
    /\ WF_childVars(Is("codex") /\ Codex!ChildSpawns)
    /\ WF_childVars(Is("codex") /\ Codex!ChildTimeIsUp)
    /\ WF_childVars(Is("codex") /\ Codex!KillFires)
    /\ WF_childVars(Is("codex") /\ Codex!Closes)
    /\ WF_childVars(Is("codex") /\ Codex!CleansUp)
    /\ WF_childVars(Is("codex") /\ Codex!EndsAtTerm)
    /\ WF_reviewVars(Is("review") /\ Review!TakesUp)
    /\ WF_reviewVars(Is("review") /\ Review!Verifies)
    /\ WF_reviewVars(Is("review") /\ Review!CapturesContext)
    /\ WF_reviewVars(Is("review") /\ Review!Works)
    /\ WF_reviewVars(Is("review") /\ Review!ReviewBegins)
    /\ WF_reviewVars(Is("review") /\ Review!Checks)
    /\ WF_reviewVars(Is("review") /\ Review!Asks)
    /\ WF_reviewVars(Is("review") /\ Review!GivesUp)
    /\ WF_reviewVars(Is("review") /\ Review!TimeIsUp)
    /\ WF_reviewVars(Is("review") /\ Review!Rechecks)
    /\ WF_reviewVars(Is("review") /\ Review!Validates)
    /\ WF_reviewVars(Is("review") /\ Review!Decides)
    /\ WF_reviewVars(Is("review") /\ Review!Completes)
    /\ \A a \in {p1, p2} : WF_ownerVars(Is("owner") /\ Owner!GuardianStops(a))
    /\ \A a \in {p1, p2} : WF_ownerVars(Is("owner") /\ Owner!ServerStarts(a))
    /\ \A a \in {p1, p2} : WF_ownerVars(Is("owner") /\ Owner!ServerEnds(a))
    /\ WF_clientVars(Is("client") /\ Storage!WorkerRuns)
    /\ WF_importVars(Is("import") /\ Import!ImportBegins)
    /\ WF_importVars(Is("import") /\ Import!FindsRecord)
    /\ WF_importVars(Is("import") /\ Import!FindsNoRecord)
    /\ WF_importVars(Is("import") /\ Import!CopiesObject)
    /\ WF_importVars(Is("import") /\ Import!Publishes)
    /\ WF_importVars(Is("import") /\ Import!Retries)
    /\ WF_importVars(Is("import") /\ Import!AppStops)
    /\ WF_eventVars(Is("events") /\ Events!Connects)
    /\ WF_eventVars(Is("events") /\ Events!Delivers)
    /\ WF_eventVars(Is("events") /\ Events!Fetches)
    /\ WF_eventVars(Is("events") /\ Events!Loads)
    /\ WF_eventVars(Is("events") /\ Events!PauseHandled)
    /\ WF_eventVars(Is("events") /\ Events!CancelHandled)
    /\ WF_eventVars(Is("events") /\ Events!PauseAnswered)
    /\ WF_eventVars(Is("events") /\ Events!CancelAnswered)
    /\ WF_windowVars(Is("window") /\ Window!Server)
    /\ WF_windowVars(Is("window") /\ Window!Answered)
    /\ WF_windowVars(Is("window") /\ Window!Approval)
    /\ WF_windowVars(Is("window") /\ Window!Chat)
    /\ WF_windowVars(Is("window") /\ Window!Adoption)
    /\ WF_switchVars(Is("workspaces") /\ Switch!Answered)

SideSpec == SideInit /\ [][SideNext]_allVars /\ SideFairness

------------------------------------------------------------------------------
\* An active execution comes to rest unless its server stops or Codex hangs, and so
\* does one of a simulated plan.
EveryRunSettles ==
    /\ Is("runner") => Runner!EveryRunSettles
    /\ Is("simulated runner") => Simulated!EveryRunSettles

\* After a cancel the runner lets go of the execution.
CancelEndsRunner == Is("runner") => Runner!CancelEndsRunner

\* What the server has taken up ends: closing, an answer, a harness run, a round of
\* autodetection, an upload, a model call, the turn of a node; the server of an
\* application that was killed stops, the transaction of a client that was closed is
\* not held, and a commit of the importer is published.
WorkEnds ==
    /\ ClosingEnds
    /\ Is("chat") => Chat!AnswersEnd
    /\ Is("harness") => Harness!RunsEnd
    /\ Is("autodetect") => Detect!RoundEnds
    /\ Is("sources") => Evidence!UploadsEnd
    /\ Is("codex") => Codex!EveryCallEnds
    /\ Is("review") => Review!TurnEnds
    /\ Is("owner") => Owner!GuardedEnd
    /\ Is("client") => Storage!LocksAreReleased
    /\ Is("import") => Import!CommittedIsPublished

\* What is stored reaches the window, which is not left locked, and settles after
\* workspaces were switched.
WindowFollows ==
    /\ Is("events") => Events!EventsArrive
    /\ Is("window") => Window!UnlocksAgain
    /\ Is("workspaces") => Switch!WindowSettles
==============================================================================
