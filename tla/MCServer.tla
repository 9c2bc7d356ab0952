------------------------------ MODULE MCServer -------------------------------
(***************************************************************************)
(* The protocols of the local server side by side, for TLC.                *)
(*                                                                         *)
(* A behaviour is of one component, which takes the variables it needs     *)
(* from v1, v2 and so on; Terminals, whose assumption is evaluated here,   *)
(* has variables of its own and rests otherwise.                           *)
(*                                                                         *)
(* p1 and p2 (requests, writers, runs), and q1 and q2 (sessions, records,  *)
(* applications) are interchangeable.                                      *)
(***************************************************************************)
EXTENDS Terminals, Functions, TLC

CONSTANTS
    Components,  \* those of which a behaviour is taken
    here, g1, p1, p2, q1, q2, c1, c2, m1, m2, openai, anthropic, ollama, codex

VARIABLES
    component,   \* the one that this behaviour is of
    v1, v2, v3, v4, v5, v6, v7, v8, v9, v10, v11, v12, v13, v14, v15  \* its variables

Is(c) == component = c

\* HarnessRunner
StageRoom == [brief |-> 1, review |-> 1, compose |-> 2]
NoRoom    == [brief |-> 0, review |-> 0, compose |-> 0]

\* Autodetect: the overlapping rounds ask one hosted provider and the command.
AllProviders == <<openai, anthropic, ollama, codex>>
TwoProviders == <<openai, codex>>
KindsOf(order) ==
    [p \in Range(order) |-> CASE p = ollama -> "local" [] p = codex -> "cli" [] OTHER -> "hosted"]
OffersOf(order) ==
    [p \in Range(order) |-> CASE p = ollama -> {m2} [] p = codex -> {} [] OTHER -> {m1, m2}]

\* EvidenceSources: m1 is parsed, m2 is not, c1 has no parser.
Uploads             == {m1, m2, c1}
ManifestOfUpload(b) == <<"manifest", b>>
StoredOf(uploads)   == uploads \cup {ManifestOfUpload(b) : b \in uploads}

\* Traces
ParentsOf(keys) == [k \in keys |-> IF k = "model" /\ "planner" \in keys THEN "planner" ELSE "root"]

\* CodexReceipt: every second save doubles the file.
SizeOf(c) == 1 + (c % 2)

\* NodeReview
Entry(s, r, q, i) == [status |-> s, recorded |-> r, quoted |-> q, invented |-> i]
ReviewEntries ==
    {Entry("supported", TRUE, 1, 0), Entry("supported", TRUE, 1, 1), Entry("supported", TRUE, 0, 0),
     Entry("supported", FALSE, 1, 0), Entry("contradicted", TRUE, 1, 0)}

Interchangeable == Permutations({p1, p2}) \cup Permutations({q1, q2})

------------------------------------------------------------------------------
\* Terminals with room for more than one shell
Shells == INSTANCE Terminals WITH MaxSessions <- 2

\* They and the components below come with theorems, which ServerProofs uses.  A module
\* of proofs is of several components: an instance of it gives each of them values.
\*
\* Chat, HarnessRunner, HarnessMemory and Traces: a harness run within a budget, and a
\* trace of nested spans; two runs that share the cache, and two traces.
Conversation == INSTANCE ConversationProofs WITH
    Conversations <- {c1}, Posts <- {p1, p2}, Applies <- {q1, q2}, MaxDraft <- 3,
    MaxChanges <- 1,
    now <- v1, executing <- v2, running <- v3, post <- v4, message <- v5, run <- v6,
    proposal <- v7, apply <- v8, applied <- v9,
    None <- None, Ids <- {q1}, Nodes <- {c1}, Remotes <- {p1}, MaxRevision <- 3,
    MaxNode <- 2,
    node <- v1, record <- v2, config <- v3, remote <- v4, syncing <- v5, recall <- v6,
    Runs <- {p1}, Budget <- 6, InputTokens <- 1, Least <- 1, Room <- StageRoom,
    Values <- {1}, MaxReported <- 3, CacheSize <- 2, MaxAttempts <- 3,
    row <- v1, work <- v2, cache <- v3, moved <- v4, spent <- v5, made <- v6,
    Traces <- {c1}, Executions <- {c1}, Keys <- {"planner", "model"},
    ParentKey <- ParentsOf({"planner", "model"}), MaxSpans <- 3, MaxEvents <- 1,
    MaxFailures <- 2,
    db <- v1, observer <- v2, operation <- v3, stream <- v4, failures <- v5

TwoRuns == INSTANCE ConversationProofs WITH
    Conversations <- {c1}, Posts <- {p1, p2}, Applies <- {q1, q2}, MaxDraft <- 3,
    MaxChanges <- 1,
    now <- v1, executing <- v2, running <- v3, post <- v4, message <- v5, run <- v6,
    proposal <- v7, apply <- v8, applied <- v9,
    None <- None, Ids <- {q1}, Nodes <- {c1}, Remotes <- {p1}, MaxRevision <- 3,
    MaxNode <- 2,
    node <- v1, record <- v2, config <- v3, remote <- v4, syncing <- v5, recall <- v6,
    Runs <- {p1, p2}, Budget <- 6, InputTokens <- 1, Least <- 0, Room <- NoRoom,
    Values <- {1, 2}, MaxReported <- 0, CacheSize <- 2, MaxAttempts <- 1,
    row <- v1, work <- v2, cache <- v3, moved <- v4, spent <- v5, made <- v6,
    Traces <- {c1, c2}, Executions <- {c1}, Keys <- {"model"},
    ParentKey <- ParentsOf({"model"}), MaxSpans <- 2, MaxEvents <- 0, MaxFailures <- 1,
    db <- v1, observer <- v2, operation <- v3, stream <- v4, failures <- v5

\* ProviderConnections, Autodetect and Catalog: requests that overlap at a hosted
\* provider, autodetection of all providers, and templates; requests one at a time,
\* autodetection while the user acts, and agents; a command, and the agents of one build.
Settings == INSTANCE SettingsProofs WITH
    None <- None, Kind <- "hosted", Keys <- {q1, q2}, Models <- {m1, m2},
    Requests <- {p1, p2}, Overlap <- TRUE, MaxRevision <- 3,
    secret <- v1, state <- v2, profile <- v3, request <- v4, cli <- v5,
    inspected <- v6, pin <- v7, listed <- v8, left <- v9,
    Unset <- None, DetectModels <- {m1, m2}, Order <- AllProviders,
    KindOf <- KindsOf(AllProviders), Offers <- OffersOf(AllProviders),
    Registered <- Range(AllProviders), WithKey <- {openai}, DetectOverlap <- FALSE,
    MaxRounds <- 1,
    at <- v1, phase <- v2, existing <- v3, chosen <- v4, conn <- v5,
    detectProfile <- v6, results <- v7, failed <- v8, rounds <- v9,
    Absent <- None, Agents <- {}, Others <- {c1}, Clients <- {p1, p2},
    Values <- {m1, m2}, Texts <- {c2}, Seeds <- {c2}, Routes <- {"patch"},
    MaxItemRevision <- 3,
    config <- v1, prompts <- v2, edit <- v3

OneAtATime == INSTANCE SettingsProofs WITH
    None <- None, Kind <- "hosted", Keys <- {q1, q2}, Models <- {m1, m2},
    Requests <- {p1}, Overlap <- FALSE, MaxRevision <- 6,
    secret <- v1, state <- v2, profile <- v3, request <- v4, cli <- v5,
    inspected <- v6, pin <- v7, listed <- v8, left <- v9,
    Unset <- None, DetectModels <- {m1, m2}, Order <- TwoProviders,
    KindOf <- KindsOf(TwoProviders), Offers <- OffersOf(TwoProviders),
    Registered <- {openai}, WithKey <- {openai}, DetectOverlap <- TRUE, MaxRounds <- 2,
    at <- v1, phase <- v2, existing <- v3, chosen <- v4, conn <- v5,
    detectProfile <- v6, results <- v7, failed <- v8, rounds <- v9,
    Absent <- None, Agents <- {c1}, Others <- {}, Clients <- {p1, p2}, Values <- {c2},
    Texts <- {m1, m2}, Seeds <- {m1, m2}, Routes <- {"patch", "post"},
    MaxItemRevision <- 3,
    config <- v1, prompts <- v2, edit <- v3

Command == INSTANCE SettingsProofs WITH
    None <- None, Kind <- "cli", Keys <- {}, Models <- {m1, m2}, Requests <- {p1},
    Overlap <- FALSE, MaxRevision <- 8,
    secret <- v1, state <- v2, profile <- v3, request <- v4, cli <- v5,
    inspected <- v6, pin <- v7, listed <- v8, left <- v9,
    Unset <- None, DetectModels <- {m1, m2}, Order <- TwoProviders,
    KindOf <- KindsOf(TwoProviders), Offers <- OffersOf(TwoProviders),
    Registered <- {openai}, WithKey <- {openai}, DetectOverlap <- TRUE, MaxRounds <- 2,
    at <- v1, phase <- v2, existing <- v3, chosen <- v4, conn <- v5,
    detectProfile <- v6, results <- v7, failed <- v8, rounds <- v9,
    Absent <- None, Agents <- {c1}, Others <- {}, Clients <- {p1, p2}, Values <- {c2},
    Texts <- {m1, m2}, Seeds <- {m1}, Routes <- {"patch"}, MaxItemRevision <- 3,
    config <- v1, prompts <- v2, edit <- v3

\* Skills, CodexReceipt, NodeReview and CodexChild, each with its variables, and their theorems
NodeWork == INSTANCE NodeWorkProofs WITH
    None <- None, Ids <- {1, 2}, Versions <- {q1, q2}, MaxInstalls <- 1,
    MaxSkillSaves <- 1, MaxScans <- 1,
    disk <- v1, saved <- v2, catalog <- v3, items <- v4, scan <- v5, plan <- v6,
    node <- v7, since <- v8, steps <- v9,
    Absent <- None, Paths <- {c1, c2}, Commands <- {m1}, Size <- SizeOf, MaxFileSize <- 2,
    MaxTotal <- 3, MaxFiles <- 2, MaxSaves <- 2, MaxRuns <- 1,
    ws <- v1, saves <- v2, phase <- v3, reading <- v4, context <- v5, before <- v6,
    after <- v7, runs <- v8, receipt <- v9, artifacts <- v10, total <- v11,
    base <- v12, start <- v13, end <- v14,
    Reviewers <- 2, Criteria <- 2, Entries <- ReviewEntries, MaxChanges <- 1,
    MaxEdits <- 1,
    config <- v1, connected <- v2, edits <- v3, stage <- v4, who <- v5, result <- v6,
    admitted <- v7, reviewed <- v8, used <- v9, answers <- v10, controller <- v11,
    clock <- v12, signal <- v13,
    Kinds <- {"planner", "chat", "execution"}, MaxSignals <- 2,
    kind <- v1, heeds <- v2, step <- v3, child <- v4, code <- v5, termed <- v6,
    aborted <- v7, reason <- v8, timer <- v9, kill <- v10, stray <- v11, over <- v12,
    directory <- v13, server <- v14, stopped <- v15

\* StorageOwner, EvidenceSources, StorageClient and LegacyImport, each with its variables, and
\* their theorems: one application after another and uploads of every kind; applications
\* together and two uploads of the same bytes; three writers of objects.
Storage == INSTANCE StorageProofs WITH
    None <- None, Apps <- {p1, p2, c1}, Together <- FALSE,
    NoContent <- None, Writers <- {p1}, Contents <- StoredOf(Uploads),
    Bytes <- Uploads, Supported <- {m1, m2}, Parseable <- {m1},
    ManifestOf <- ManifestOfUpload, DirectorySync <- TRUE,
    MaxRequests <- 7, MaxDepth <- 3,
    Nothing <- None, Sources <- {m1, m2}, MaxCrashes <- 2, MaxWrites <- 2,
    caller <- v1, request <- v2, requests <- v3, stack <- v4, closed <- v5, queue <- v6,
    gate <- v7, port <- v8, levels <- v9, aborted <- v10, committed <- v11,
    reported <- v12, refused <- v13, doubtful <- v14,
    legacy <- v1, damaged <- v2, importer <- v3, snapshot <- v4, left <- v5, objects <- v6,
    rows <- v7, written <- v8, record <- v9, marker <- v10, app <- v11, crashes <- v12,
    pc <- v1, alive <- v2, lock <- v3, data <- v4, pidfile <- v5, pg <- v6,
    guardian <- v7, crashed <- v8,
    put <- v1, file <- v2, object <- v3, published <- v4, cut <- v5, graph <- v6,
    upload <- v7, sources <- v8

Racing == INSTANCE StorageProofs WITH
    None <- None, Apps <- {p1, p2, c1}, Together <- TRUE,
    NoContent <- None, Writers <- {p1, p2}, Contents <- StoredOf({m1}),
    Bytes <- {m1}, Supported <- {m1}, Parseable <- {m1},
    ManifestOf <- ManifestOfUpload, DirectorySync <- FALSE,
    MaxRequests <- 7, MaxDepth <- 3,
    Nothing <- None, Sources <- {m1, m2}, MaxCrashes <- 2, MaxWrites <- 2,
    caller <- v1, request <- v2, requests <- v3, stack <- v4, closed <- v5, queue <- v6,
    gate <- v7, port <- v8, levels <- v9, aborted <- v10, committed <- v11,
    reported <- v12, refused <- v13, doubtful <- v14,
    legacy <- v1, damaged <- v2, importer <- v3, snapshot <- v4, left <- v5, objects <- v6,
    rows <- v7, written <- v8, record <- v9, marker <- v10, app <- v11, crashes <- v12,
    pc <- v1, alive <- v2, lock <- v3, data <- v4, pidfile <- v5, pg <- v6,
    guardian <- v7, crashed <- v8,
    put <- v1, file <- v2, object <- v3, published <- v4, cut <- v5, graph <- v6,
    upload <- v7, sources <- v8

Objects == INSTANCE StorageProofs WITH
    None <- None, Apps <- {p1, p2, c1}, Together <- TRUE,
    NoContent <- None, Writers <- {p1, p2, c1}, Contents <- {q1, q2},
    Bytes <- {}, Supported <- {}, Parseable <- {},
    ManifestOf <- ManifestOfUpload, DirectorySync <- TRUE,
    MaxRequests <- 7, MaxDepth <- 3,
    Nothing <- None, Sources <- {m1, m2}, MaxCrashes <- 2, MaxWrites <- 2,
    caller <- v1, request <- v2, requests <- v3, stack <- v4, closed <- v5, queue <- v6,
    gate <- v7, port <- v8, levels <- v9, aborted <- v10, committed <- v11,
    reported <- v12, refused <- v13, doubtful <- v14,
    legacy <- v1, damaged <- v2, importer <- v3, snapshot <- v4, left <- v5, objects <- v6,
    rows <- v7, written <- v8, record <- v9, marker <- v10, app <- v11, crashes <- v12,
    pc <- v1, alive <- v2, lock <- v3, data <- v4, pidfile <- v5, pg <- v6,
    guardian <- v7, crashed <- v8,
    put <- v1, file <- v2, object <- v3, published <- v4, cut <- v5, graph <- v6,
    upload <- v7, sources <- v8

ASSUME Constants ==
    /\ TerminalAssumption /\ Shells!TerminalAssumption
    /\ Conversation!ChatAssumption /\ Conversation!NilAssumption
    /\ Conversation!HarnessAssumption /\ Conversation!MemoryAssumption
    /\ TwoRuns!HarnessAssumption
    /\ Settings!ConnectionsAssumption /\ Settings!AutodetectAssumption /\ Settings!CatalogAssumption
    /\ OneAtATime!ConnectionsAssumption /\ OneAtATime!AutodetectAssumption
    /\ OneAtATime!CatalogAssumption
    /\ Command!ConnectionsAssumption /\ Command!CatalogAssumption
    /\ Conversation!TracesAssumption /\ TwoRuns!TracesAssumption
    /\ NodeWork!ChildAssumption /\ NodeWork!SkillsAssumption /\ NodeWork!ReceiptAssumption
    /\ NodeWork!ReviewAssumption /\ Storage!OwnerAssumption /\ Racing!OwnerAssumption
    /\ Storage!SourcesAssumption /\ Storage!StoreAssumption /\ Racing!SourcesAssumption
    /\ Racing!StoreAssumption /\ Objects!StoreAssumption /\ Storage!ClientAssumption
    /\ Storage!ImportAssumption

------------------------------------------------------------------------------
\* What is unused by a component of so many variables, at first and from then on.
Free0 ==
    /\ v1 = None /\ v2 = None /\ v3 = None /\ v4 = None /\ v5 = None /\ v6 = None
    /\ v7 = None /\ v8 = None /\ v9 = None /\ v10 = None /\ v11 = None /\ v12 = None
    /\ v13 = None /\ v14 = None /\ v15 = None
Free3 ==
    /\ v4 = None /\ v5 = None /\ v6 = None /\ v7 = None /\ v8 = None /\ v9 = None
    /\ v10 = None /\ v11 = None /\ v12 = None /\ v13 = None /\ v14 = None /\ v15 = None
Free5 ==
    /\ v6 = None /\ v7 = None /\ v8 = None /\ v9 = None /\ v10 = None /\ v11 = None
    /\ v12 = None /\ v13 = None /\ v14 = None /\ v15 = None
Free6 ==
    /\ v7 = None /\ v8 = None /\ v9 = None /\ v10 = None /\ v11 = None /\ v12 = None
    /\ v13 = None /\ v14 = None /\ v15 = None
Free8 ==
    /\ v9 = None /\ v10 = None /\ v11 = None /\ v12 = None /\ v13 = None /\ v14 = None
    /\ v15 = None
Free9 ==
    /\ v10 = None /\ v11 = None /\ v12 = None /\ v13 = None /\ v14 = None /\ v15 = None
Free12 ==
    /\ v13 = None /\ v14 = None /\ v15 = None
Free13 ==
    /\ v14 = None /\ v15 = None
Free14 ==
    /\ v15 = None
Free15 == TRUE

Rest0 == <<component, v1, v2, v3, v4, v5, v6, v7, v8, v9, v10, v11, v12, v13,
    v14, v15>>
Rest3 == <<component, vars, v4, v5, v6, v7, v8, v9, v10, v11, v12, v13, v14,
    v15>>
Rest5 == <<component, vars, v6, v7, v8, v9, v10, v11, v12, v13, v14, v15>>
Rest6 == <<component, vars, v7, v8, v9, v10, v11, v12, v13, v14, v15>>
Rest8 == <<component, vars, v9, v10, v11, v12, v13, v14, v15>>
Rest9 == <<component, vars, v10, v11, v12, v13, v14, v15>>
Rest12 == <<component, vars, v13, v14, v15>>
Rest13 == <<component, vars, v14, v15>>
Rest14 == <<component, vars, v15>>
Rest15 == <<component, vars>>

SideInit ==
    /\ component \in Components
    /\ Init
    /\ (component \notin {"terminals", "shells"} => folder = [g \in Graph |-> here])
    /\ \/ component \in {"terminals", "shells"} /\ Free0
       \/ Is("chat") /\ Conversation!Init /\ Free9
       \/ Is("harness") /\ Conversation!HarnessInit /\ Free6
       \/ Is("harness-cache") /\ TwoRuns!HarnessInit /\ Free6
       \/ Is("memory") /\ Conversation!MemoryInit /\ Free6
       \/ Is("hosted-provider") /\ Settings!Init /\ Free9
       \/ Is("hosted-provider-alone") /\ OneAtATime!Init /\ Free9
       \/ Is("command") /\ Command!Init /\ Free9
       \/ Is("autodetect") /\ Settings!DetectInit /\ Free9
       \/ Is("autodetect-twice") /\ OneAtATime!DetectInit /\ Free9
       \/ Is("catalog") /\ Settings!CatalogInit /\ Free3
       \/ Is("agents") /\ OneAtATime!CatalogInit /\ Free3
       \/ Is("one-build") /\ Command!CatalogInit /\ Free3
       \/ Is("objects") /\ Objects!StoreInit /\ Free5
       \/ Is("sources") /\ Racing!SourcesInit /\ Free8
       \/ Is("sources-of-every-kind") /\ Storage!SourcesInit /\ Free8
       \/ Is("traces") /\ Conversation!TracesInit /\ Free5
       \/ Is("two-traces") /\ TwoRuns!TracesInit /\ Free5
       \/ Is("skills") /\ NodeWork!SkillsInit /\ Free9
       \/ Is("codex") /\ NodeWork!ChildInit /\ Free15
       \/ Is("receipt") /\ NodeWork!ReceiptInit /\ Free14
       \/ Is("review") /\ NodeWork!ReviewInit /\ Free13
       \/ Is("owner") /\ Storage!Init /\ Free8
       \/ Is("owners") /\ Racing!Init /\ Free8
       \/ Is("client") /\ Storage!ClientInit /\ Free14
       \/ Is("import") /\ Storage!ImportInit /\ Free12

SideNext ==
    \/ Is("terminals") /\ Next /\ UNCHANGED Rest0
    \/ Is("shells") /\ Shells!Next /\ UNCHANGED Rest0
    \/ Is("chat") /\ Conversation!Next /\ UNCHANGED Rest9
    \/ Is("harness") /\ Conversation!HarnessNext /\ UNCHANGED Rest6
    \/ Is("harness-cache") /\ TwoRuns!HarnessNext /\ UNCHANGED Rest6
    \/ Is("memory") /\ Conversation!MemoryNext /\ UNCHANGED Rest6
    \/ Is("hosted-provider") /\ Settings!Next /\ UNCHANGED Rest9
    \/ Is("hosted-provider-alone") /\ OneAtATime!Next /\ UNCHANGED Rest9
    \/ Is("command") /\ Command!Next /\ UNCHANGED Rest9
    \/ Is("autodetect") /\ Settings!DetectNext /\ UNCHANGED Rest9
    \/ Is("autodetect-twice") /\ OneAtATime!DetectNext /\ UNCHANGED Rest9
    \/ Is("catalog") /\ Settings!CatalogNext /\ UNCHANGED Rest3
    \/ Is("agents") /\ OneAtATime!CatalogNext /\ UNCHANGED Rest3
    \/ Is("one-build") /\ Command!CatalogNext /\ UNCHANGED Rest3
    \/ Is("objects") /\ Objects!StoreNext /\ UNCHANGED Rest5
    \/ Is("sources") /\ Racing!SourcesNext /\ UNCHANGED Rest8
    \/ Is("sources-of-every-kind") /\ Storage!SourcesNext /\ UNCHANGED Rest8
    \/ Is("traces") /\ Conversation!TracesNext /\ UNCHANGED Rest5
    \/ Is("two-traces") /\ TwoRuns!TracesNext /\ UNCHANGED Rest5
    \/ Is("skills") /\ NodeWork!SkillsNext /\ UNCHANGED Rest9
    \/ Is("codex") /\ NodeWork!ChildNext /\ UNCHANGED Rest15
    \/ Is("receipt") /\ NodeWork!ReceiptNext /\ UNCHANGED Rest14
    \/ Is("review") /\ NodeWork!ReviewNext /\ UNCHANGED Rest13
    \/ Is("owner") /\ Storage!Next /\ UNCHANGED Rest8
    \/ Is("owners") /\ Racing!Next /\ UNCHANGED Rest8
    \/ Is("client") /\ Storage!ClientNext /\ UNCHANGED Rest14
    \/ Is("import") /\ Storage!ImportNext /\ UNCHANGED Rest12

sideVars == <<component, vars, v1, v2, v3, v4, v5, v6, v7, v8, v9, v10, v11,
    v12, v13, v14, v15>>

SideSpec == SideInit /\ [][SideNext]_sideVars

------------------------------------------------------------------------------
\* A conversation has one answer under way, a message is saved once, and a proposal is
\* stored with all of its answer, to a message that does not go on; a harness run accounts
\* for what its stages used, and its handoffs are of its own stages.
ConversationsAreWhole ==
    /\ Is("chat") =>
          /\ Conversation!IInv /\ Conversation!OneAnswer /\ Conversation!SavedOnce
          /\ Conversation!NoPartialProposal
    /\ Is("harness") => Conversation!HarnessIInv /\ Conversation!UsageIsRecorded
    /\ Is("harness-cache") => TwoRuns!HarnessIInv /\ TwoRuns!HandoffsFollow

\* What a provider is called usable or connected for was verified with the key and
\* the model in use; a prompt and a saved memory are not overwritten by a save that
\* has not seen them.
SettingsAreVerified ==
    /\ Is("memory") => Conversation!MemoryIInv /\ Conversation!SyncedIsStored
    /\ Is("hosted-provider") => Settings!IInv /\ Settings!PinHolds
    /\ Is("hosted-provider-alone") =>
          /\ OneAtATime!IInv /\ OneAtATime!PinHolds /\ OneAtATime!LeftStaysLeft
          /\ OneAtATime!UsableIsVerified
    /\ Is("command") => Command!IInv /\ Command!LeftStaysLeft
    /\ Is("autodetect") =>
          /\ Settings!DetectIInv /\ Settings!OthersAreConnected /\ Settings!ReportedIsUsable
    /\ Is("autodetect-twice") => OneAtATime!DetectIInv /\ OneAtATime!OthersAreConnected
    /\ Is("catalog") => Settings!CatalogIInv /\ Settings!NothingOverwritten
    /\ Is("agents") => OneAtATime!CatalogIInv /\ OneAtATime!PromptNotOverwritten
    /\ Is("one-build") => Command!CatalogIInv /\ Command!PromptStaysEditable

\* What is reported stored is there in full, after a crash too: objects, the sources
\* that name them, transactions that returned, and imported rows and objects.  What each
\* component promises is part of its inductive invariant, or follows from it as stated.
StoredIsWhole ==
    /\ Is("objects") => Objects!StoreIInv /\ Objects!PublishedIsWhole
    /\ Is("sources") => Racing!SourcesIInv
    /\ Is("sources-of-every-kind") => Storage!SourcesIInv
    /\ Is("client") => Storage!ClientIInv
    /\ Is("import") => Storage!ImportIInv /\ Storage!ServedIsWhole /\ Storage!ReportedIsImported

\* A graph has one shell and the shells stay bounded, until close() has cleared the map
\* and after that in the map, which has every shell until then (IInv); a model call that
\* has settled leaves no process, nor one that holds its output.
ProcessesAreOwned ==
    /\ Is("terminals") => IInv /\ OneShellPerGraph /\ ShellsBounded
    /\ Is("shells") => Shells!IInv /\ Shells!OneShellPerGraph /\ Shells!ShellsBounded
    /\ Is("codex") => NodeWork!ChildIInv /\ NodeWork!NoneIsLeftBehind

\* The storage server is run by one application: nobody else stops it while it is in
\* use, none is left when the directory is given back, and as long as no application
\* was killed no other takes the directory.
DirectoryIsOwned ==
    /\ Is("owner") => Storage!IInv /\ Storage!OpenIsServed /\ Storage!NoneIsLeftRunning
    /\ Is("owners") =>
          /\ Racing!IInv /\ Racing!NoneIsLeftRunning /\ Racing!FreshLockIsExclusive

\* An ended trace is closed, each span once, with nothing left open and what really
\* happened, and the stream follows what is stored.
TracesTellTheStory ==
    /\ Is("traces") => Conversation!TracesIInv
    /\ Is("two-traces") => TwoRuns!TracesIInv

\* A node is given the skills that were approved, in full; what it changed is what
\* its receipt says and was verified; a review that accepts was made under the pins
\* of its provider and quotes what is recorded.
NodeWorkIsChecked ==
    /\ Is("skills") =>
          /\ NodeWork!SkillsIInv /\ NodeWork!GivenInFull /\ NodeWork!GivenIsCurrent
          /\ NodeWork!ApprovedIsEnabled
    /\ Is("receipt") =>
          /\ NodeWork!ReceiptIInv /\ NodeWork!StartsFromContext
          /\ NodeWork!ChangesAreReported /\ NodeWork!AcceptedIsVerified
    /\ Is("review") =>
          /\ NodeWork!ReviewIInv /\ NodeWork!ReviewedUnderPins
          /\ NodeWork!EveryCriterionIsQuoted

AcceptedAsBegunStep ==
    /\ Is("chat") => Conversation!AppliedToItsBaseStep /\ Conversation!AcceptedUnderPinsStep
    /\ Is("harness") => Conversation!AcceptedWithinBudgetStep /\ Conversation!HandoffsStayStep

\* What is accepted or applied is what was begun: a proposal on the draft and under
\* the pins it was made for, a stage within the budget, a handoff that no later
\* stage changes.
AcceptedAsBegun == [][AcceptedAsBegunStep]_sideVars

NewerWorkStandsStep ==
    /\ Is("memory") =>
          /\ Conversation!RecalledIsCurrentStep /\ Conversation!LocalEditsStayStep
          /\ Conversation!ReviewIsOfThisStateStep
    /\ Is("command") => Command!ReadyIsInspectedStep
    /\ Is("autodetect") => Settings!ModelIsKeptStep
    /\ Is("autodetect-twice") => OneAtATime!WorkingStaysConnectedStep
    /\ Is("agents") => OneAtATime!OverridesSurviveStep
    /\ Is("import") => Storage!ServerRowsStayStep

\* An answer that was waited for does not undo what happened meanwhile: a memory
\* that was edited, a review, a provider the user left or changed, an override of an
\* agent, the rows of a server that has started.
NewerWorkStands == [][NewerWorkStandsStep]_sideVars
==============================================================================
