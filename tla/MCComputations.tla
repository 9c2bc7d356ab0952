--------------------------- MODULE MCComputations ----------------------------
(***************************************************************************)
(* What the server computes and the window shows, side by side, for TLC.   *)
(*                                                                         *)
(* A behaviour is of one component, which takes the variables it needs     *)
(* from v1, v2 and so on; WorkspaceBaseline, whose assumption is evaluated *)
(* here, has variables of its own and rests otherwise.                     *)
(***************************************************************************)
EXTENDS WorkspaceBaseline, Sequences, TLC

CONSTANTS
    Components,  \* those of which a behaviour is taken
    None, x1, x2, x3

VARIABLES
    component,   \* the one that this behaviour is of
    v1, v2, v3, v4, v5, v6, v7, v8, v9, v10, v11, v12, v13, v14, v15, v16, v17, v18,
    v19  \* its variables

Is(c) == component = c

UpTo(set, n) == UNION {[1 .. m -> set] : m \in 0 .. n}

\* WorkspaceBaseline: a commit, an add, a save of a tracked file, a new file, a save
\* of an untracked one.
Changes == {{"head", "index"}, {"index", "worktree"}, {"worktree"}, {"names", "contents"}, {"contents"}}

\* CsvRows: texts of the letter x, the quote, the comma and the line feed.
CsvCells  == {<<>>, <<"x">>, <<"q">>, <<",", "x">>, <<"x", "n">>, <<"x", "q", "x">>}
CsvTables == UNION {[1 .. r -> [1 .. c -> CsvCells]] : r \in 1 .. 2, c \in 1 .. 2}
             \cup {<<r, r, r>> : r \in [1 .. 1 -> CsvCells]}

\* EvidenceChunks: blocks of words, which begin and end with a letter.
Blocks == UNION {{t \in [1 .. n -> {"x", " "}] : t[1] = "x" /\ t[n] = "x"} : n \in 1 .. 7}

\* SheetRows: up to two rows of two cells, and sheets and rows about the limits.
SheetsOf(cells) == UpTo(UpTo(cells, 2), 2)
Wide            == [n \in 1 .. 8 |-> IF n % 2 = 0 THEN "a" ELSE "b"]
Sheet           == SheetsOf({"empty", "blank", "a", "b"})
Workbooks       ==
    UpTo({s \in Sheet : Len(s) > 0 => s[1] # <<>>}, 1)
    \cup {<<s, t>> : s \in {<<<<"a", "b">>>>, <<<<"b">>, <<"a", "a">>>>}, t \in Sheet}
    \cup {<<s>> : s \in [1 .. 3 -> {<<"blank">>, <<"a">>, <<"b", "a">>}]}
    \cup {<<[n \in 1 .. 4 |-> <<"a">>]>>, <<[n \in 1 .. 5 |-> <<"blank">>]>>}
    \cup {<<<<Wide, Wide>>>>, <<<<Wide, Wide, Wide>>>>, <<<<Append(Wide, "a")>>>>}

\* SkillFiles: the root 1 holds directory 2, which may hold 3; 4 lies beside the root
\* and 5 beyond its parent.  Any of them may hold a skill, and 2, 3 and 4 a link to
\* any of them.
To(kind, d) == [kind |-> kind, to |-> d]
File(kind)  == [kind |-> kind, to |-> 0]
Opt(x)      == {<<>>, <<x>>}
Links       == {<<>>} \cup {<<To("link", d)>> : d \in 1 .. 5}
Trees       ==
    {[d \in 1 .. 5 |-> CASE d = 1 -> a \o <<To("dir", 2)>> \o l1 [] d = 2 -> b \o f2 \o l2 [] d = 3 -> c \o l3
                         [] d = 4 -> s4 \o l4 [] OTHER -> <<File("skill")>>] :
     a \in Opt(File("skill")), l1 \in {<<>>, <<To("link", 4)>>}, b \in Opt(To("dir", 3)), f2 \in Opt(File("file")),
     l2 \in Links, c \in Opt(File("skill")), l3 \in Links, s4 \in Opt(File("skill")), l4 \in Links}

\* IntentCompiler: how many keywords of a domain an agent matches.
Domains       == {"product", "data", "application", "experience", "quality", "security", "platform"}
Matches(s, n) == [d \in Domains |-> IF d \in s THEN n ELSE 0]

\* CheckpointReuse: three nodes in three shapes, of which at most one has a new
\* input; or none, in a folder that may be put in place of another.
Shapes == {(1 :> {}) @@ (2 :> {1}) @@ (3 :> {2}), (1 :> {}) @@ (2 :> {}) @@ (3 :> {1, 2}), (2 :> {}) @@ (3 :> {2})}
PlanOf(d, input, intents, binding) ==
    [nodes |-> DOMAIN d, deps |-> d, input |-> input, intents |-> intents, binding |-> binding]
Plans ==
    {PlanOf(d, [n \in DOMAIN d |-> IF n = i THEN "new" ELSE "old"],
            [n \in DOMAIN d |-> IF n = 2 THEN {12} ELSE {11}], "folder") : d \in Shapes, i \in 0 .. 3}
PlansOfTwoFolders ==
    {PlanOf(d, [n \in DOMAIN d |-> "old"], [n \in DOMAIN d |-> {11}], b) : d \in Shapes, b \in {"folder", "copy"}}

\* ExecutionDisplay: an intent behind two steps, one behind the last, and one that
\* no step came from.
LinkedSteps == [a |-> {1, 2}, b |-> {3}, unplanned |-> {}]

------------------------------------------------------------------------------
Csv == INSTANCE CsvRows WITH
    None <- None, Texts <- UpTo({"x", "q", ",", "n"}, 5), Tables <- CsvTables,
    MaxCellChars <- 2, MaxColumns <- 2, MaxRows <- 2,
    table <- v1, text <- v2, index <- v3, quoted <- v4, field <- v5, row <- v6,
    rows <- v7, outcome <- v8

Chunked == INSTANCE EvidenceChunks WITH
    Documents <- UpTo(Blocks, 2), MaxChunkChars <- 4,
    blocks <- v1, block <- v2, offset <- v3, parts <- v4, length <- v5, chunks <- v6

Sheets == INSTANCE SheetRows WITH
    Workbooks <- Workbooks, Letters <- 2, MaxRows <- 4, MaxCells <- 16,
    MaxColumns <- 8, MaxBlocks <- 3,
    workbook <- v1, sheet <- v2, row <- v3, column <- v4, headers <- v5,
    firstRow <- v6, totalRows <- v7, totalCells <- v8, cells <- v9, blocks <- v10,
    outcome <- v11

Search == INSTANCE EvidenceSearch WITH
    Chunks <- 1 .. 3, Candidates <- UpTo(1 .. 3, 3) \cup {<<3, 1, 2, 1>>},
    MaxScore <- 2, K <- 2, TopK <- 2,
    candidates <- v1, scores <- v2, list <- v3, item <- v4, fused <- v5, results <- v6

Files == INSTANCE SkillFiles WITH
    Dirs <- 1 .. 5, Root <- 1, Boundary <- 1 .. 4, Trees <- Trees, MaxDepth <- 4,
    MaxSkills <- 3, MaxFiles <- 2,
    tree <- v1, search <- v2, stack <- v3, visited <- v4, output <- v5, result <- v6

Package == INSTANCE SkillFiles WITH
    Dirs <- 1 .. 5, Root <- 1, Boundary <- 1 .. 4, Trees <- Trees, MaxDepth <- 1,
    MaxSkills <- 3, MaxFiles <- 1,
    tree <- v1, search <- v2, stack <- v3, visited <- v4, output <- v5, result <- v6

Proposal == INSTANCE ProposedPlan WITH
    Nodes <- {x1, x2, x3}, Unknown <- None, Ids <- {<<x1>>, <<x1, x2>>},
    Types <- {"REQUIRES", "INFORMS"},
    Waits <- {{}, {x1}, {x2}, {x3}, {x1, x2}, {None}}, MaxRelations <- 2,
    MaxRelationships <- 4,
    sent <- v1, dependsOn <- v2, graph <- v3, phase <- v4, edges <- v5,
    indegree <- v6, ready <- v7, visited <- v8

Compiler == INSTANCE IntentCompiler WITH
    None <- 0, Intents <- {x1, x2},
    Texts <- {{}, {"data"}, {"experience", "platform"}, Domains}, Agents <- {1, 2},
    Skills <- {Matches({}, 0), Matches({"quality", "platform"}, 2),
               Matches({"application", "security"}, 1), Matches(Domains, 1)},
    MaxRelationships <- 40,
    text <- v1, toBuild <- v2, required <- v3, skill <- v4, conf <- v5, phase <- v6,
    selected <- v7, agent <- v8

Reuse == INSTANCE CheckpointReuse WITH
    Nodes <- 1 .. 3, Intents <- {11, 12}, Plans <- Plans, Requests <- {{}, {12}},
    MaxRuns <- 3,
    runs <- v1, given <- v2

TwoFolders == INSTANCE CheckpointReuse WITH
    Nodes <- 1 .. 3, Intents <- {11, 12}, Plans <- PlansOfTwoFolders,
    Requests <- {{}, {3}}, MaxRuns <- 3,
    runs <- v1, given <- v2

Events == INSTANCE EventStream WITH
    MaxEvents <- 5, MaxLosses <- 1,
    log <- v1, conn <- v2, wire <- v3, query <- v4, lastId <- v5, cursor <- v6,
    events <- v7, shown <- v8, loading <- v9, snapshot <- v10, pause <- v11,
    cancel <- v12, losses <- v13

Explorer == INSTANCE TraceExplorer WITH
    None <- None, Graphs <- {x1, x2}, Limit <- 2, MaxTraces <- 4,
    rows <- v1, graph <- v2, traces <- v3, page <- v4, selected <- v5, detail <- v6,
    list <- v7, older <- v8, ofDetail <- v9, more <- v10, raced <- v11

Window == INSTANCE Workbench WITH
    Nodes <- {x1}, Selections <- {{}}, MaxEdits <- 2, MaxDrafts <- 2, MaxPlans <- 2,
    ApprovesMeanwhile <- FALSE, SendsMeanwhile <- FALSE,
    drafts <- v1, plans <- v2, run <- v3, content <- v4, revision <- v5, dirty <- v6,
    undo <- v7, redo <- v8, edits <- v9, active <- v10, scope <- v11, asked <- v12,
    main <- v13, approval <- v14, busy <- v15, saving <- v16, locked <- v17,
    adopt <- v18

Patience == INSTANCE WorkspaceSwitch WITH
    None <- None, Workspaces <- {x1, x2}, MaxEdits <- 1, Patient <- TRUE,
    stored <- v1, saved <- v2, runs <- v3, graphs <- v4, shown <- v5, content <- v6,
    dirty <- v7, run <- v8, plan <- v9, sources <- v10, artifacts <- v11, hits <- v12,
    loading <- v13, load <- v14, main <- v15, search <- v16, refresh <- v17,
    made <- v18, dropped <- v19

Haste == INSTANCE WorkspaceSwitch WITH
    None <- None, Workspaces <- {x1, x2}, MaxEdits <- 1, Patient <- FALSE,
    stored <- v1, saved <- v2, runs <- v3, graphs <- v4, shown <- v5, content <- v6,
    dirty <- v7, run <- v8, plan <- v9, sources <- v10, artifacts <- v11, hits <- v12,
    loading <- v13, load <- v14, main <- v15, search <- v16, refresh <- v17,
    made <- v18, dropped <- v19

Display == INSTANCE ExecutionDisplay WITH
    None <- None, Steps <- 1 .. 3, Intents <- DOMAIN LinkedSteps,
    Linked <- LinkedSteps, MaxEvents <- 6, Prompt <- TRUE,
    row <- v1, sel <- v2, log <- v3, tried <- v4, broken <- v5, seen <- v6,
    from <- v7, to <- v8, told <- v9, fetch <- v10, answer <- v11

LateDisplay == INSTANCE ExecutionDisplay WITH
    None <- None, Steps <- 1 .. 3, Intents <- DOMAIN LinkedSteps,
    Linked <- LinkedSteps, MaxEvents <- 5, Prompt <- FALSE,
    row <- v1, sel <- v2, log <- v3, tried <- v4, broken <- v5, seen <- v6,
    from <- v7, to <- v8, told <- v9, fetch <- v10, answer <- v11

ASSUME Constants ==
    /\ Csv!CsvAssumption /\ Chunked!ChunksAssumption /\ Sheets!SheetAssumption
    /\ Search!SearchAssumption /\ Files!FilesAssumption /\ Package!FilesAssumption
    /\ Proposal!ProposedPlanAssumption /\ Compiler!CompilerAssumption /\ Reuse!PlanAssumption
    /\ TwoFolders!PlanAssumption /\ Events!StreamAssumption /\ Explorer!ExplorerAssumption
    /\ Window!BoundAssumption /\ Patience!SwitchAssumption /\ Haste!SwitchAssumption
    /\ Display!DisplayAssumption /\ LateDisplay!DisplayAssumption

------------------------------------------------------------------------------
\* What is unused by a component of so many variables, at first and from then on.
Free0 ==
    /\ v1 = None /\ v2 = None /\ v3 = None /\ v4 = None /\ v5 = None /\ v6 = None
    /\ v7 = None /\ v8 = None /\ v9 = None /\ v10 = None /\ v11 = None /\ v12 = None
    /\ v13 = None /\ v14 = None /\ v15 = None /\ v16 = None /\ v17 = None /\ v18 = None
    /\ v19 = None
Free2 ==
    /\ v3 = None /\ v4 = None /\ v5 = None /\ v6 = None /\ v7 = None /\ v8 = None
    /\ v9 = None /\ v10 = None /\ v11 = None /\ v12 = None /\ v13 = None /\ v14 = None
    /\ v15 = None /\ v16 = None /\ v17 = None /\ v18 = None /\ v19 = None
Free6 ==
    /\ v7 = None /\ v8 = None /\ v9 = None /\ v10 = None /\ v11 = None /\ v12 = None
    /\ v13 = None /\ v14 = None /\ v15 = None /\ v16 = None /\ v17 = None /\ v18 = None
    /\ v19 = None
Free8 ==
    /\ v9 = None /\ v10 = None /\ v11 = None /\ v12 = None /\ v13 = None /\ v14 = None
    /\ v15 = None /\ v16 = None /\ v17 = None /\ v18 = None /\ v19 = None
Free11 ==
    /\ v12 = None /\ v13 = None /\ v14 = None /\ v15 = None /\ v16 = None /\ v17 = None
    /\ v18 = None /\ v19 = None
Free13 ==
    /\ v14 = None /\ v15 = None /\ v16 = None /\ v17 = None /\ v18 = None /\ v19 = None
Free18 ==
    /\ v19 = None
Free19 == TRUE

Rest0 == <<component, v1, v2, v3, v4, v5, v6, v7, v8, v9, v10, v11, v12, v13,
    v14, v15, v16, v17, v18, v19>>
Rest2 == <<component, baselineVars, v3, v4, v5, v6, v7, v8, v9, v10, v11, v12, v13, v14,
    v15, v16, v17, v18, v19>>
Rest6 == <<component, baselineVars, v7, v8, v9, v10, v11, v12, v13, v14, v15, v16, v17,
    v18, v19>>
Rest8 == <<component, baselineVars, v9, v10, v11, v12, v13, v14, v15, v16, v17, v18,
    v19>>
Rest11 == <<component, baselineVars, v12, v13, v14, v15, v16, v17, v18, v19>>
Rest13 == <<component, baselineVars, v14, v15, v16, v17, v18, v19>>
Rest18 == <<component, baselineVars, v19>>
Rest19 == <<component, baselineVars>>

SideInit ==
    /\ component \in Components
    /\ BaselineInit
    /\ \/ component \in {"baseline"} /\ Free0
       \/ Is("csv") /\ Csv!Init /\ Free8
       \/ Is("chunks") /\ Chunked!Init /\ Free6
       \/ Is("sheets") /\ Sheets!Init /\ Free11
       \/ Is("search") /\ Search!Init /\ Free6
       \/ Is("skill files") /\ Files!Init /\ Free6
       \/ Is("skill package") /\ Package!Init /\ Free6
       \/ Is("proposal") /\ Proposal!Init /\ Free8
       \/ Is("intents") /\ Compiler!Init /\ Free8
       \/ Is("reuse") /\ Reuse!Init /\ Free2
       \/ Is("two folders") /\ TwoFolders!Init /\ Free2
       \/ Is("events") /\ Events!Init /\ Free13
       \/ Is("explorer") /\ Explorer!Init /\ Free11
       \/ Is("window") /\ Window!Init /\ Free18
       \/ Is("patient user") /\ Patience!Init /\ Free19
       \/ Is("hasty user") /\ Haste!Init /\ Free19
       \/ Is("display") /\ Display!Init /\ Free11
       \/ Is("late display") /\ LateDisplay!Init /\ Free11

SideNext ==
    \/ Is("baseline") /\ BaselineNext /\ UNCHANGED Rest0
    \/ Is("csv") /\ Csv!Next /\ UNCHANGED Rest8
    \/ Is("chunks") /\ Chunked!Next /\ UNCHANGED Rest6
    \/ Is("sheets") /\ Sheets!Next /\ UNCHANGED Rest11
    \/ Is("search") /\ Search!Next /\ UNCHANGED Rest6
    \/ Is("skill files") /\ Files!Next /\ UNCHANGED Rest6
    \/ Is("skill package") /\ Package!Next /\ UNCHANGED Rest6
    \/ Is("proposal") /\ Proposal!Next /\ UNCHANGED Rest8
    \/ Is("intents") /\ Compiler!Next /\ UNCHANGED Rest8
    \/ Is("reuse") /\ Reuse!Next /\ UNCHANGED Rest2
    \/ Is("two folders") /\ TwoFolders!Next /\ UNCHANGED Rest2
    \/ Is("events") /\ Events!Next /\ UNCHANGED Rest13
    \/ Is("explorer") /\ Explorer!Next /\ UNCHANGED Rest11
    \/ Is("window") /\ Window!Next /\ UNCHANGED Rest18
    \/ Is("patient user") /\ Patience!Next /\ UNCHANGED Rest19
    \/ Is("hasty user") /\ Haste!Next /\ UNCHANGED Rest19
    \/ Is("display") /\ Display!Next /\ UNCHANGED Rest11
    \/ Is("late display") /\ LateDisplay!Next /\ UNCHANGED Rest11

sideVars == <<component, baselineVars, v1, v2, v3, v4, v5, v6, v7, v8, v9, v10, v11,
    v12, v13, v14, v15, v16, v17, v18, v19>>

SideSpec == SideInit /\ [][SideNext]_sideVars

------------------------------------------------------------------------------
\* A plan has no cycle and checks what it builds, whatever a provider proposes or
\* the user asks; what a run reuses was recorded for the same inputs in the same
\* folder, and what is left can run; its baseline is the folder of one moment.
PlansAreComputed ==
    /\ Is("baseline") => BaselineTypeOK /\ PlannedIsSnapshot /\ RefusedForAReason
    /\ Is("proposal") =>
          /\ Proposal!TypeOK /\ Proposal!AcceptedIsWhole /\ Proposal!RefusedForAFault
    /\ Is("intents") =>
          /\ Compiler!TypeOK /\ Compiler!WorkIsChecked /\ Compiler!GateDidNotDoTheWork
          /\ Compiler!ConfigurationIsKept /\ Compiler!CyclesAreRefused
    /\ Is("reuse") =>
          /\ Reuse!TypeOK /\ Reuse!EvidenceIsFound /\ Reuse!EvidenceIsConsistent
          /\ Reuse!ListedIsEvidence /\ Reuse!SelectionIsRunnable
    /\ Is("two folders") => TwoFolders!TypeOK /\ TwoFolders!EvidenceIsOfTheFolder

\* What is read from evidence is what it holds: texts read back as they were
\* written, within the limits; chunks and citations cover them; a search returns
\* what some ranker found, in an order of its own; and the skills of a folder are
\* found, each with all its files.
EvidenceIsRead ==
    /\ Is("csv") =>
          /\ Csv!TypeOK /\ Csv!ReadsBack /\ Csv!WithinLimits /\ Csv!NothingInvented
    /\ Is("chunks") =>
          /\ Chunked!TypeOK /\ Chunked!ChunksAreBounded /\ Chunked!EverythingIsCited
          /\ Chunked!WordsStayWhole
    /\ Is("sheets") => Sheets!TypeOK /\ Sheets!CitationsLead /\ Sheets!HeadersMatch
    /\ Is("search") =>
          /\ Search!TypeOK /\ Search!NothingUnfound /\ Search!AgreementHolds
          /\ Search!TiesAreStable
    /\ Is("skill files") => Files!TypeOK /\ Files!SkillsAreFound
    /\ Is("skill package") => Package!TypeOK /\ Package!ManifestIsWhole

\* What the window shows is stored, of the workspace it shows, and of the run:
\* events in order and none passed over, pages and details that belong together,
\* edits kept, and badges the server knows.
WindowShowsWhatIs ==
    /\ Is("events") => Events!TypeOK /\ Events!ShownInOrder /\ Events!NothingPassedOver
    /\ Is("explorer") =>
          /\ Explorer!TypeOK /\ Explorer!PagesAreStable /\ Explorer!DetailIsSelected
    /\ Is("window") => Window!TypeOK /\ Window!SavedIsStored /\ Window!RunnableIsShown
    /\ Is("patient user") => Patience!TypeOK /\ Patience!ShownBelongTogether
    /\ Is("hasty user") => Haste!TypeOK /\ Haste!EditsAreKept
    /\ Is("display") => Display!TypeOK /\ Display!UpToDateIsTrue
    /\ Is("late display") =>
          /\ LateDisplay!TypeOK /\ LateDisplay!EndsAreRecorded
          /\ LateDisplay!IntentIsCovered

ShownStaysStep ==
    /\ Is("events") => Events!FailureStaysDisplayedStep
    /\ Is("explorer") => Explorer!SelectionStaysStep
    /\ Is("window") => Window!StartsAsShownStep /\ Window!UnsavedEditsSurviveStep
    /\ Is("late display") => LateDisplay!FailureStaysStep

\* What was shown as failed, selected or edited stays so until the user or the
\* server replaces it, and what starts is the plan on the screen.
ShownStays == [][ShownStaysStep]_sideVars
==============================================================================
