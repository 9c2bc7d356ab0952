----------------------------- MODULE ServerProofs -----------------------------
(***************************************************************************)
(* Proofs about the local server.                                          *)
(*                                                                         *)
(* Of the components side by side, a behaviour is of one, and a step of it *)
(* leaves the others alone.  What their own proofs show of the terminals,  *)
(* of Chat, of the harness, of traces, of a node's work, of settings and   *)
(* of the storage is put together here.                                    *)
(***************************************************************************)
EXTENDS MCServer, FiniteSetTheorems, TLAPS

------------------------------------------------------------------------------
\* A behaviour stays with its component.
LEMMA ComponentStays == SideNext => component' = component
  BY DEF SideNext, Is, Rest0, Rest3, Rest5, Rest6, Rest8, Rest9, Rest12, Rest13, Rest14, Rest15

(***************************************************************************)
(* The processes of the server: shells and Codex                           *)
(***************************************************************************)
ProcessesIInv ==
    /\ Is("terminals") => IInv
    /\ Is("shells") => Shells!IInv
    /\ Is("codex") => NodeWork!ChildIInv

\* Every component's invariant holds in its initial states, and the terminals' in all.
LEMMA ProcessesInit == SideInit => ProcessesIInv
<1> SUFFICES ASSUME SideInit PROVE ProcessesIInv
  OBVIOUS
<1>1. Init
  BY DEF SideInit, Is
<1>2. Shells!Init
  BY <1>1 DEF Init, Shells!Init
<1>3. IInv /\ Shells!IInv
  BY <1>1, <1>2, Constants, InitIInv, Shells!InitIInv
<1>4. CASE Is("codex")
  <2>1. NodeWork!ChildInit
    BY <1>4 DEF SideInit, Is
  <2>2. QED
    BY <1>4, <2>1, Constants, NodeWork!ChildInitIInv DEF ProcessesIInv, Is
<1>5. QED
  BY <1>3, <1>4 DEF ProcessesIInv

\* A step is one of the component at hand, so it keeps that component's invariant.
LEMMA ProcessesNext == ProcessesIInv /\ [SideNext]_sideVars => ProcessesIInv'
<1> SUFFICES ASSUME ProcessesIInv, [SideNext]_sideVars PROVE ProcessesIInv'
  OBVIOUS
<1>0. component' = component
  BY ComponentStays DEF sideVars
<1>1. CASE Is("terminals")
  <2>1. [Next]_vars
    BY <1>1 DEF SideNext, Is, sideVars
  <2>2. QED
    BY <1>0, <1>1, <2>1, Constants, NextIInv DEF ProcessesIInv, Is
<1>2. CASE Is("shells")
  <2>1. [Shells!Next]_Shells!vars
    BY <1>2 DEF SideNext, Is, sideVars, vars, Shells!vars
  <2>2. QED
    BY <1>0, <1>2, <2>1, Constants, Shells!NextIInv DEF ProcessesIInv, Is
<1>3. CASE Is("codex")
  <2>1. [NodeWork!ChildNext]_NodeWork!childVars
    BY <1>3 DEF SideNext, Is, sideVars, NodeWork!childVars
  <2>2. QED
    BY <1>0, <1>3, <2>1, Constants, NodeWork!ChildNextIInv DEF ProcessesIInv, Is
<1>4. QED
  BY <1>0, <1>1, <1>2, <1>3 DEF ProcessesIInv, Is

\* A graph has one shell and the shells stay bounded, until close() has cleared the map of
\* sessions, and after that in the map; a call that was stopped is not taken for done, and
\* one that has settled leaves no process, nor one that holds its output, whichever
\* component a behaviour is of.
THEOREM ProcessOwnership == SideSpec => []ProcessesAreOwned
<1>1. ProcessesIInv => ProcessesAreOwned
  BY NodeWork!ChildShows DEF ProcessesIInv, ProcessesAreOwned, IInv, Inv, Shells!IInv, Shells!Inv
<1>2. QED
  BY <1>1, ProcessesInit, ProcessesNext, PTL DEF SideSpec

\* No shell is open in a folder in which an execution works - until close() has cleared the
\* map of sessions, and after that none of those in it: terminals have variables of their
\* own, which rest in a behaviour of another component.
THEOREM ExclusionSafety == SideSpec => []Exclusive
<1> DEFINE Resting == ~Is("terminals") /\ ~Is("shells") => Exclusive
<1>1. SideInit => Resting
  <2> SUFFICES ASSUME SideInit PROVE Exclusive
    OBVIOUS
  <2>1. Init
    BY DEF SideInit, Is
  <2> QED  BY <2>1, InitInv, Constants DEF Inv
<1>2. Resting /\ [SideNext]_sideVars => Resting'
  <2> SUFFICES ASSUME Resting, [SideNext]_sideVars, ~Is("terminals")', ~Is("shells")' PROVE Exclusive'
    OBVIOUS
  <2>1. component' = component
    BY ComponentStays DEF sideVars
  <2>2. UNCHANGED vars
    BY <2>1 DEF SideNext, Is, sideVars, Rest3, Rest5, Rest6, Rest8, Rest9, Rest12, Rest13, Rest14, Rest15
  <2>3. UNCHANGED <<folder, run, session, listed, server>>
    BY <2>2 DEF vars
  <2> QED  BY <2>1, <2>3 DEF Resting, Is, Exclusive, Known, Open
<1>3. ProcessesIInv /\ Resting => Exclusive
  <2>1. Shells!Exclusive => Exclusive
    BY DEF Exclusive, Known, Open, Shells!Exclusive, Shells!Known, Shells!Open
  <2> QED  BY <2>1 DEF ProcessesIInv, IInv, Inv, Shells!IInv, Shells!Inv
<1> QED  BY <1>1, <1>2, <1>3, ProcessesInit, ProcessesNext, PTL DEF SideSpec

------------------------------------------------------------------------------
(***************************************************************************)
(* The conversations of a workbench: Chat and the harness                  *)
(***************************************************************************)
ConversationsIInv ==
    /\ Is("chat") => Conversation!IInv
    /\ Is("harness") => Conversation!HarnessIInv
    /\ Is("harness-cache") => TwoRuns!HarnessIInv

LEMMA ConversationsInit == SideInit => ConversationsIInv
<1> SUFFICES ASSUME SideInit PROVE ConversationsIInv
  OBVIOUS
<1>1. /\ Is("chat") => Conversation!Init
      /\ Is("harness") => Conversation!HarnessInit
      /\ Is("harness-cache") => TwoRuns!HarnessInit
  BY DEF SideInit, Is
<1> QED
  BY <1>1, Constants, Conversation!InitIInv, Conversation!HarnessInitIInv, TwoRuns!HarnessInitIInv
  DEF ConversationsIInv

LEMMA ConversationsNext == ConversationsIInv /\ [SideNext]_sideVars => ConversationsIInv'
<1> SUFFICES ASSUME ConversationsIInv, [SideNext]_sideVars PROVE ConversationsIInv'
  OBVIOUS
<1>1. component' = component
  BY ComponentStays DEF sideVars
<1>2. /\ Is("chat") => [Conversation!Next]_Conversation!vars
      /\ Is("harness") => [Conversation!HarnessNext]_Conversation!harnessVars
      /\ Is("harness-cache") => [TwoRuns!HarnessNext]_TwoRuns!harnessVars
  BY DEF SideNext, Is, sideVars, Conversation!vars, Conversation!harnessVars, TwoRuns!harnessVars
<1>3. /\ Is("chat")' => Is("chat")
      /\ Is("harness")' => Is("harness")
      /\ Is("harness-cache")' => Is("harness-cache")
  BY <1>1 DEF Is
<1> QED
  BY <1>2, <1>3, Constants, Conversation!NextIInv, Conversation!HarnessNextIInv, TwoRuns!HarnessNextIInv
  DEF ConversationsIInv

\* A conversation has one answer under way, a message is saved once, a proposal is stored
\* with all of its answer, to a message that does not go on, a harness run accounts for what
\* its stages used, and its handoffs are of its own stages, whichever component a behaviour
\* is of.
THEOREM ConversationsSafety == SideSpec => []ConversationsAreWhole
<1>1. SideInit => ConversationsIInv
  BY ConversationsInit
<1>2. ConversationsIInv /\ [SideNext]_sideVars => ConversationsIInv'
  BY ConversationsNext
<1>3. ConversationsIInv => ConversationsAreWhole
  BY DEF ConversationsIInv, ConversationsAreWhole, Conversation!IInv, Conversation!HarnessIInv, TwoRuns!HarnessIInv
<1> QED  BY <1>1, <1>2, <1>3, PTL DEF SideSpec

\* What is accepted or applied is what was begun, whichever component a behaviour is of.
THEOREM AcceptedIsAsBegun == SideSpec => AcceptedAsBegun
<1>1. SideInit => ConversationsIInv
  BY ConversationsInit
<1>2. ConversationsIInv /\ [SideNext]_sideVars => ConversationsIInv'
  BY ConversationsNext
<1>3. ConversationsIInv /\ [SideNext]_sideVars => [AcceptedAsBegunStep]_sideVars
  <2> SUFFICES ASSUME ConversationsIInv, SideNext PROVE AcceptedAsBegunStep
    OBVIOUS
  <2>1. CASE Is("chat")
    <3>1. [Conversation!Next]_Conversation!vars
      BY <2>1 DEF SideNext, Is
    <3>2. Conversation!IInv
      BY <2>1 DEF ConversationsIInv
    <3> QED  BY <2>1, <3>1, <3>2, Constants, Conversation!AppliesToBaseStep, Conversation!AcceptsUnderPinsStep
             DEF AcceptedAsBegunStep, Is
  <2>2. CASE Is("harness")
    <3>1. [Conversation!HarnessNext]_Conversation!harnessVars
      BY <2>2 DEF SideNext, Is
    <3>2. Conversation!HarnessIInv
      BY <2>2 DEF ConversationsIInv
    <3> QED  BY <2>2, <3>1, <3>2, Constants, Conversation!BudgetOnAcceptanceStep, Conversation!CheckpointsLastStep
             DEF AcceptedAsBegunStep, Is
  <2> QED  BY <2>1, <2>2 DEF AcceptedAsBegunStep
<1> QED  BY <1>1, <1>2, <1>3, PTL DEF SideSpec, AcceptedAsBegun

------------------------------------------------------------------------------
(***************************************************************************)
(* The applications that own the storage                                   *)
(***************************************************************************)
OwnersIInv ==
    /\ Is("owner") => Storage!IInv
    /\ Is("owners") => Racing!IInv

LEMMA OwnersInit == SideInit => OwnersIInv
<1> SUFFICES ASSUME SideInit PROVE OwnersIInv
  OBVIOUS
<1>1. /\ Is("owner") => Storage!Init
      /\ Is("owners") => Racing!Init
  BY DEF SideInit, Is
<1> QED
  BY <1>1, Constants, Storage!InitIInv, Racing!InitIInv
  DEF OwnersIInv

LEMMA OwnersNext == OwnersIInv /\ [SideNext]_sideVars => OwnersIInv'
<1> SUFFICES ASSUME OwnersIInv, [SideNext]_sideVars PROVE OwnersIInv'
  OBVIOUS
<1>1. component' = component
  BY ComponentStays DEF sideVars
<1>2. /\ Is("owner") => [Storage!Next]_Storage!vars
      /\ Is("owners") => [Racing!Next]_Racing!vars
  BY DEF SideNext, Is, sideVars, Storage!vars, Storage!cluster, Racing!vars, Racing!cluster
<1>3. /\ Is("owner")' => Is("owner")
      /\ Is("owners")' => Is("owners")
  BY <1>1 DEF Is
<1> QED
  BY <1>2, <1>3, Constants, Storage!NextIInv, Racing!NextIInv
  DEF OwnersIInv

\* The storage server is run by one application and left behind by none, whichever
\* component a behaviour is of.
THEOREM DirectoryOwnership == SideSpec => []DirectoryIsOwned
<1>1. OwnersIInv => DirectoryIsOwned
  <2>1. Storage!IInv => Storage!OpenIsServed /\ Storage!NoneIsLeftRunning
    BY DEF Storage!IInv
  <2>2. Racing!IInv => Racing!NoneIsLeftRunning /\ Racing!FreshLockIsExclusive
    BY Constants, Racing!FreshIsExclusive DEF Racing!IInv
  <2>3. QED
    BY <2>1, <2>2 DEF OwnersIInv, DirectoryIsOwned
<1>2. QED
  BY <1>1, OwnersInit, OwnersNext, PTL DEF SideSpec

------------------------------------------------------------------------------
(***************************************************************************)
(* What is stored: objects, sources, transactions, an import               *)
(***************************************************************************)
StoredIInv ==
    /\ Is("objects") => Objects!StoreIInv
    /\ Is("sources") => Racing!SourcesIInv
    /\ Is("sources-of-every-kind") => Storage!SourcesIInv
    /\ Is("client") => Storage!ClientIInv
    /\ Is("import") => Storage!ImportIInv

LEMMA StoredInit == SideInit => StoredIInv
<1> SUFFICES ASSUME SideInit PROVE StoredIInv
  OBVIOUS
<1>1. /\ Is("objects") => Objects!StoreInit
      /\ Is("sources") => Racing!SourcesInit
      /\ Is("sources-of-every-kind") => Storage!SourcesInit
      /\ Is("client") => Storage!ClientInit
      /\ Is("import") => Storage!ImportInit
  BY DEF SideInit, Is
<1> QED
  BY <1>1, Constants, Objects!StoreInitIInv, Racing!SourcesInitIInv, Storage!SourcesInitIInv, Storage!ClientInitIInv,
     Storage!ImportInitIInv
  DEF StoredIInv

LEMMA StoredNext == StoredIInv /\ [SideNext]_sideVars => StoredIInv'
<1> SUFFICES ASSUME StoredIInv, [SideNext]_sideVars PROVE StoredIInv'
  OBVIOUS
<1>1. component' = component
  BY ComponentStays DEF sideVars
<1>2. /\ Is("objects") => [Objects!StoreNext]_Objects!storeVars
      /\ Is("sources") => [Racing!SourcesNext]_Racing!sourcesVars
      /\ Is("sources-of-every-kind") => [Storage!SourcesNext]_Storage!sourcesVars
      /\ Is("client") => [Storage!ClientNext]_Storage!clientVars
      /\ Is("import") => [Storage!ImportNext]_Storage!importVars
  BY DEF SideNext, Is, sideVars, Objects!storeVars, Racing!sourcesVars, Storage!sourcesVars, Storage!clientVars,
         Storage!importVars
<1>3. /\ Is("objects")' => Is("objects")
      /\ Is("sources")' => Is("sources")
      /\ Is("sources-of-every-kind")' => Is("sources-of-every-kind")
      /\ Is("client")' => Is("client")
      /\ Is("import")' => Is("import")
  BY <1>1 DEF Is
<1> QED
  BY <1>2, <1>3, Constants, Objects!StoreNextIInv, Racing!SourcesNextIInv, Storage!SourcesNextIInv, Storage!ClientNextIInv,
     Storage!ImportNextIInv
  DEF StoredIInv

\* What is reported stored is there in full, after a crash too: objects, the sources that
\* name them, transactions that returned, and imported rows and objects, whichever component
\* a behaviour is of.
THEOREM StorageSafety == SideSpec => []StoredIsWhole
<1>1. StoredIInv => StoredIsWhole
  <2>1. Objects!StoreIInv => Objects!PublishedIsWhole
    BY Objects!StoreIsWhole
  <2>2. Storage!ImportIInv => Storage!ServedIsWhole /\ Storage!ReportedIsImported
    BY Constants, Storage!ImportIsWhole
  <2>3. QED
    BY <2>1, <2>2 DEF StoredIInv, StoredIsWhole
<1>2. QED
  BY <1>1, StoredInit, StoredNext, PTL DEF SideSpec

------------------------------------------------------------------------------
(***************************************************************************)
(* What a user sets: the memory of the harness, providers, the catalog     *)
(***************************************************************************)
SettingsIInv ==
    /\ Is("memory") => Conversation!MemoryIInv
    /\ Is("hosted-provider") => Settings!IInv
    /\ Is("hosted-provider-alone") => OneAtATime!IInv
    /\ Is("command") => Command!IInv
    /\ Is("autodetect") => Settings!DetectIInv
    /\ Is("autodetect-twice") => OneAtATime!DetectIInv
    /\ Is("catalog") => Settings!CatalogIInv
    /\ Is("agents") => OneAtATime!CatalogIInv
    /\ Is("one-build") => Command!CatalogIInv

LEMMA SettingsInit == SideInit => SettingsIInv
<1> SUFFICES ASSUME SideInit PROVE SettingsIInv
  OBVIOUS
<1>1. /\ Is("memory") => Conversation!MemoryInit
      /\ Is("hosted-provider") => Settings!Init
      /\ Is("hosted-provider-alone") => OneAtATime!Init
      /\ Is("command") => Command!Init
      /\ Is("autodetect") => Settings!DetectInit
      /\ Is("autodetect-twice") => OneAtATime!DetectInit
      /\ Is("catalog") => Settings!CatalogInit
      /\ Is("agents") => OneAtATime!CatalogInit
      /\ Is("one-build") => Command!CatalogInit
  BY DEF SideInit, Is
<1> QED
  BY <1>1, Constants, Conversation!MemoryInitIInv, Settings!InitIInv, OneAtATime!InitIInv, Command!InitIInv,
     Settings!DetectInitIInv, OneAtATime!DetectInitIInv, Settings!CatalogInitIInv, OneAtATime!CatalogInitIInv,
     Command!CatalogInitIInv
  DEF SettingsIInv

LEMMA SettingsNext == SettingsIInv /\ [SideNext]_sideVars => SettingsIInv'
<1> SUFFICES ASSUME SettingsIInv, [SideNext]_sideVars PROVE SettingsIInv'
  OBVIOUS
<1>1. component' = component
  BY ComponentStays DEF sideVars
<1>2. /\ Is("memory") => [Conversation!MemoryNext]_Conversation!memoryVars
      /\ Is("hosted-provider") => [Settings!Next]_Settings!vars
      /\ Is("hosted-provider-alone") => [OneAtATime!Next]_OneAtATime!vars
      /\ Is("command") => [Command!Next]_Command!vars
      /\ Is("autodetect") => [Settings!DetectNext]_Settings!detectVars
      /\ Is("autodetect-twice") => [OneAtATime!DetectNext]_OneAtATime!detectVars
      /\ Is("catalog") => [Settings!CatalogNext]_Settings!catalogVars
      /\ Is("agents") => [OneAtATime!CatalogNext]_OneAtATime!catalogVars
      /\ Is("one-build") => [Command!CatalogNext]_Command!catalogVars
  BY DEF SideNext, Is, sideVars, Conversation!memoryVars, Settings!vars, OneAtATime!vars, Command!vars,
         Settings!detectVars, OneAtATime!detectVars, Settings!catalogVars, OneAtATime!catalogVars,
         Command!catalogVars
<1>3. /\ Is("memory")' => Is("memory")
      /\ Is("hosted-provider")' => Is("hosted-provider")
      /\ Is("hosted-provider-alone")' => Is("hosted-provider-alone")
      /\ Is("command")' => Is("command")
      /\ Is("autodetect")' => Is("autodetect")
      /\ Is("autodetect-twice")' => Is("autodetect-twice")
      /\ Is("catalog")' => Is("catalog")
      /\ Is("agents")' => Is("agents")
      /\ Is("one-build")' => Is("one-build")
  BY <1>1 DEF Is
<1> QED
  BY <1>2, <1>3, Constants, Conversation!MemoryNextIInv, Settings!NextIInv, OneAtATime!NextIInv, Command!NextIInv,
     Settings!DetectNextIInv, OneAtATime!DetectNextIInv, Settings!CatalogNextIInv, OneAtATime!CatalogNextIInv,
     Command!CatalogNextIInv
  DEF SettingsIInv

\* The command's agents have one build, which they are seeded from.
LEMMA OneBuild == Command!OneBuildOnly
  BY DEF Command!OneBuildOnly

\* A memory that is synced is stored, what a provider is called usable or connected for was
\* verified with the key and the model in use, and no prompt or configuration was saved over
\* one that the save has not seen, whichever component a behaviour is of.
THEOREM SettingsSafety == SideSpec => []SettingsAreVerified
<1>1. SettingsIInv => SettingsAreVerified
  <2>1. Conversation!MemoryIInv => Conversation!SyncedIsStored
    BY DEF Conversation!MemoryIInv
  <2>2. Settings!IInv => Settings!PinHolds
    BY Constants, Settings!PinsHold
  <2>3. OneAtATime!IInv => OneAtATime!PinHolds /\ OneAtATime!LeftStaysLeft /\ OneAtATime!UsableIsVerified
    BY Constants, OneAtATime!PinsHold, OneAtATime!AloneShows
  <2>4. Command!IInv => Command!LeftStaysLeft
    BY Constants, Command!AloneShows
  <2>5. Settings!DetectIInv => Settings!OthersAreConnected /\ Settings!ReportedIsUsable
    BY Constants, Settings!RoundShows
  <2>6. OneAtATime!DetectIInv => OneAtATime!OthersAreConnected
    BY Constants, OneAtATime!RoundShows
  <2>7. Settings!CatalogIInv => Settings!NothingOverwritten
    BY Constants, Settings!CatalogShows
  <2>8. OneAtATime!CatalogIInv => OneAtATime!PromptNotOverwritten
    BY Constants, OneAtATime!CatalogShows
  <2>9. Command!CatalogIInv => Command!PromptStaysEditable
    BY Constants, OneBuild, Command!CatalogShows
  <2> QED
    BY <2>1, <2>2, <2>3, <2>4, <2>5, <2>6, <2>7, <2>8, <2>9 DEF SettingsIInv, SettingsAreVerified
<1> QED
  BY <1>1, SettingsInit, SettingsNext, PTL DEF SideSpec

------------------------------------------------------------------------------
(***************************************************************************)
(* The traces of operations, and the stream on which they are followed     *)
(***************************************************************************)
ToldIInv ==
    /\ Is("traces") => Conversation!TracesIInv
    /\ Is("two-traces") => TwoRuns!TracesIInv

LEMMA ToldInit == SideInit => ToldIInv
<1> SUFFICES ASSUME SideInit PROVE ToldIInv
  OBVIOUS
<1>1. /\ Is("traces") => Conversation!TracesInit
      /\ Is("two-traces") => TwoRuns!TracesInit
  BY DEF SideInit, Is
<1> QED
  BY <1>1, Constants, Conversation!TracesInitIInv, TwoRuns!TracesInitIInv DEF ToldIInv

LEMMA ToldNext == ToldIInv /\ [SideNext]_sideVars => ToldIInv'
<1> SUFFICES ASSUME ToldIInv, [SideNext]_sideVars PROVE ToldIInv'
  OBVIOUS
<1>1. component' = component
  BY ComponentStays DEF sideVars
<1>2. /\ Is("traces") => [Conversation!TracesNext]_Conversation!tracesVars
      /\ Is("two-traces") => [TwoRuns!TracesNext]_TwoRuns!tracesVars
  BY DEF SideNext, Is, sideVars, Conversation!tracesVars, TwoRuns!tracesVars
<1>3. /\ Is("traces")' => Is("traces")
      /\ Is("two-traces")' => Is("two-traces")
  BY <1>1 DEF Is
<1> QED
  BY <1>2, <1>3, Constants, Conversation!TracesNextIInv, TwoRuns!TracesNextIInv DEF ToldIInv

\* An ended trace is closed, each span once, with nothing left open and what really happened,
\* and the stream follows what is stored, whichever component a behaviour is of.
THEOREM TracesSafety == SideSpec => []TracesTellTheStory
<1>1. ToldIInv => TracesTellTheStory
  BY DEF ToldIInv, TracesTellTheStory
<1> QED
  BY <1>1, ToldInit, ToldNext, PTL DEF SideSpec

------------------------------------------------------------------------------
(***************************************************************************)
(* A node's work: the skills it is given, its receipt and its review       *)
(***************************************************************************)
NodeWorkIInv ==
    /\ Is("skills") => NodeWork!SkillsIInv
    /\ Is("receipt") => NodeWork!ReceiptIInv
    /\ Is("review") => NodeWork!ReviewIInv

\* Each starts from its own initial states ...
LEMMA NodeWorkInit == SideInit => NodeWorkIInv
<1> SUFFICES ASSUME SideInit PROVE NodeWorkIInv
  OBVIOUS
<1>1. /\ Is("skills") => NodeWork!SkillsInit
      /\ Is("receipt") => NodeWork!ReceiptInit
      /\ Is("review") => NodeWork!ReviewInit
  BY DEF SideInit, Is
<1> QED
  BY <1>1, Constants, NodeWork!SkillsInitIInv, NodeWork!ReceiptInitIInv, NodeWork!ReviewInitIInv
  DEF NodeWorkIInv

\* ... and takes its own steps.
LEMMA NodeWorkNext == NodeWorkIInv /\ [SideNext]_sideVars => NodeWorkIInv'
<1> SUFFICES ASSUME NodeWorkIInv, [SideNext]_sideVars PROVE NodeWorkIInv'
  OBVIOUS
<1>1. component' = component
  BY ComponentStays DEF sideVars
<1>2. /\ Is("skills") => [NodeWork!SkillsNext]_NodeWork!skillVars
      /\ Is("receipt") => [NodeWork!ReceiptNext]_NodeWork!receiptVars
      /\ Is("review") => [NodeWork!ReviewNext]_NodeWork!reviewVars
  BY DEF SideNext, Is, sideVars, NodeWork!skillVars, NodeWork!receiptVars, NodeWork!reviewVars
<1>3. /\ Is("skills")' => Is("skills")
      /\ Is("receipt")' => Is("receipt")
      /\ Is("review")' => Is("review")
  BY <1>1 DEF Is
<1> QED
  BY <1>2, <1>3, Constants, NodeWork!SkillsNextIInv, NodeWork!ReceiptNextIInv, NodeWork!ReviewNextIInv
  DEF NodeWorkIInv

\* A node is given the skills that were approved, in full and as they are on the disk; work
\* that is accepted is what its receipt says and was verified; a review that accepts it was
\* made under the pins of its providers and quotes what is recorded, whichever component a
\* behaviour is of.
THEOREM NodeWorkSafety == SideSpec => []NodeWorkIsChecked
<1>1. NodeWorkIInv => NodeWorkIsChecked
  <2>1. NodeWork!SkillsIInv => NodeWork!GivenInFull /\ NodeWork!GivenIsCurrent /\ NodeWork!ApprovedIsEnabled
    BY Constants, NodeWork!SkillsShow DEF NodeWork!SkillsIInv
  <2>2. NodeWork!ReceiptIInv =>
          NodeWork!StartsFromContext /\ NodeWork!ChangesAreReported /\ NodeWork!AcceptedIsVerified
    BY Constants, NodeWork!ReceiptShows DEF NodeWork!ReceiptIInv
  <2>3. NodeWork!ReviewIInv => NodeWork!ReviewedUnderPins /\ NodeWork!EveryCriterionIsQuoted
    BY Constants, NodeWork!ReviewShows
  <2>4. QED
    BY <2>1, <2>2, <2>3 DEF NodeWorkIInv, NodeWorkIsChecked
<1>2. QED
  BY <1>1, NodeWorkInit, NodeWorkNext, PTL DEF SideSpec

------------------------------------------------------------------------------
\* An answer that was waited for does not undo what happened meanwhile: a memory that was
\* edited, a review, a provider that works, an override of an agent, the rows of a server
\* that has started, whichever component a behaviour is of.
THEOREM NewerWorkIsKept == SideSpec => NewerWorkStands
<1>1. SettingsIInv /\ StoredIInv /\ [SideNext]_sideVars => [NewerWorkStandsStep]_sideVars
  <2> SUFFICES ASSUME SettingsIInv, StoredIInv, SideNext PROVE NewerWorkStandsStep
    OBVIOUS
  <2>1. CASE Is("memory")
    <3>1. [Conversation!MemoryNext]_Conversation!memoryVars /\ Conversation!MemoryIInv
      BY <2>1 DEF SideNext, Is, SettingsIInv
    <3>2. /\ Conversation!RecalledIsCurrentStep /\ Conversation!LocalEditsStayStep
          /\ Conversation!ReviewIsOfThisStateStep
      BY <3>1, Constants, Conversation!RecalledStep, Conversation!LocalEditsStep, Conversation!ReviewStep
    <3> QED  BY <2>1, <3>2 DEF NewerWorkStandsStep, Is
  <2>2. CASE Is("command")
    <3>1. [Command!Next]_Command!vars /\ Command!IInv
      BY <2>2 DEF SideNext, Is, SettingsIInv
    <3>2. Command!ReadyIsInspectedStep
      BY <3>1, Constants, Command!InspectedStep
    <3> QED  BY <2>2, <3>2 DEF NewerWorkStandsStep, Is
  <2>3. CASE Is("autodetect")
    <3>1. [Settings!DetectNext]_Settings!detectVars /\ Settings!DetectIInv
      BY <2>3 DEF SideNext, Is, SettingsIInv
    <3>2. Settings!ModelIsKeptStep
      BY <3>1, Constants, Settings!ModelIsKeptByStep
    <3> QED  BY <2>3, <3>2 DEF NewerWorkStandsStep, Is
  <2>4. CASE Is("autodetect-twice")
    <3>1. [OneAtATime!DetectNext]_OneAtATime!detectVars /\ OneAtATime!DetectIInv
      BY <2>4 DEF SideNext, Is, SettingsIInv
    <3>2. OneAtATime!WorkingStaysConnectedStep
      BY <3>1, Constants, OneAtATime!WorkingStaysStep
    <3> QED  BY <2>4, <3>2 DEF NewerWorkStandsStep, Is
  <2>5. CASE Is("agents")
    <3>1. [OneAtATime!CatalogNext]_OneAtATime!catalogVars /\ OneAtATime!CatalogIInv
      BY <2>5 DEF SideNext, Is, SettingsIInv
    <3>2. OneAtATime!OverridesSurviveStep
      BY <3>1, Constants, OneAtATime!OverridesStep
    <3> QED  BY <2>5, <3>2 DEF NewerWorkStandsStep, Is
  <2>6. CASE Is("import")
    <3>1. Storage!ImportNext /\ Storage!ImportIInv
      BY <2>6 DEF SideNext, Is, StoredIInv
    <3>2. Storage!ServerRowsStayStep
      BY <3>1, Constants, Storage!ImportNextIInv
    <3> QED  BY <2>6, <3>2 DEF NewerWorkStandsStep, Is
  <2> QED  BY <2>1, <2>2, <2>3, <2>4, <2>5, <2>6 DEF NewerWorkStandsStep
<1> QED
  BY <1>1, SettingsInit, SettingsNext, StoredInit, StoredNext, PTL DEF SideSpec, NewerWorkStands
==============================================================================
