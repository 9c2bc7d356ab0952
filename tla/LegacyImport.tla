----------------------------- MODULE LegacyImport -----------------------------
(***************************************************************************)
(* The import of a legacy SQLite store into a new PostgreSQL directory.    *)
(* Objects are copied one by one, rows and the import's record are one     *)
(* transaction, and a marker file beside the data opens the directory for  *)
(* the application.  The importer may be killed between any two steps and  *)
(* is started again; the old application may still change its store.       *)
(*                                                                         *)
(* The directory is the standard one, "postgres" beside local.db: of any   *)
(* other the application does not ask for the marker.                      *)
(***************************************************************************)
EXTENDS Naturals, FiniteSets

CONSTANTS Sources, Nothing,
          MaxCrashes, MaxWrites     \* bounds: kills, and rows the application writes

ImportAssumption == MaxCrashes \in Nat /\ MaxWrites \in Nat \ {0} /\ \A some \in SUBSET Sources : some # Nothing

VARIABLES
    legacy,     \* the sources of the old store
    damaged,    \* those whose object is missing or altered there
    importer, snapshot, left,  \* where it is, its read transaction, the objects it has to copy
    objects,    \* the copied objects
    rows,       \* the sources of the destination's rows, Nothing when it is empty
    written,    \* rows the application wrote
    record,     \* the snapshot of the import's record
    marker,     \* the snapshot of the manifest file
    app,        \* the application runs on the destination
    crashes

importVars == <<legacy, damaged, importer, snapshot, left, objects, rows, written, record, marker, app, crashes>>
progress    == <<snapshot, left>>
destination == <<objects, rows, written, record, marker>>

ImportInit ==
    /\ legacy \in SUBSET Sources /\ damaged \in {d \in SUBSET Sources : Cardinality(d) <= 1}
    /\ importer = "idle" /\ snapshot = {} /\ left = {} /\ objects = {}
    /\ rows \in {Nothing, {}} /\ written = IF rows = Nothing THEN 0 ELSE 1
    /\ record = Nothing /\ marker = Nothing /\ app = FALSE /\ crashes = 0

------------------------------------------------------------------------------
OldAppSaves ==
    /\ \E s \in Sources \ legacy : legacy' = legacy \cup {s}
    /\ UNCHANGED <<damaged, importer, progress, destination, app, crashes>>

\* The read transaction pins the snapshot; a running application holds the directory.
ImportBegins ==
    /\ importer = "idle" /\ ~app /\ importer' = "look" /\ snapshot' = legacy
    /\ UNCHANGED <<legacy, damaged, left, destination, app, crashes>>

\* Mutant: a record of any snapshot will do.
AnySnapshot == TRUE

SameSnapshot == record = snapshot

\* Mutant: the record is not looked for.
RecordIgnored == FALSE

Recorded == record # Nothing

\* An earlier import that has committed is only verified and published.
FindsRecord ==
    /\ importer = "look" /\ Recorded
    /\ importer' = IF SameSnapshot /\ record \subseteq objects THEN "publish" ELSE "refused"
    /\ UNCHANGED <<legacy, damaged, progress, destination, app, crashes>>

\* Mutant: a destination with data is taken as well.
EmptyEnough == TRUE

DestinationEmpty == rows = Nothing

FindsNoRecord ==
    /\ importer = "look" /\ ~Recorded
    /\ IF DestinationEmpty THEN importer' = "objects" /\ left' = snapshot ELSE importer' = "refused" /\ UNCHANGED left
    /\ UNCHANGED <<legacy, damaged, snapshot, destination, app, crashes>>

\* Mutant: an object is copied as it is.
CopiesUnverified(s) == UNCHANGED importer /\ left' = left \ {s} /\ objects' = objects \cup {s}

\* Mutant: an object that cannot be verified is left out.
CopiesWhatItCan(s) == UNCHANGED importer /\ left' = left \ {s} /\ objects' = IF s \in damaged THEN objects ELSE objects \cup {s}

Copies(s) ==
    IF s \in damaged THEN importer' = "refused" /\ UNCHANGED <<left, objects>>
    ELSE UNCHANGED importer /\ left' = left \ {s} /\ objects' = objects \cup {s}

CopiesObject ==
    /\ importer = "objects" /\ \E s \in left : Copies(s)
    /\ UNCHANGED <<legacy, damaged, snapshot, rows, written, record, marker, app, crashes>>

\* Rows, their verification and the record; a failure rolls all of it back.
Commits ==
    /\ importer = "objects" /\ left = {}
    /\ \/ importer' = "publish" /\ rows' = snapshot /\ record' = snapshot
       \/ importer' = "refused" /\ UNCHANGED <<rows, record>>
    /\ UNCHANGED <<legacy, damaged, progress, objects, written, marker, app, crashes>>

\* A temporary file, renamed
Publishes ==
    /\ importer = "publish" /\ importer' = "done" /\ marker' = record
    /\ UNCHANGED <<legacy, damaged, progress, objects, rows, written, record, app, crashes>>

\* Whoever started the importer may start it again.
Retries ==
    /\ importer \in {"refused", "done"} /\ importer' = "idle"
    /\ UNCHANGED <<legacy, damaged, progress, destination, app, crashes>>

ImportCrash ==
    /\ importer \notin {"idle", "refused", "done"} /\ crashes < MaxCrashes /\ crashes' = crashes + 1 /\ importer' = "idle"
    /\ UNCHANGED <<legacy, damaged, progress, destination, app>>

------------------------------------------------------------------------------
\* Mutant: the application opens what has rows.
OpensRows == rows # Nothing

\* assertLegacyImportComplete
MayOpen == marker # Nothing

AppStarts ==
    /\ ~app /\ MayOpen /\ importer \in {"idle", "refused", "done"} /\ app' = TRUE
    /\ UNCHANGED <<legacy, damaged, importer, progress, destination, crashes>>

AppWrites ==
    /\ app /\ written < MaxWrites /\ written' = written + 1
    /\ UNCHANGED <<legacy, damaged, importer, progress, objects, rows, record, marker, app, crashes>>

AppStops ==
    /\ app /\ app' = FALSE
    /\ UNCHANGED <<legacy, damaged, importer, progress, destination, crashes>>

ImportNext ==
    \/ OldAppSaves \/ ImportBegins \/ FindsRecord \/ FindsNoRecord \/ CopiesObject \/ Commits \/ Publishes \/ Retries \/ ImportCrash
    \/ AppStarts \/ AppWrites \/ AppStops

\* The importer is started whenever the application does not run, and goes on.
ImportFairness ==
    /\ WF_importVars(ImportBegins) /\ WF_importVars(FindsRecord) /\ WF_importVars(FindsNoRecord) /\ WF_importVars(CopiesObject)
    /\ WF_importVars(Publishes) /\ WF_importVars(Retries) /\ WF_importVars(AppStops)

ImportSpec == ImportInit /\ [][ImportNext]_importVars /\ ImportFairness

------------------------------------------------------------------------------
\* The variables have their types.
ImportTypeOK ==
    /\ legacy \subseteq Sources /\ damaged \subseteq Sources /\ snapshot \subseteq legacy /\ left \subseteq snapshot
    /\ importer \in {"idle", "look", "objects", "publish", "done", "refused"} /\ objects \subseteq Sources \ damaged
    /\ rows \in {Nothing} \cup SUBSET Sources /\ written \in 0..MaxWrites /\ app \in BOOLEAN /\ crashes \in 0..MaxCrashes
    /\ record \in {Nothing} \cup SUBSET Sources /\ marker \in {Nothing, record}

\* The application never works on a directory whose rows or objects are not all there.
ServedIsWhole == app => rows # Nothing /\ rows \subseteq objects

\* An import that reports success has imported the snapshot it read, in this attempt or
\* in an earlier one, and no other.
ReportedIsImported == importer = "done" /\ marker # Nothing => record = marker /\ snapshot = record

ServerRowsStayStep == rows' # rows => rows = Nothing

\* An import puts its rows into an empty directory and nowhere else.
ServerRowsStay == [][ServerRowsStayStep]_importVars

\* A commit that was not followed by its marker is published by a later attempt, unless
\* the old store has changed since.
CommittedIsPublished == (record # Nothing) ~> (marker # Nothing \/ legacy # record)

------------------------------------------------------------------------------
\* Rows come with their record and are never rewritten; what has a record has its objects.
RecordIsComplete == record # Nothing => rows = record /\ record \subseteq objects

\* What the importer has looked at stays so while it works: nobody else writes the destination.
WorkIsCurrent ==
    /\ importer = "objects" => rows = Nothing /\ record = Nothing /\ snapshot \ left \subseteq objects
    /\ importer \in {"publish", "done"} => record = snapshot

\* The marker is of the record; only who has found it serves.
MarkerIsLast == (marker # Nothing => marker = record) /\ (app => marker # Nothing)

\* What makes the marker enough: inductive.
ImportIInv == ImportTypeOK /\ RecordIsComplete /\ WorkIsCurrent /\ MarkerIsLast
==============================================================================
