----------------------------- MODULE CodexReceipt -----------------------------
(***************************************************************************)
(* When a node's work is accepted.  The adapter captures the project's     *)
(* files before and after the Codex process, file by file, compares what   *)
(* changed and which commands succeeded with what the final receipt says,  *)
(* and reads the changed files once more as the node's artifacts.  Other   *)
(* programs may save files at any moment.                                  *)
(*                                                                         *)
(* A file's content is the number of the save that made it: no change      *)
(* brings an earlier content back, but Codex may delete a file.            *)
(***************************************************************************)
EXTENDS Naturals, FiniteSets, SequencesExt

CONSTANTS Paths, Commands, Absent,
          Size(_),              \* of a content
          MaxFileSize, MaxTotal, MaxFiles,      \* of the artifacts
          MaxSaves, MaxRuns     \* bounds: saves, and commands that Codex runs

ReceiptAssumption ==
    /\ Absent \notin Nat /\ {MaxFileSize, MaxTotal, MaxFiles, MaxSaves, MaxRuns} \subseteq Nat
    /\ \A c \in 0..MaxSaves : Size(c) \in Nat

VARIABLES
    ws,         \* path -> its content
    saves,      \* the last save
    phase,
    reading,    \* the manifest that is being captured
    context,    \* the manifest of the pinned execution context
    before, after,
    runs,       \* the commands Codex ran and whether they succeeded
    receipt,
    artifacts, total,   \* path -> the content that is stored, and the size of all
    base, start, end    \* observers: the files when the context was captured, when the
                        \* process started and when it ended

receiptVars ==
    <<ws, saves, phase, reading, context, before, after, runs, receipt, artifacts, total, base, start, end>>
store     == <<artifacts, total>>
observers == <<base, start, end>>

Contents == Nat \cup {Absent}
Nothing  == [p \in Paths |-> Absent]

ReceiptInit ==
    /\ ws \in [Paths -> {0, Absent}] /\ saves = 0 /\ phase = "context"
    /\ reading = [listed |-> FALSE, left |-> {}, seen |-> Nothing, file |-> Absent]
    /\ context = Nothing /\ before = Nothing /\ after = Nothing
    /\ runs = <<>> /\ receipt = Absent
    /\ artifacts = [p \in {} |-> Absent] /\ total = 0
    /\ base = ws /\ start = ws /\ end = ws

------------------------------------------------------------------------------
\* The user or another program saves a file.
Save ==
    /\ saves < MaxSaves /\ saves' = saves + 1
    /\ \E p \in Paths : ws' = [ws EXCEPT ![p] = saves + 1]
    /\ UNCHANGED <<phase, reading, context, before, after, runs, receipt, store, observers>>

Capturing == phase \in {"context", "before", "after"}

\* captureWorkspaceFileManifest: the list of the files, and then one after another.
Lists ==
    /\ Capturing /\ ~reading.listed
    /\ reading' = [reading EXCEPT !.listed = TRUE, !.left = {p \in Paths : ws[p] # Absent}, !.seen = Nothing]
    /\ UNCHANGED <<ws, saves, phase, context, before, after, runs, receipt, store, observers>>

\* A file that is gone by now is passed over.
Reads ==
    /\ Capturing
    /\ \E p \in reading.left :
          reading' = [reading EXCEPT !.left = @ \ {p}, !.seen[p] = ws[p]]
    /\ UNCHANGED <<ws, saves, phase, context, before, after, runs, receipt, store, observers>>

Captured(at) == phase = at /\ reading.listed /\ reading.left = {}

ContextEnds ==
    /\ Captured("context") /\ context' = reading.seen /\ phase' = "before"
    /\ reading' = [reading EXCEPT !.listed = FALSE]
    /\ base' = ws
    /\ UNCHANGED <<ws, saves, before, after, runs, receipt, store, start, end>>

\* Mutant: the context's digest is not compared.
FollowsAnyContext == TRUE

FollowsContext == reading.seen = context

\* runCodexWorkspaceStep goes on only from the files of its context.
BeforeEnds ==
    /\ Captured("before") /\ before' = reading.seen
    /\ phase' = IF FollowsContext THEN "spawn" ELSE "WORKSPACE_CHANGED"
    /\ reading' = [reading EXCEPT !.listed = FALSE]
    /\ UNCHANGED <<ws, saves, context, after, runs, receipt, store, observers>>

Spawns ==
    /\ phase = "spawn" /\ phase' = "codex" /\ start' = ws
    /\ UNCHANGED <<ws, saves, reading, context, before, after, runs, receipt, store, base, end>>

------------------------------------------------------------------------------
CodexWrites ==
    /\ phase = "codex" /\ saves < MaxSaves /\ saves' = saves + 1
    /\ \E p \in Paths, c \in {saves + 1, Absent} : ws' = [ws EXCEPT ![p] = c]
    /\ UNCHANGED <<phase, reading, context, before, after, runs, receipt, store, observers>>

\* inspectCodexEvent and commandReceiptFromItem: a command that has ended, by its exit code.
CodexRuns ==
    /\ phase = "codex" /\ Len(runs) < MaxRuns
    /\ \E c \in Commands, succeeds \in BOOLEAN : runs' = Append(runs, [command |-> c, succeeded |-> succeeds])
    /\ UNCHANGED <<ws, saves, phase, reading, context, before, after, receipt, store, observers>>

Receipts ==
    [status : {"COMPLETED", "BLOCKED"}, changed : SUBSET Paths, passes : BOOLEAN, verified : SUBSET Commands]

\* The process ends and leaves its receipt, whatever it says.  A receipt that cannot be
\* read, or whose criteria are not the approved ones, is refused.
CodexEnds ==
    /\ phase = "codex" /\ end' = ws
    /\ \/ phase' = "INVALID_EXECUTION_RECEIPT" /\ UNCHANGED receipt
       \/ phase' = "after" /\ receipt' \in Receipts
    /\ UNCHANGED <<ws, saves, reading, context, before, after, runs, store, base, start>>

AfterEnds ==
    /\ Captured("after") /\ after' = reading.seen /\ phase' = "artifacts"
    /\ reading' = [reading EXCEPT !.left = {p \in Paths : before[p] # reading.seen[p]}]
    /\ UNCHANGED <<ws, saves, context, before, runs, receipt, store, observers>>

------------------------------------------------------------------------------
\* compareWorkspaceFileManifests
Changed == {p \in Paths : before[p] # after[p]}

Fits(p) ==
    /\ Cardinality(DOMAIN artifacts) < MaxFiles /\ ws[p] # Absent
    /\ Size(ws[p]) <= MaxFileSize /\ total + Size(ws[p]) <= MaxTotal

\* lstat: a file that is gone, too large or one too many is passed over.
Stats ==
    /\ phase = "artifacts"
    /\ \E p \in reading.left :
          IF Fits(p) THEN reading' = [reading EXCEPT !.left = @ \ {p}, !.file = p] /\ phase' = "read"
                     ELSE reading' = [reading EXCEPT !.left = @ \ {p}] /\ UNCHANGED phase
    /\ UNCHANGED <<ws, saves, context, before, after, runs, receipt, store, observers>>

\* readFile, of what the file is by then
ReadsArtifact ==
    /\ phase = "read" /\ phase' = "artifacts"
    /\ LET p == reading.file
       IN /\ artifacts' = [q \in DOMAIN artifacts \cup {p} |-> IF q = p THEN ws[p] ELSE artifacts[q]]
          /\ total' = total + Size(ws[p])
    /\ UNCHANGED <<ws, saves, reading, context, before, after, runs, receipt, observers>>

\* Mutant: a command that was run is a command that succeeded.
SucceededOrRan(c) == \E i \in DOMAIN runs : runs[i].command = c

\* matchReportedVerification
Succeeded(c) == \E i \in DOMAIN runs : runs[i].command = c /\ runs[i].succeeded

\* Mutant: what is reported was changed, but there may be more.
ChangedFilesAmong == receipt.changed \subseteq Changed

ChangedFilesMatch == receipt.changed = Changed

\* Mutant: the verdict is the receipt's status.
AcceptedAsReported == IF receipt.status = "COMPLETED" THEN "COMPLETED" ELSE "rejected"

Accepted ==
    IF /\ receipt.status = "COMPLETED" /\ receipt.passes
       /\ receipt.verified # {} /\ \A c \in receipt.verified : Succeeded(c)
       /\ ChangedFilesMatch
    THEN "accepted" ELSE "rejected"

ReceiptDecides ==
    /\ phase = "artifacts" /\ reading.left = {} /\ phase' = Accepted
    /\ UNCHANGED <<ws, saves, reading, context, before, after, runs, receipt, store, observers>>

ReceiptNext ==
    \/ Save \/ Lists \/ Reads \/ ContextEnds \/ BeforeEnds \/ Spawns \/ CodexWrites \/ CodexRuns \/ CodexEnds
    \/ AfterEnds \/ Stats \/ ReadsArtifact \/ ReceiptDecides

ReceiptSpec == ReceiptInit /\ [][ReceiptNext]_receiptVars

------------------------------------------------------------------------------
Manifests == [Paths -> Contents]
Verdicts  == {"WORKSPACE_CHANGED", "INVALID_EXECUTION_RECEIPT", "accepted", "rejected"}

\* The variables have their types.
ReceiptTypeOK ==
    /\ ws \in Manifests /\ saves \in 0..MaxSaves
    /\ phase \in {"context", "before", "spawn", "codex", "after", "artifacts", "read"} \cup Verdicts
    /\ reading \in [listed : BOOLEAN, left : SUBSET Paths, seen : Manifests, file : Paths \cup {Absent}]
    /\ context \in Manifests /\ before \in Manifests /\ after \in Manifests
    /\ runs \in Seq([command : Commands, succeeded : BOOLEAN]) /\ receipt \in Receipts \cup {Absent}
    /\ DOMAIN artifacts \subseteq Paths /\ total \in Nat
    /\ base \in Manifests /\ start \in Manifests /\ end \in Manifests

\* The files Codex starts from are those of the context it was given, all at one moment,
\* although the two manifests are read file by file while others save.
StartsFromContext ==
    phase \in {"spawn", "codex", "after", "artifacts", "read", "accepted", "rejected"} => before = base

\* Of accepted work every file that changed while Codex worked is reported.  Only of a
\* file that came after the first list, and that Codex deleted, nothing is known.
ChangesAreReported ==
    phase = "accepted" =>
        \A p \in Paths : start[p] # end[p] /\ (before[p] # Absent \/ end[p] # Absent) => p \in receipt.changed

\* Accepted work was checked: every check it reports was run and succeeded, and there is one.
AcceptedIsVerified ==
    phase = "accepted" =>
        /\ receipt.verified # {}
        /\ \A c \in receipt.verified : [command |-> c, succeeded |-> TRUE] \in ToSet(runs)

------------------------------------------------------------------------------
\* Where no file is deleted, what a file contains only grows in rank.
Rank(c) == IF c = Absent THEN 0 ELSE c + 1

\* A save brings what no manifest knows yet.
SavesAreNew ==
    \A p \in Paths : /\ ws[p] # Absent => ws[p] <= saves
                     /\ reading.seen[p] # Absent => reading.seen[p] <= saves
                     /\ before[p] # Absent => before[p] <= saves

\* The context is captured before the files are as in base, the other manifest after it.
BaseIsBetween ==
    /\ phase = "context" /\ reading.listed => \A p \in Paths : Rank(reading.seen[p]) <= Rank(ws[p])
    /\ phase = "before" => \A p \in Paths :
          /\ Rank(context[p]) <= Rank(base[p]) /\ Rank(base[p]) <= Rank(ws[p])
          /\ reading.listed /\ p \notin reading.left => Rank(base[p]) <= Rank(reading.seen[p])

\* What changed while Codex worked, as far as the manifests can know of it ...
ByCodex == {p \in Paths : start[p] # end[p] /\ (before[p] # Absent \/ end[p] # Absent)}

\* ... is never again what it was before, and is seen to be changed.
ChangesStay ==
    /\ phase \in {"spawn", "codex"} => ~reading.listed
    /\ phase = "codex" => \A p \in Paths :
          ws[p] = start[p] \/ ws[p] = Absent \/ (before[p] # Absent => before[p] < ws[p])
    /\ phase = "after" => \A p \in ByCodex :
          ws[p] # before[p] /\ (reading.listed /\ p \notin reading.left => reading.seen[p] # before[p])
    /\ phase \in {"artifacts", "read", "accepted", "rejected"} => ByCodex \subseteq Changed

\* The verdict is of a receipt, and a file that is read is there.
VerdictIsOfReceipt ==
    /\ phase \in {"after", "artifacts", "read", "accepted", "rejected"} => receipt \in Receipts
    /\ phase = "read" => reading.file \in Paths /\ ws[reading.file] # Absent
    /\ phase = "accepted" => ChangedFilesMatch /\ receipt.verified # {} /\ \A c \in receipt.verified : Succeeded(c)

\* What makes the verdict right while others save: inductive.
ReceiptIInv ==
    /\ ReceiptTypeOK /\ SavesAreNew /\ StartsFromContext /\ BaseIsBetween /\ ChangesStay
    /\ VerdictIsOfReceipt

\* The last run of a check that accepted work reports succeeded.
LastRunSucceeded ==
    phase = "accepted" =>
        \A i \in DOMAIN runs :
            runs[i].command \in receipt.verified /\ (\A j \in DOMAIN runs : runs[j].command = runs[i].command => j <= i)
                => runs[i].succeeded

\* The artifacts stay within their limit.
ArtifactsAreBounded == total <= MaxTotal
==============================================================================
