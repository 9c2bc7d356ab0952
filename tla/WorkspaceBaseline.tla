--------------------------- MODULE WorkspaceBaseline ---------------------------
(***************************************************************************)
(* The baseline of a workspace: what a plan, and later its approval, hold  *)
(* the project's folder against.  A capture asks Git for one part after    *)
(* another and reads the untracked files itself, while the user and other  *)
(* programs work in the folder.  Planning captures twice, before and after *)
(* the provider's answer, and the approval captures once more.             *)
(*                                                                         *)
(* A part is its version: a change does not bring an earlier one back.     *)
(* The text of git status is left out, the other parts determine it.       *)
(***************************************************************************)
EXTENDS Naturals

CONSTANTS Edits,                \* sets of the parts that one command or save changes
          IsRepository,
          Unborn, NotRead,
          MaxEdits              \* bound of the changes

Tracked   == {"head", "index", "worktree"}
Untracked == {"names", "contents"}
Parts     == Tracked \cup Untracked

ASSUME BaselineAssumption ==
    /\ Edits \subseteq SUBSET Parts /\ IsRepository \in BOOLEAN /\ MaxEdits \in Nat
    /\ Unborn \notin Nat /\ NotRead \notin Nat

VARIABLES
    ws,         \* part -> its version
    edits,      \* how many there were
    phase,      \* of the plan
    capture,    \* the capture that runs: its kind, its step and what it has seen
    baseline,   \* the plan's: what the first capture saw
    at,         \* observers: the workspace at the end of the first capture
    asked,      \* ... when the approval was asked for
    failed      \* ... some command of Git did not answer

baselineVars == <<ws, edits, phase, capture, baseline, at, asked, failed>>

Unseen  == [p \in Parts |-> NotRead]
Begun   == [kind |-> "git", step |-> "inside", again |-> FALSE, seen |-> Unseen]

BaselineInit ==
    /\ ws = [p \in Parts |-> 0] /\ edits = 0
    /\ phase = "first" /\ capture = Begun
    /\ baseline = Unseen /\ at = ws /\ asked = ws /\ failed = FALSE

Capturing == phase \in {"first", "final", "approval"}

------------------------------------------------------------------------------
\* The user, a build or a Git command changes the folder.
Edit ==
    /\ edits < MaxEdits /\ edits' = edits + 1
    /\ \E e \in Edits : ws' = [p \in Parts |-> IF p \in e THEN ws[p] + 1 ELSE ws[p]]
    /\ UNCHANGED <<phase, capture, baseline, at, asked, failed>>

At(step) == Capturing /\ capture.step = step

Sees(p, v)  == [capture.seen EXCEPT ![p] = v]
Unread(ps)  == {p \in ps : capture.seen[p] = NotRead}

\* rev-parse --is-inside-work-tree.  Without an answer the folder counts as no repository.
Inside ==
    /\ At("inside")
    /\ \E answers \in BOOLEAN :
          /\ capture' = [capture EXCEPT !.step = "lists",
                                        !.kind = IF answers /\ IsRepository THEN "git" ELSE "files"]
          /\ failed' = (failed \/ ~answers)
    /\ UNCHANGED <<ws, edits, phase, baseline, at, asked>>

FirstReads == IF capture.kind = "git" THEN {"head", "names"} ELSE {"names"}

\* HEAD and the list of the untracked files, in the order they answer; of a folder
\* that is no repository the list of all its files.
Lists ==
    /\ At("lists")
    /\ \E p \in Unread(FirstReads) :
          capture' = [capture EXCEPT !.seen = Sees(p, ws[p]),
                                     !.step = IF Unread(FirstReads) = {p} THEN "stat" ELSE "lists"]
    /\ UNCHANGED <<ws, edits, phase, baseline, at, asked, failed>>

\* A repository whose HEAD does not answer counts as one without a commit.
HeadUnanswered ==
    /\ At("lists") /\ "head" \in Unread(FirstReads)
    /\ capture' = [capture EXCEPT !.seen = Sees("head", Unborn),
                                  !.step = IF Unread(FirstReads) = {"head"} THEN "stat" ELSE "lists"]
    /\ failed' = TRUE
    /\ UNCHANGED <<ws, edits, phase, baseline, at, asked>>

\* digestUntrackedFiles and captureWorkspaceFileManifest: the files' metadata, then their text
Stats ==
    /\ At("stat")
    /\ capture' = [capture EXCEPT !.seen = Sees("contents", ws["contents"]), !.step = "contents"]
    /\ UNCHANGED <<ws, edits, phase, baseline, at, asked, failed>>

\* Mutant: the error's code becomes the state.
RefusedByCode == "WORKSPACE_CHANGED_DURING_PLANNING"

\* The planner's captures end a plan, the approval's finds it stale.
PlanRefused == IF phase = "approval" THEN "stale" ELSE "refused"

\* Of an untracked file the metadata must be what it was; other files are only read.
ChangedMeanwhile == capture.kind = "git" /\ ws["contents"] # capture.seen["contents"]

Contents ==
    /\ At("contents")
    /\ IF ChangedMeanwhile
       THEN phase' = PlanRefused /\ UNCHANGED capture
       ELSE /\ capture' = [capture EXCEPT !.seen = Sees("contents", ws["contents"]),
                                          !.step = IF capture.kind = "git" THEN "diffs" ELSE "done"]
            /\ UNCHANGED phase
    /\ UNCHANGED <<ws, edits, baseline, at, asked, failed>>

\* The two diffs and the list once more, in the order they answer.
Left == Unread({"index", "worktree"}) \cup (IF capture.again THEN {} ELSE {"names"})

Advanced(p) == IF Left = {p} THEN "done" ELSE "diffs"

Diffs ==
    /\ At("diffs")
    /\ \E p \in Left \ {"names"} : capture' = [capture EXCEPT !.seen = Sees(p, ws[p]), !.step = Advanced(p)]
    /\ UNCHANGED <<ws, edits, phase, baseline, at, asked, failed>>

ListsAgain ==
    /\ At("diffs") /\ "names" \in Left
    /\ IF ws["names"] = capture.seen["names"]
       THEN capture' = [capture EXCEPT !.again = TRUE, !.step = Advanced("names")] /\ UNCHANGED phase
       ELSE phase' = PlanRefused /\ UNCHANGED capture
    /\ UNCHANGED <<ws, edits, baseline, at, asked, failed>>

\* A command that fails, is too slow or answers too much, or a file that cannot be read.
Fails ==
    /\ Capturing /\ capture.step \in {"lists", "contents", "diffs"}
    /\ phase' = PlanRefused /\ failed' = TRUE
    /\ UNCHANGED <<ws, edits, capture, baseline, at, asked>>

------------------------------------------------------------------------------
Captured == capture.seen

FirstEnds ==
    /\ phase = "first" /\ capture.step = "done"
    /\ phase' = "provider" /\ baseline' = Captured /\ at' = ws
    /\ UNCHANGED <<ws, edits, capture, asked, failed>>

\* The provider's proposal is compiled and validated
ProviderAnswers ==
    /\ phase = "provider" /\ phase' = "final" /\ capture' = Begun
    /\ UNCHANGED <<ws, edits, baseline, at, asked, failed>>

\* Mutant: only the lists are compared.
SameLists == baseline.head = Captured.head /\ baseline.names = Captured.names

\* Mutant: two objects are compared, not what they say.
SameObject == FALSE

\* JSON.stringify of both
Same == baseline = Captured

FinalEnds ==
    /\ phase = "final" /\ capture.step = "done"
    /\ phase' = IF Same THEN "planned" ELSE "refused"
    /\ UNCHANGED <<ws, edits, capture, baseline, at, asked, failed>>

\* ensurePlanContextFresh
AsksForApproval ==
    /\ phase = "planned" /\ phase' = "approval" /\ capture' = Begun /\ asked' = ws
    /\ UNCHANGED <<ws, edits, baseline, at, failed>>

ApprovalEnds ==
    /\ phase = "approval" /\ capture.step = "done"
    /\ phase' = IF Same THEN "approved" ELSE "stale"
    /\ UNCHANGED <<ws, edits, capture, baseline, at, asked, failed>>

BaselineNext ==
    \/ Edit \/ Inside \/ Lists \/ HeadUnanswered \/ Stats \/ Contents \/ Diffs \/ ListsAgain \/ Fails
    \/ FirstEnds \/ ProviderAnswers \/ FinalEnds \/ AsksForApproval \/ ApprovalEnds

BaselineSpec == BaselineInit /\ [][BaselineNext]_baselineVars

------------------------------------------------------------------------------
Seen == [Parts -> Nat \cup {NotRead, Unborn}]

\* The variables have their types.
BaselineTypeOK ==
    /\ ws \in [Parts -> Nat] /\ edits \in Nat /\ failed \in BOOLEAN
    /\ phase \in {"first", "provider", "final", "planned", "approval", "approved", "stale", "refused"}
    /\ capture \in [kind : {"git", "files"}, step : {"inside", "lists", "stat", "contents", "diffs", "done"},
                 again : BOOLEAN, seen : Seen]
    /\ baseline \in Seen /\ at \in [Parts -> Nat] /\ asked \in [Parts -> Nat]

Known(b) == {p \in Parts : b[p] \in Nat}

\* A plan's baseline is what the folder was at one moment, although its parts were
\* read one by one while others worked in it.
PlannedIsSnapshot ==
    phase \in {"planned", "approval", "approved"} => \A p \in Known(baseline) : baseline[p] = at[p]

\* What is approved was planned for the folder as it was when the approval was asked for.
ApprovedIsUnchanged ==
    phase = "approved" => \A p \in Known(baseline) : baseline[p] = asked[p]

\* A plan is refused, or stale, for a change or for a command that failed.
RefusedForAReason ==
    phase \in {"refused", "stale"} => edits > 0 \/ failed
==============================================================================
