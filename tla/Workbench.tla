------------------------------ MODULE Workbench ------------------------------
(***************************************************************************)
(* One window of the workbench: the draft the user edits, the answers that *)
(* replace it, and the plans and runs that are asked for from it.          *)
(*                                                                         *)
(* A draft is the set of edits that are in it.  Three things may be under  *)
(* way at once and answer in any order: the command that holds `busy`, a   *)
(* chat that saves the draft before it reads it, and the application of a  *)
(* proposal.  All three write the same React state when they are answered. *)
(* Any request may fail before or after the server has done its part.      *)
(*                                                                         *)
(* The run's status is taken to be shown at once: EventStream is about the *)
(* way it travels.  Whether the planning settings have changed since the   *)
(* plan is left open, so a plan may be asked for whenever no run is active.*)
(***************************************************************************)
EXTENDS Naturals, Sequences, SequencesExt, FiniteSets

CONSTANTS Nodes,       \* the nodes of every plan
          Selections,  \* the selections the user makes of them
          MaxEdits,    \* bound of the edits, adopted and applied ones included
          MaxDrafts,   \* no save is asked for when so many drafts are stored
          MaxPlans,    \* no plan is asked for when so many exist
          ApprovesMeanwhile,   \* a plan is approved while another command is under way
          SendsMeanwhile       \* a chat message is sent while a proposal is applied

BoundAssumption == MaxEdits \in Nat /\ MaxDrafts \in Nat \ {0} /\ MaxPlans \in Nat
                   /\ Selections \subseteq SUBSET Nodes
                   /\ {ApprovesMeanwhile, SendsMeanwhile} \subseteq BOOLEAN

VARIABLES
    drafts,    \* graph_drafts: a revision is a position
    plans,     \* plan_versions: the draft they are made from and their status
    run,       \* the latest execution: status, plan, pending plan and selected nodes
    content, revision, dirty,   \* the graph shown, its draftRevision, "unsaved"
    undo, redo,
    edits,     \* edits made so far
    active,    \* activePlan and the status the window knows of it
    scope,     \* runScope
    asked,     \* the nodes the last start was asked for
    main,      \* the command under way
    approval,  \* the approval under way
    busy,      \* `busy` is set; the answers of both clear it
    saving,    \* a chat's save (draftSaving): the draft it sends
    locked,    \* chatDraftLocked
    adopt      \* the application of a proposal

server == <<drafts, plans, run>>
graph  == <<content, revision, dirty>>
vars   == <<drafts, plans, run, content, revision, dirty, undo, redo, edits, active, scope, asked,
            main, approval, busy, saving, locked, adopt>>

Idle     == [op |-> "none", at |-> "none", sent |-> {}, base |-> 0, value |-> 0, kept |-> FALSE]
NoSave   == [at |-> "none", sent |-> {}, value |-> 0, chat |-> FALSE]
NoAdopt  == [at |-> "none", kind |-> "none", sent |-> {}, value |-> 0, plan |-> 0]
NoApproval == [at |-> "none", plan |-> 0]
NoPlan   == [plan |-> 0, status |-> "none"]
Editing  == {"none", "paused", "completed"}   \* statuses that leave the editor open

TypeOK ==
    /\ drafts \in Seq(SUBSET (1 .. MaxEdits)) /\ drafts # <<>>
    /\ plans \in Seq([base : 1 .. Len(drafts), status : {"waiting", "approved", "superseded"}])
    /\ run.status \in Editing \cup {"running"} /\ run.plan \in 0 .. Len(plans)
    /\ run.pending \in 0 .. Len(plans) /\ run.scope \in SUBSET Nodes
    /\ content \in SUBSET (1 .. edits) /\ edits \in 0 .. MaxEdits
    /\ active.plan \in 0 .. Len(plans) /\ scope \in SUBSET Nodes /\ asked \in SUBSET Nodes
    /\ saving.at = "none" => saving = NoSave
    /\ main.op = "none" <=> main.at = "none"
    /\ approval.at = "none" <=> approval = NoApproval
    /\ busy => main.op # "none" \/ approval.at # "none"

Init ==
    /\ drafts = <<{}>> /\ plans = <<>>
    /\ run = [status |-> "none", plan |-> 0, pending |-> 0, scope |-> {}]
    /\ content = {} /\ revision = 1 /\ dirty = FALSE /\ undo = <<>> /\ redo = <<>> /\ edits = 0
    /\ active = NoPlan /\ scope = {} /\ asked = {}
    /\ main = Idle /\ approval = NoApproval /\ busy = FALSE /\ saving = NoSave /\ locked = FALSE /\ adopt = NoAdopt

-----------------------------------------------------------------------------
(* What the window lets the user do                                        *)

UiBusy  == busy \/ saving.at # "none" \/ locked
CanEdit == ~UiBusy /\ run.status \in Editing
Paused  == run.status = "paused"
Stale   == active.plan # 0 /\ plans[active.plan].base # revision

\* Mutant: an unsaved draft does not keep its plan from being run.
RunnableUnsaved == active.status = "approved" /\ ~Stale

Runnable == active.status = "approved" /\ ~dirty /\ ~Stale

\* getPrimaryAction
PrimaryAction ==
    CASE run.status = "running"                             -> "pause"
      [] Paused /\ active.plan # run.plan /\ Runnable       -> "continue"
      [] Paused                                             -> "plan"
      [] run.status # "running" /\ ~Paused /\ Runnable      -> "execute"
      [] OTHER                                              -> "plan"

Latest == Len(drafts)

-----------------------------------------------------------------------------
(* The user edits                                                          *)

\* Mutant: only the state of the run closes the editor.
MayEditWhileBusy == run.status \in Editing

MayEdit == CanEdit

EditsDraft ==
    /\ MayEdit /\ edits < MaxEdits
    /\ edits' = edits + 1 /\ content' = content \cup {edits + 1} /\ dirty' = TRUE
    /\ undo' = Append(undo, content) /\ redo' = <<>>
    /\ UNCHANGED <<server, revision, active, scope, asked, main, approval, busy, saving, locked, adopt>>

Undoes ==
    /\ CanEdit /\ undo # <<>>
    /\ content' = Last(undo) /\ undo' = Front(undo) /\ redo' = Append(redo, content)
    /\ dirty' = TRUE
    /\ UNCHANGED <<server, revision, edits, active, scope, asked, main, approval, busy, saving, locked, adopt>>

Redoes ==
    /\ CanEdit /\ redo # <<>>
    /\ content' = Last(redo) /\ redo' = Front(redo) /\ undo' = Append(undo, content)
    /\ dirty' = TRUE
    /\ UNCHANGED <<server, revision, edits, active, scope, asked, main, approval, busy, saving, locked, adopt>>

SetsScope(s) ==
    /\ CanEdit /\ scope # s /\ scope' = s
    /\ UNCHANGED <<server, graph, undo, redo, edits, active, asked, main, approval, busy, saving, locked, adopt>>

-----------------------------------------------------------------------------
(* The commands that hold `busy`                                           *)

Begins(op, at, sent, kept) ==
    /\ main.op = "none" /\ busy' = TRUE
    /\ main' = [Idle EXCEPT !.op = op, !.at = at, !.sent = sent, !.kept = kept, !.value = revision]
    /\ UNCHANGED <<server, graph, undo, redo, active, scope, approval, saving, locked, adopt>>

AsksSave ==
    /\ dirty /\ ~UiBusy /\ Latest < MaxDrafts
    /\ Begins("save", "save", content, FALSE) /\ UNCHANGED <<edits, asked>>

\* uploadSelectedNodeSources: the draft is saved before a file is uploaded.
Uploads ==
    /\ CanEdit /\ Latest < MaxDrafts
    /\ Begins("save", "save", content, FALSE) /\ UNCHANGED <<edits, asked>>

\* addNode with files: the node is shown when it has been saved.
AddsWithFiles ==
    /\ CanEdit /\ edits < MaxEdits /\ Latest < MaxDrafts
    /\ edits' = edits + 1 /\ undo' = Append(undo, content) /\ redo' = <<>>
    /\ main.op = "none" /\ busy' = TRUE
    /\ main' = [Idle EXCEPT !.op = "save", !.at = "save", !.sent = content \cup {edits + 1},
                            !.value = revision]
    /\ UNCHANGED <<server, graph, active, scope, asked, approval, saving, locked, adopt>>

\* requestPlan: a dirty draft is saved first, or goes with the replan.
AsksPlan ==
    /\ ~UiBusy /\ PrimaryAction # "pause" /\ Len(plans) < MaxPlans /\ Latest < MaxDrafts
    /\ IF Paused THEN Begins("replan", "ask", content, dirty)
       ELSE Begins("plan", IF dirty THEN "save" ELSE "ask", content, FALSE)
    /\ UNCHANGED <<edits, asked>>

\* refineProposalNode: the refinement is an edit of the draft that is sent.
Refines ==
    /\ CanEdit /\ active.plan # 0 /\ edits < MaxEdits
    /\ Len(plans) < MaxPlans /\ Latest < MaxDrafts
    /\ edits' = edits + 1
    /\ IF Paused THEN Begins("refine", "ask", content \cup {edits + 1}, TRUE)
       ELSE Begins("plan", "save", content \cup {edits + 1}, FALSE)
    /\ UNCHANGED asked

\* Not offered beside a successor that may be continued; a dirty draft is
\* first fetched as it is stored.
ResumesOriginal ==
    /\ Paused /\ ~UiBusy /\ PrimaryAction # "continue"
    /\ Begins("original", IF dirty THEN "fetch" ELSE "ask", content, dirty)
    /\ UNCHANGED <<edits, asked>>

\* The button looks at no other command; a plan that is made hides it.
Approves ==
    /\ active.plan # 0 /\ active.status = "waiting" /\ approval.at = "none"
    /\ main.op \notin {"plan", "replan", "refine"} /\ (main.op = "none" \/ ApprovesMeanwhile)
    /\ approval' = [at |-> "ask", plan |-> active.plan] /\ busy' = TRUE
    /\ UNCHANGED <<server, graph, undo, redo, edits, active, scope, asked, main, saving, locked, adopt>>

\* The primary action and the Run of a selection, which sets the scope.
Starts(s) ==
    /\ ~UiBusy /\ PrimaryAction \in {"execute", "continue"}
    /\ s = IF PrimaryAction = "continue" THEN run.scope ELSE IF scope = {} THEN Nodes ELSE scope
    /\ asked' = s
    /\ Begins("start", "ask", {}, Paused) /\ UNCHANGED edits

-----------------------------------------------------------------------------
(* The server                                                              *)

Answers(at, value) == main' = [main EXCEPT !.at = at, !.value = value]
ServerOnly == UNCHANGED <<graph, undo, redo, edits, active, scope, asked, approval, busy, saving,
                          locked, adopt>>

ServerSaves ==
    /\ main.at = "save"
    /\ drafts' = Append(drafts, main.sent) /\ Answers("saved", Latest + 1)
    /\ UNCHANGED <<plans, run>> /\ ServerOnly

\* The draft a plan is made from is read before the planner is called.
ServerReadsDraft ==
    /\ main.op \in {"plan", "replan", "refine"} /\ main.at = "ask"
    /\ main.op # "plan" => Paused
    /\ main' = [main EXCEPT !.at = "planning", !.base = Latest]
    /\ UNCHANGED server /\ ServerOnly

NewPlan(base) == [base |-> base, status |-> "waiting"]

ServerPlans ==
    /\ main.op = "plan" /\ main.at = "planning"
    /\ plans' = Append(plans, NewPlan(main.base)) /\ Answers("done", Len(plans) + 1)
    /\ UNCHANGED <<drafts, run>> /\ ServerOnly

Superseded(p) == [plans EXCEPT ![p].status = "superseded"]

\* supersedeAwaitingPlan
SupersededIfWaiting(p) ==
    IF p # 0 /\ plans[p].status = "waiting" THEN Superseded(p) ELSE plans

\* commitReplan: refused when the draft has moved; a draft that came with the
\* request is stored in the same transaction.
ServerReplans ==
    /\ main.op \in {"replan", "refine"} /\ main.at = "planning"
    /\ Paused /\ Latest = main.base
    /\ drafts' = IF main.kept THEN Append(drafts, main.sent) ELSE drafts
    /\ plans' = Append(SupersededIfWaiting(run.pending), NewPlan(Len(drafts')))
    /\ run' = [run EXCEPT !.pending = Len(plans')]
    /\ Answers("done", Len(plans')) /\ ServerOnly

ServerApproves ==
    /\ approval.at = "ask" /\ plans[approval.plan] = [base |-> Latest, status |-> "waiting"]
    /\ plans' = [plans EXCEPT ![approval.plan].status = "approved"]
    /\ approval' = [approval EXCEPT !.at = "done"]
    /\ UNCHANGED <<drafts, run, graph, undo, redo, edits, active, scope, asked, main, busy, saving,
                   locked, adopt>>

ApprovalFails ==
    /\ approval.at \in {"ask", "done"} /\ approval' = [approval EXCEPT !.at = "failed"]
    /\ UNCHANGED <<server, graph, undo, redo, edits, active, scope, asked, main, busy, saving,
                   locked, adopt>>

\* The request carries a plan, its digest and its provider; a run without a
\* selection is one of all the nodes.
ServerStarts ==
    /\ main.op = "start" /\ main.at = "ask" /\ ~main.kept
    /\ plans[active.plan].status = "approved" /\ plans[active.plan].base = Latest
    /\ run' = [status |-> "running", plan |-> active.plan, pending |-> 0, scope |-> Nodes]
    /\ Answers("done", 0) /\ UNCHANGED <<drafts, plans>> /\ ServerOnly

ServerContinues ==
    /\ main.op = "start" /\ main.at = "ask" /\ main.kept
    /\ Paused /\ run.pending # 0
    /\ plans[run.pending].status = "approved" /\ plans[run.pending].base = Latest
    /\ run' = [status |-> "running", plan |-> run.pending, pending |-> 0, scope |-> run.scope]
    /\ Answers("done", 0) /\ UNCHANGED <<drafts, plans>> /\ ServerOnly

ServerFetches ==
    /\ main.at = "fetch" /\ main' = [main EXCEPT !.at = "ask", !.sent = Last(drafts), !.value = Latest]
    /\ UNCHANGED server /\ ServerOnly

ServerResumes ==
    /\ main.op = "original" /\ main.at = "ask" /\ Paused
    /\ run' = [run EXCEPT !.status = "running", !.pending = 0]
    /\ plans' = IF run.pending # 0 THEN Superseded(run.pending) ELSE plans
    /\ Answers("done", main.value) /\ UNCHANGED drafts /\ ServerOnly

\* A refusal, a lost request or a lost answer.
RequestFails ==
    /\ main.at \notin {"none", "failed"}
    /\ Answers("failed", 0) /\ UNCHANGED server /\ ServerOnly

\* The run pauses, comes to its end, or is cancelled.
RunGoesOn ==
    /\ run.status \in {"running", "paused"}
    /\ \E s \in {"paused", "completed"} : s # run.status /\ run' = [run EXCEPT !.status = s]
    /\ UNCHANGED <<drafts, plans, main>> /\ ServerOnly

-----------------------------------------------------------------------------
(* The answers                                                             *)

Shows(c, r) == content' = c /\ revision' = r /\ dirty' = FALSE
AnswerOnly  == UNCHANGED <<server, undo, redo, edits, scope, asked, approval, saving, locked, adopt>>
Ends        == main' = Idle /\ busy' = FALSE

SaveAnswered ==
    /\ main.at = "saved"
    /\ Shows(main.sent, main.value)
    /\ IF main.op = "save" THEN Ends
       ELSE main' = [main EXCEPT !.at = "ask"] /\ UNCHANGED busy
    /\ UNCHANGED active /\ AnswerOnly

PlanAnswered ==
    /\ main.op = "plan" /\ main.at = "done"
    /\ active' = [plan |-> main.value, status |-> "waiting"]
    /\ Ends /\ UNCHANGED graph /\ AnswerOnly

\* requestPlan counts the revision itself; refineProposalNode takes the plan's.
ReplanAnswered ==
    /\ main.op \in {"replan", "refine"} /\ main.at = "done"
    /\ active' = [plan |-> main.value, status |-> "waiting"]
    /\ IF main.op = "refine" THEN Shows(main.sent, plans[main.value].base)
       ELSE IF main.kept THEN Shows(content, revision + 1)
       ELSE UNCHANGED graph
    /\ Ends /\ AnswerOnly

\* Mutant: a failed approval leaves `busy` set.
ApprovalAnsweredIfDone ==
    /\ approval.at \in {"done", "failed"} /\ approval' = NoApproval
    /\ busy' = (approval.at = "failed")
    /\ active' = IF approval.at = "done" THEN [plan |-> approval.plan, status |-> "approved"] ELSE active
    /\ UNCHANGED <<server, graph, undo, redo, edits, scope, asked, main, saving, locked, adopt>>

ApprovalAnswered ==
    /\ approval.at \in {"done", "failed"} /\ approval' = NoApproval /\ busy' = FALSE
    /\ active' = IF approval.at = "done" THEN [plan |-> approval.plan, status |-> "approved"] ELSE active
    /\ UNCHANGED <<server, graph, undo, redo, edits, scope, asked, main, saving, locked, adopt>>

StartAnswered ==
    /\ main.op = "start" /\ main.at = "done"
    /\ Ends /\ UNCHANGED <<graph, active>> /\ AnswerOnly

OriginalAnswered ==
    /\ main.op = "original" /\ main.at = "done"
    /\ Shows(main.sent, main.value)
    /\ active' = [plan |-> run.plan, status |-> "approved"]
    /\ Ends /\ AnswerOnly

FailureAnswered ==
    /\ main.at = "failed" /\ Ends /\ UNCHANGED <<graph, active>> /\ AnswerOnly

-----------------------------------------------------------------------------
(* A chat saves the draft before it reads it                               *)

\* persistCurrentDraftBeforeLeaving, from beginChat or from a message; a
\* message locks the draft before and unlocks it after.
ChatReads(sends) ==
    /\ saving.at = "none"
    /\ IF dirty
       THEN /\ Latest < MaxDrafts
            /\ saving' = [at |-> "save", sent |-> content, value |-> 0, chat |-> sends]
            /\ locked' = (locked \/ sends)
       ELSE /\ sends /\ locked' = FALSE /\ UNCHANGED saving
    /\ adopt.at # "none" => SendsMeanwhile
    /\ UNCHANGED <<server, graph, undo, redo, edits, active, scope, asked, main, approval, busy, adopt>>

ServerSavesForChat ==
    /\ saving.at = "save"
    /\ drafts' = Append(drafts, saving.sent)
    /\ saving' = [saving EXCEPT !.at = "saved", !.value = Latest + 1]
    /\ UNCHANGED <<plans, run, graph, undo, redo, edits, active, scope, asked, main, approval, busy, locked, adopt>>

ChatSaveFails ==
    /\ saving.at \in {"save", "saved"} /\ saving' = [saving EXCEPT !.at = "failed"]
    /\ UNCHANGED <<server, graph, undo, redo, edits, active, scope, asked, main, approval, busy, locked, adopt>>

\* Mutant: the draft counts as saved when the chat goes on, stored or not.
ChatSaveAssumed ==
    /\ saving.at \in {"saved", "failed"}
    /\ content' = saving.sent /\ dirty' = FALSE /\ UNCHANGED revision
    /\ locked' = IF saving.chat THEN FALSE ELSE locked
    /\ saving' = NoSave
    /\ UNCHANGED <<server, undo, redo, edits, active, scope, asked, main, approval, busy, adopt>>

ChatSaveAnswered ==
    /\ saving.at \in {"saved", "failed"}
    /\ IF saving.at = "saved" THEN Shows(saving.sent, saving.value) ELSE UNCHANGED graph
    /\ locked' = IF saving.chat THEN FALSE ELSE locked
    /\ saving' = NoSave
    /\ UNCHANGED <<server, undo, redo, edits, active, scope, asked, main, approval, busy, adopt>>

-----------------------------------------------------------------------------
(* Suggested nodes are adopted, or a chat's proposal is applied            *)

MayAdopt(kind) ==
    /\ CanEdit /\ ~dirty
    /\ kind = "suggested" => active.plan # 0 /\ active.status # "superseded" /\ ~Stale

Adopts(kind) ==
    /\ adopt.at = "none" /\ MayAdopt(kind) /\ edits < MaxEdits /\ Latest < MaxDrafts
    /\ edits' = edits + 1
    /\ adopt' = [at |-> "ask", kind |-> kind, sent |-> {edits + 1}, value |-> revision,
                 plan |-> active.plan]
    /\ locked' = TRUE
    /\ UNCHANGED <<server, graph, undo, redo, active, scope, asked, main, approval, busy, saving>>

\* Both are refused when the draft is no longer the one they were made from,
\* the suggestions also while a run is paused.
ServerAdopts ==
    /\ adopt.at = "ask" /\ adopt.value = Latest /\ run.status # "running"
    /\ adopt.kind = "suggested" =>
          /\ ~Paused /\ plans[adopt.plan].status # "superseded"
          /\ plans[adopt.plan].base = Latest
    /\ drafts' = Append(drafts, Last(drafts) \cup adopt.sent)
    /\ plans' = IF adopt.kind = "suggested" THEN Superseded(adopt.plan) ELSE plans
    /\ adopt' = [adopt EXCEPT !.at = "refresh"]
    /\ UNCHANGED <<run, graph, undo, redo, edits, active, scope, asked, main, approval, busy, saving, locked>>

AdoptionFails ==
    /\ adopt.at \in {"ask", "refresh"} /\ adopt' = [adopt EXCEPT !.at = "failed"]
    /\ UNCHANGED <<server, graph, undo, redo, edits, active, scope, asked, main, approval, busy, saving, locked>>

\* refreshAppliedGraph fetches the graph and shows it.
ServerRefreshes ==
    /\ adopt.at = "refresh"
    /\ adopt' = [adopt EXCEPT !.at = "fetched", !.sent = Last(drafts), !.value = Latest]
    /\ UNCHANGED <<server, graph, undo, redo, edits, active, scope, asked, main, approval, busy, saving, locked>>

AdoptionAnswered ==
    /\ adopt.at \in {"fetched", "failed"}
    /\ IF adopt.at = "fetched"
       THEN /\ Shows(adopt.sent, adopt.value) /\ undo' = <<>> /\ redo' = <<>>
            /\ active' = IF adopt.kind = "suggested" THEN NoPlan ELSE active
       ELSE UNCHANGED <<graph, undo, redo, active>>
    /\ locked' = FALSE /\ adopt' = NoAdopt
    /\ UNCHANGED <<server, edits, scope, asked, main, approval, busy, saving>>

-----------------------------------------------------------------------------
Server ==
    \/ ServerSaves \/ ServerReadsDraft \/ ServerPlans \/ ServerReplans
    \/ ServerStarts \/ ServerContinues \/ ServerFetches \/ ServerResumes \/ RequestFails

Answered ==
    \/ SaveAnswered \/ PlanAnswered \/ ReplanAnswered \/ StartAnswered
    \/ OriginalAnswered \/ FailureAnswered

Approval == ServerApproves \/ ApprovalFails \/ ApprovalAnswered

Chat == ServerSavesForChat \/ ChatSaveFails \/ ChatSaveAnswered

Adoption == ServerAdopts \/ AdoptionFails \/ ServerRefreshes \/ AdoptionAnswered

User ==
    \/ EditsDraft \/ Undoes \/ Redoes \/ AsksSave \/ Uploads \/ AddsWithFiles
    \/ AsksPlan \/ Refines \/ ResumesOriginal \/ Approves
    \/ \E s \in Selections : SetsScope(s)
    \/ \E s \in SUBSET Nodes : Starts(s)
    \/ \E sends \in BOOLEAN : ChatReads(sends)
    \/ \E kind \in {"suggested", "chat"} : Adopts(kind)

Next == User \/ Server \/ Answered \/ Approval \/ Chat \/ Adoption \/ RunGoesOn

Spec == Init /\ [][Next]_vars

\* Requests are answered or fail, and promises run their continuations.
LiveSpec ==
    /\ Spec /\ WF_vars(Server) /\ WF_vars(Answered) /\ WF_vars(Approval)
    /\ WF_vars(Chat) /\ WF_vars(Adoption)
-----------------------------------------------------------------------------
(* Safety                                                                  *)

\* "Draft is saved": what is shown without the mark of unsaved changes is a
\* draft the server has stored, whatever was answered last.
SavedIsStored == ~dirty => \E i \in DOMAIN drafts : drafts[i] = content

\* What is run is what is shown: a plan that may be run was made from the draft
\* on the screen, although the revision is counted on both sides.
RunnableIsShown ==
    PrimaryAction \in {"execute", "continue"} => drafts[plans[active.plan].base] = content

StartsAsShownStep ==
    run'.plan # run.plan =>
       /\ run'.plan = active.plan /\ ~dirty
       /\ drafts[plans[run'.plan].base] = content

\* A run that starts, or a successor that takes over, executes the plan the
\* window shows, made from the draft it shows, and nothing is unsaved.
StartsAsShown == [][StartsAsShownStep]_vars

UnsavedEditsSurviveStep ==
    (dirty /\ ~(content \subseteq content')) =>
       \/ Len(redo') > Len(redo) \/ Len(undo') > Len(undo)
       \/ main.op = "original"
       \/ \E d \in Range(drafts) : content \subseteq d

\* An edit that is not yet stored leaves the screen only by Undo, or with the
\* resumption of the original plan; no answer replaces it.
UnsavedEditsSurvive == [][UnsavedEditsSurviveStep]_vars

\* "Run selection": the nodes a run is asked for are the nodes it runs.
SelectionIsRun == run.status = "running" => run.scope = asked

-----------------------------------------------------------------------------
(* Liveness                                                                *)

\* The editor is not left locked by commands, chats and proposals that end.
UnlocksAgain ==
    /\ busy ~> ~busy
    /\ saving.at # "none" ~> saving.at = "none"
    /\ locked ~> ~locked
=============================================================================
