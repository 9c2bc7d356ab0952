------------------------------ MODULE NodeReview ------------------------------
(***************************************************************************)
(* One Codex node from the start of its turn to its checkpoint, with the   *)
(* review of its recorded evidence.  Reviewers are asked one after another *)
(* and only while what the plan pins and the folder are unchanged; what    *)
(* they answer is believed only as far as they quote the evidence.         *)
(*                                                                         *)
(* The user may change settings, agents or providers, disconnect a         *)
(* provider, save files or cancel at any moment; an answer may never come. *)
(***************************************************************************)
EXTENDS Naturals, Sequences, SequencesExt

CONSTANTS Reviewers,            \* the number of the pinned reviewers
          Criteria,             \* the number of the node's acceptance criteria
          Entries,              \* what a reviewer may say of one criterion
          MaxChanges, MaxEdits  \* bounds: changes of the configuration, edits of the folder

Statuses == {"supported", "contradicted", "insufficient_evidence"}

ReviewAssumption ==
    /\ Reviewers \in Nat /\ Criteria \in Nat \ {0} /\ {MaxChanges, MaxEdits} \subseteq Nat
    /\ Entries \subseteq [status : Statuses, recorded : BOOLEAN, quoted : Nat, invented : Nat]

VARIABLES
    config,     \* changes of the settings, the reviewers' nodes, agents and providers since the plan
    connected,  \* whether the review provider is
    edits,      \* of the folder by others
    stage, who, \* who: the reviewer
    result,     \* of the adapter: accepted, and whether there is evidence
    admitted,   \* the folder's edits in the checkpoint
    reviewed,   \* the edits in the review's manifest
    used,       \* per reviewer the configuration and the edits when it was asked
    answers,    \* per reviewer its answer
    controller, \* of the reviewer's call: may be aborted
    clock,      \* the time limit of that call
    signal      \* the execution is cancelled

reviewVars ==
    <<config, connected, edits, stage, who, result, admitted, reviewed, used, answers, controller, clock, signal>>
outside == <<config, connected, edits>>
call    == <<controller, clock>>
findings == <<reviewed, used, answers>>

Reviewing == {"check", "held", "ask", "stream", "recheck", "held again"}
Ended     == {"completed", "failed", "stopped"}

ReviewInit ==
    /\ config \in {0, 1} /\ connected \in BOOLEAN /\ edits \in {0, 1}
    /\ stage = "ready" /\ who = 1 /\ result = [accepted |-> FALSE, evidence |-> FALSE]
    /\ admitted = 0 /\ reviewed = 0 /\ used = <<>> /\ answers = <<>>
    /\ controller = "idle" /\ clock = "unset" /\ signal = FALSE

------------------------------------------------------------------------------
Reconfigure ==
    /\ config < MaxChanges /\ config' = config + 1
    /\ UNCHANGED <<connected, edits, stage, who, result, admitted, findings, call, signal>>

Disconnect ==
    /\ connected /\ connected' = FALSE
    /\ UNCHANGED <<config, edits, stage, who, result, admitted, findings, call, signal>>

Edit ==
    /\ edits < MaxEdits /\ edits' = edits + 1
    /\ UNCHANGED <<config, connected, stage, who, result, admitted, findings, call, signal>>

\* The execution's signal aborts the call that listens to it.
Cancel ==
    /\ ~signal /\ signal' = TRUE
    /\ controller' = IF controller = "open" THEN "cancelled" ELSE controller
    /\ UNCHANGED <<outside, stage, who, result, admitted, findings, clock>>

------------------------------------------------------------------------------
\* assertReviewCurrent: settings, skills, reviewers and their providers are what was pinned.
PinsHold == config = 0

\* The runner takes up the node; the checkpoint is compared with the folder.
TakesUp ==
    /\ stage = "ready" /\ stage' = IF PinsHold THEN "verify" ELSE "failed"
    /\ UNCHANGED <<outside, who, result, admitted, findings, call, signal>>

CheckpointHolds == edits = admitted

Verifies ==
    /\ stage = "verify" /\ stage' = IF CheckpointHolds THEN "context" ELSE "failed"
    /\ UNCHANGED <<outside, who, result, admitted, findings, call, signal>>

\* The manifest of the execution context, and the checkpoint once more.
CapturesContext ==
    /\ stage = "context"
    /\ stage' = IF ~CheckpointHolds THEN "failed"
                ELSE IF signal THEN "stopped"
                ELSE IF PinsHold THEN "work" ELSE "failed"
    /\ UNCHANGED <<outside, who, result, admitted, findings, call, signal>>

\* The adapter starts from the context's files (CodexReceipt) and says what Codex did.
\* A review begins with a manifest of its own, and only of accepted work with evidence.
Works ==
    /\ stage = "work"
    /\ \/ /\ edits = admitted
          /\ \E accepted \in BOOLEAN, evidence \in BOOLEAN :
                /\ result' = [accepted |-> accepted, evidence |-> evidence]
                /\ stage' = IF signal THEN "stopped" ELSE IF accepted THEN "manifest" ELSE "decide"
       \/ stage' = "failed" /\ UNCHANGED result
    /\ UNCHANGED <<outside, who, admitted, findings, call, signal>>

ReviewBegins ==
    /\ stage = "manifest" /\ reviewed' = edits
    /\ IF result.evidence /\ Reviewers > 0
       THEN /\ stage' = "check" /\ clock' = "armed"
            /\ controller' = IF signal THEN "cancelled" ELSE "open"
       ELSE stage' = "decide" /\ UNCHANGED call
    /\ UNCHANGED <<outside, who, result, admitted, used, answers, signal>>

------------------------------------------------------------------------------
\* Mutant: the time limit is not cleared.
BlockedWithClock == stage' = "decide" /\ controller' = "idle" /\ UNCHANGED clock

\* A reviewer's call ends badly: no further reviewer is asked.
Blocked == stage' = "decide" /\ controller' = "idle" /\ clock' = "unset"

\* The pins are compared at once, the folder's manifest after an await.
Checks ==
    /\ stage = "check"
    /\ IF PinsHold THEN stage' = "held" /\ UNCHANGED call ELSE Blocked
    /\ UNCHANGED <<outside, who, result, admitted, findings, signal>>

FolderHeld == edits = reviewed

\* providerOptions: the profile and the connection as they are now.
Asks ==
    /\ stage = "held"
    /\ IF FolderHeld /\ controller = "open" /\ connected
       THEN stage' = "stream" /\ used' = Append(used, [config |-> config, edits |-> edits]) /\ UNCHANGED call
       ELSE Blocked /\ UNCHANGED used
    /\ UNCHANGED <<outside, who, result, admitted, reviewed, answers, signal>>

\* An answer that is no JSON, or does not take up every criterion in order, is "invalid".
Answers ==
    /\ stage = "stream" /\ controller = "open"
    /\ \E answer \in [1..Criteria -> Entries] \cup {<<>>} : answers' = Append(answers, answer)
    /\ stage' = "recheck"
    /\ UNCHANGED <<outside, who, result, admitted, reviewed, used, call, signal>>

\* The provider fails, or more than the limit has come.
AnswerFails ==
    /\ stage = "stream" /\ Blocked
    /\ UNCHANGED <<outside, who, result, admitted, findings, signal>>

\* Mutant: only the stream is awaited, which may ignore that it was aborted.
AbortEndsNever == FALSE

\* The race with "cancelled": an aborted call is over, whether its stream ends or not.
AbortEnds == controller \in {"cancelled", "timeout"}

GivesUp ==
    /\ stage = "stream" /\ AbortEnds /\ Blocked
    /\ UNCHANGED <<outside, who, result, admitted, findings, signal>>

TimeIsUp ==
    /\ clock = "armed" /\ clock' = "fired"
    /\ controller' = IF controller = "open" THEN "timeout" ELSE controller
    /\ UNCHANGED <<outside, stage, who, result, admitted, findings, signal>>

\* Mutant: after the answer nothing is compared.
ChecksAgainNot == TRUE

ChecksAgain == controller = "open" /\ PinsHold

Rechecks ==
    /\ stage = "recheck"
    /\ IF ChecksAgain THEN stage' = "held again" /\ UNCHANGED call ELSE Blocked
    /\ UNCHANGED <<outside, who, result, admitted, findings, signal>>

\* Mutant: quotations that are not in the evidence are passed over.
SupportedBySome(entry) == entry.status = "supported" /\ entry.recorded /\ entry.quoted > 0

\* validateNodeReviewResult: support is what is recorded and quoted, without an invented quotation.
Supported(entry) == entry.status = "supported" /\ entry.recorded /\ entry.quoted > 0 /\ entry.invented = 0

Passes(answer) == Len(answer) = Criteria /\ \A i \in 1..Criteria : Supported(answer[i])

Validates ==
    /\ stage = "held again"
    /\ IF FolderHeld /\ controller = "open" /\ Passes(Last(answers)) /\ who < Reviewers
       THEN /\ stage' = "check" /\ who' = who + 1 /\ clock' = "armed"
            /\ controller' = IF signal THEN "cancelled" ELSE "open"
       ELSE /\ Blocked
            /\ who' = IF FolderHeld /\ controller = "open" /\ Passes(Last(answers)) THEN who + 1 ELSE who
    /\ UNCHANGED <<outside, result, admitted, findings, signal>>

------------------------------------------------------------------------------
\* Every reviewer has passed; a node without reviewers needs none.
ReviewPassed == who > Reviewers

Decides ==
    /\ stage = "decide"
    /\ stage' = IF signal THEN "stopped" ELSE IF result.accepted /\ ReviewPassed THEN "capture" ELSE "failed"
    /\ UNCHANGED <<outside, who, result, admitted, findings, call, signal>>

\* The new checkpoint is the folder as it is now; completeNode refuses a cancelled execution.
Completes ==
    /\ stage = "capture"
    /\ IF signal THEN stage' = "stopped" /\ UNCHANGED admitted
                 ELSE stage' = "completed" /\ admitted' = edits
    /\ UNCHANGED <<outside, who, result, findings, call, signal>>

ReviewNext ==
    \/ Reconfigure \/ Disconnect \/ Edit \/ Cancel
    \/ TakesUp \/ Verifies \/ CapturesContext \/ Works \/ ReviewBegins
    \/ Checks \/ Asks \/ Answers \/ AnswerFails \/ GivesUp \/ TimeIsUp \/ Rechecks \/ Validates
    \/ Decides \/ Completes

\* The engine's steps and its timers happen; nothing is assumed of the provider.
Fairness ==
    /\ WF_reviewVars(TakesUp) /\ WF_reviewVars(Verifies) /\ WF_reviewVars(CapturesContext)
    /\ WF_reviewVars(Works) /\ WF_reviewVars(ReviewBegins) /\ WF_reviewVars(Checks)
    /\ WF_reviewVars(Asks) /\ WF_reviewVars(GivesUp) /\ WF_reviewVars(TimeIsUp)
    /\ WF_reviewVars(Rechecks) /\ WF_reviewVars(Validates) /\ WF_reviewVars(Decides)
    /\ WF_reviewVars(Completes)

ReviewSpec == ReviewInit /\ [][ReviewNext]_reviewVars /\ Fairness

------------------------------------------------------------------------------
Flags == connected \in BOOLEAN /\ signal \in BOOLEAN /\ result \in [accepted : BOOLEAN, evidence : BOOLEAN]

\* The variables have their types; no time limit outlives its call.
ReviewTypeOK ==
    /\ Flags /\ config \in Nat /\ edits \in Nat
    /\ stage \in {"ready", "verify", "context", "work", "manifest", "decide", "capture"} \cup Reviewing \cup Ended
    /\ who \in 1..(Reviewers + 1) /\ admitted \in Nat /\ reviewed \in Nat
    /\ controller \in {"idle", "open", "cancelled", "timeout"} /\ clock \in {"unset", "armed", "fired"}
    /\ (clock = "armed" => stage \in Reviewing)

\* Work is completed only on reviews that were made under the plan's pins and of the
\* folder the evidence was taken from, although a provider is read after an await.
ReviewedUnderPins ==
    stage = "completed" => \A i \in DOMAIN used : used[i] = [config |-> 0, edits |-> reviewed]

\* Work is completed only when every reviewer has supported every criterion with
\* nothing but quotations of the recorded evidence.
EveryCriterionIsQuoted ==
    stage = "completed" =>
        /\ Len(answers) = Reviewers
        /\ \A r \in 1..Reviewers, i \in 1..Criteria :
              /\ i \in DOMAIN answers[r] /\ answers[r][i].status = "supported" /\ answers[r][i].recorded
              /\ answers[r][i].quoted > 0 /\ answers[r][i].invented = 0

\* Every reviewer that was asked saw the reviewed folder, under this configuration or an
\* earlier one ...
Asked ==
    /\ used \in Seq([config : Nat, edits : Nat])
    /\ \A i \in 1..Len(used) : used[i].config <= config /\ used[i].edits = reviewed

\* ... and under the plan's, as soon as the pins were compared again,
AskedUnderPins ==
    stage \in {"check", "held", "held again"} \/ ReviewPassed => \A i \in 1..Len(used) : used[i].config = 0

\* and whoever came before the one whose turn it is has passed the work.
PassedBefore ==
    /\ answers \in Seq([1..Criteria -> Entries] \cup {<<>>})
    /\ \A i \in 1..Len(answers) : i < who => Passes(answers[i])

\* Whose turn it is, and who has been asked and has answered.
Turns ==
    /\ Len(used) <= Reviewers /\ Len(answers) <= Len(used)
    /\ (stage \in {"ready", "verify", "context", "work", "manifest"} => who = 1 /\ used = <<>> /\ answers = <<>>)
    /\ (stage \in {"check", "held"} => Len(used) = who - 1 /\ Len(answers) = who - 1)
    /\ (stage = "stream" => Len(used) = who /\ Len(answers) = who - 1)
    /\ (stage \in {"recheck", "held again"} => Len(used) = who /\ Len(answers) = who)
    /\ (stage \in Reviewing => who <= Reviewers)
    /\ (stage \in {"capture", "completed"} => ReviewPassed)
    /\ (ReviewPassed => Len(answers) = Reviewers)

\* What keeps a review honest while its awaits let everything else happen: inductive.
ReviewIInv == ReviewTypeOK /\ Asked /\ AskedUnderPins /\ PassedBefore /\ Turns

\* A node's turn ends, whatever the providers answer and though they never do.
TurnEnds == <>(stage \in Ended)

\* An edit by another program never becomes part of an execution's checkpoint.
DriftStopsExecution == admitted = 0
==============================================================================
