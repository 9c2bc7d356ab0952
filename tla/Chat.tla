--------------------------------- MODULE Chat ---------------------------------
(***************************************************************************)
(* The conversations of one graph: posting a message, streaming its        *)
(* answer, stopping it, resuming an engineering harness, and applying the  *)
(* proposal an answer carries.                                             *)
(*                                                                         *)
(* A handler runs in turns between its awaits: reading the body, capturing *)
(* the context, streaming, and what follows the stream.  While it waits,   *)
(* other handlers save drafts, change evidence, settings and providers,    *)
(* start executions, stop this answer, or apply proposals; the server may  *)
(* crash and start again.  The end of a harness run, the proposal and the  *)
(* end of the message are commits of their own: the server may die between *)
(* them, and the last one may fail.  The write that tells of a failure is  *)
(* taken to succeed.  The text of answers and the validation of proposals  *)
(* are left out.                                                           *)
(***************************************************************************)
EXTENDS Naturals, FiniteSets, Sequences

CONSTANTS Conversations, Posts, Applies,   \* conversations; requests of the two kinds
          MaxDraft, MaxChanges             \* bounds of drafts and of what others change

ChatAssumption == MaxDraft \in Nat \ {0} /\ MaxChanges \in Nat /\ IsFiniteSet(Posts)

Nil == "none"
NilAssumption == Nil \notin Conversations \cup Posts \cup Applies

VARIABLES
    now,       \* what a context pins: draft, evidence, settings and provider revisions
    executing, \* the graph has an execution that is running or to pause
    running,   \* conversation -> the request that answers it
    post,      \* the message requests
    message,   \* request -> the assistant message it created
    run,       \* request -> the harness run of that message, its input pinned
    proposal,  \* request -> the proposal of that message
    apply,     \* the apply requests
    applied    \* the proposals in the order of the drafts they were saved as

vars == <<now, executing, running, post, message, run, proposal, apply, applied>>

Pins   == [draft : 1 .. MaxDraft, evidence : Nat, settings : Nat, provider : Nat]
Ended  == {"completed", "stopped", "failed"}
Resumable == {"interrupted", "stopped", "failed"}

\* An answer is under way while it streams, and until its message is told of the end:
\* the whole of it has arrived, or the harness run has ended without one.
UnderWay == {"streaming", "answered", "broken"}
Holding  == {"capturing"} \cup UnderWay

PostRow == [at : Holding \cup {"new", "reading", "over"},
            conversation : Conversations \cup {Nil}, of : Posts \cup {Nil},
            harness : BOOLEAN, pins : Pins, aborted : BOOLEAN]
Message == [status : Ended \cup {Nil, "running", "interrupted"},
            conversation : Conversations \cup {Nil}, order : Nat]
HarnessRun == [status : Resumable \cup {Nil, "running", "completed", "stale", "budget_exceeded"}, pins : Pins]
Proposal == [status : {Nil, "pending", "applied"}, base : Pins,
             whole : BOOLEAN]                \* history: saved when all of the answer had arrived
Apply == [at : {"new", "checking", "over"}, of : Posts \cup {Nil}, pins : Pins,
          answer : {Nil, "active", "stale", "applied"}]

TypeOK ==
    /\ now \in Pins /\ executing \in BOOLEAN
    /\ running \in [Conversations -> Posts \cup {Nil}] /\ post \in [Posts -> PostRow]
    /\ message \in [Posts -> Message] /\ run \in [Posts -> HarnessRun]
    /\ proposal \in [Posts -> Proposal] /\ apply \in [Applies -> Apply] /\ applied \in Seq(Posts)

NoPins == [draft |-> 1, evidence |-> 0, settings |-> 0, provider |-> 0]

Unused(at) == [at |-> at, conversation |-> Nil, of |-> Nil, harness |-> FALSE, pins |-> NoPins,
               aborted |-> FALSE]

Init ==
    /\ now = NoPins /\ executing = FALSE /\ applied = <<>>
    /\ running = [c \in Conversations |-> Nil]
    /\ post = [r \in Posts |-> Unused("new")]
    /\ message = [r \in Posts |-> [status |-> Nil, conversation |-> Nil, order |-> 0]]
    /\ run = [r \in Posts |-> [status |-> Nil, pins |-> NoPins]]
    /\ proposal = [r \in Posts |-> [status |-> Nil, base |-> NoPins, whole |-> FALSE]]
    /\ apply = [a \in Applies |-> [at |-> "new", of |-> Nil, pins |-> NoPins, answer |-> Nil]]

------------------------------------------------------------------------------
\* Other requests of the server.
Changes(field) ==
    /\ field = "draft" => now.draft < MaxDraft
    /\ (now.draft - 1 - Len(applied)) + now.evidence + now.settings + now.provider < MaxChanges
    /\ now' = [now EXCEPT ![field] = @ + 1]
    /\ UNCHANGED <<executing, running, post, message, run, proposal, apply, applied>>

ExecutionMoves ==
    /\ executing' = ~executing
    /\ UNCHANGED <<now, running, post, message, run, proposal, apply, applied>>

------------------------------------------------------------------------------
Idle(c) == running[c] = Nil

\* POST messages, up to the body.
Begins(r, c) ==
    /\ post[r].at = "new" /\ Idle(c)
    /\ post' = [post EXCEPT ![r].at = "reading", ![r].conversation = c]
    /\ UNCHANGED <<now, executing, running, message, run, proposal, apply, applied>>

Messages(c) == {m \in Posts : message[m].status # Nil /\ message[m].conversation = c}

\* The run of the last message of the conversation, if it may be resumed.
CanResume(m, c) ==
    /\ m \in Messages(c) /\ run[m].status \in Resumable
    /\ \A other \in Messages(c) : message[other].order <= message[m].order

\* Mutant: the conversation is looked up before the body is read only.
AcceptsUnchecked(r, m, harness) ==
    /\ post[r].at = "reading"
    /\ m = Nil \/ (harness /\ CanResume(m, post[r].conversation))
    /\ post' = [post EXCEPT ![r].at = "capturing", ![r].of = m, ![r].harness = harness, ![r].pins = now]
    /\ running' = [running EXCEPT ![post[r].conversation] = r]
    /\ UNCHANGED <<now, executing, message, run, proposal, apply, applied>>

\* The body is read: the conversation is taken, and the context captured up to the
\* skill scan, which is awaited.
Accepts(r, m, harness) ==
    /\ post[r].at = "reading" /\ Idle(post[r].conversation)
    /\ m = Nil \/ (harness /\ CanResume(m, post[r].conversation))
    /\ post' = [post EXCEPT ![r].at = "capturing", ![r].of = m, ![r].harness = harness, ![r].pins = now]
    /\ running' = [running EXCEPT ![post[r].conversation] = r]
    /\ UNCHANGED <<now, executing, message, run, proposal, apply, applied>>

\* CHAT_BUSY, and every refusal of a body.
Refuses(r) ==
    /\ post[r].at = "reading"
    /\ post' = [post EXCEPT ![r] = Unused("over")]
    /\ UNCHANGED <<now, executing, running, message, run, proposal, apply, applied>>

\* stop, close, the connection's end, and the time and size limits of a stream.
Aborts(r) ==
    /\ post[r].at \in Holding
    /\ post' = [post EXCEPT ![r].aborted = TRUE]
    /\ UNCHANGED <<now, executing, running, message, run, proposal, apply, applied>>

Release(r) == running' = [running EXCEPT ![post[r].conversation] = Nil]

\* assertRequestPins
RequestPinsHold(r) == post[r].pins.settings = now.settings /\ post[r].pins.provider = now.provider

\* A capture that fails, was stopped or is overtaken creates no message.
CaptureFails(r) ==
    /\ post[r].at = "capturing"
    /\ post' = [post EXCEPT ![r] = Unused("over")]
    /\ Release(r)
    /\ UNCHANGED <<now, executing, message, run, proposal, apply, applied>>

\* The context a resumed run would get is not the one it was started with.
ResumeIsStale(r) ==
    /\ post[r].at = "capturing" /\ post[r].of # Nil
    /\ ~post[r].aborted /\ RequestPinsHold(r)
    /\ post[r].pins # run[post[r].of].pins
    /\ run' = [run EXCEPT ![post[r].of].status = "stale"]
    /\ post' = [post EXCEPT ![r] = Unused("over")]
    /\ Release(r)
    /\ UNCHANGED <<now, executing, message, proposal, apply, applied>>

Answering(r) == IF post[r].of = Nil THEN r ELSE post[r].of

NextOrder == 1 + Cardinality({m \in Posts : message[m].status # Nil})

\* The messages and the run are stored in one transaction, and the stream begins;
\* or a prompt that is too long fails the new message.
Streams(r, fits) ==
    /\ post[r].at = "capturing"
    /\ ~post[r].aborted /\ RequestPinsHold(r)
    /\ post[r].of # Nil => post[r].pins = run[post[r].of].pins
    /\ fits \/ ~post[r].harness
    /\ LET m == Answering(r) IN
          /\ message' = [message EXCEPT ![m] =
                IF post[r].of # Nil THEN [message[m] EXCEPT !.status = "running"]
                ELSE [status |-> IF fits THEN "running" ELSE "failed",
                      conversation |-> post[r].conversation, order |-> NextOrder]]
          /\ run' = [run EXCEPT ![m] =
                IF post[r].harness THEN [status |-> "running", pins |-> post[r].pins] ELSE run[m]]
    /\ post' = [post EXCEPT ![r] = IF fits THEN [post[r] EXCEPT !.at = "streaming"] ELSE Unused("over")]
    /\ IF fits THEN UNCHANGED running ELSE Release(r)
    /\ UNCHANGED <<now, executing, proposal, apply, applied>>

\* assertPinsCurrent after a stage of the harness.
PinsHold(r) == RequestPinsHold(r) /\ post[r].pins.draft = now.draft

\* All of the answer has arrived; the run of a harness has completed with it.
AnswerArrives(r) ==
    /\ post[r].at = "streaming"
    /\ post[r].harness => ~post[r].aborted /\ PinsHold(r)
    /\ run' = [run EXCEPT ![Answering(r)].status = IF post[r].harness THEN "completed" ELSE @]
    /\ post' = [post EXCEPT ![r].at = "answered"]
    /\ UNCHANGED <<now, executing, running, message, proposal, apply, applied>>

RunFailures == {"stale", "budget_exceeded", "stopped", "failed"}

\* The run of a harness ends without an answer, before its message is told.
RunFails(r, status) ==
    /\ post[r].at = "streaming" /\ post[r].harness
    /\ status \in {"stopped", "failed"} => status = (IF post[r].aborted THEN "stopped" ELSE "failed")
    /\ run' = [run EXCEPT ![Answering(r)].status = status]
    /\ post' = [post EXCEPT ![r].at = "broken"]
    /\ UNCHANGED <<now, executing, running, message, proposal, apply, applied>>

\* Mutant: the pins are not looked at again after the stream.
CompletesUnderOldPins(r) == post[r].at = "answered" /\ ~post[r].aborted

\* The turn after the stream: the signal, and assertRequestPins.
MayComplete(r) == post[r].at = "answered" /\ ~post[r].aborted /\ RequestPinsHold(r)

\* saveProposal, which comes before the message is told.
Saves(r) ==
    proposal' = [proposal EXCEPT ![Answering(r)] =
        [status |-> "pending", base |-> post[r].pins, whole |-> post[r].at = "answered"]]

\* The request ends, and its message is told how.
Tells(r, status) ==
    /\ message' = [message EXCEPT ![Answering(r)].status = status]
    /\ post' = [post EXCEPT ![r] = Unused("over")]
    /\ Release(r)
    /\ UNCHANGED <<now, executing, run, apply, applied>>

Completes(r, proposes) ==
    /\ MayComplete(r)
    /\ IF proposes THEN Saves(r) ELSE UNCHANGED proposal
    /\ Tells(r, "completed")

\* The proposal is saved, and the write that completes the message fails.
CompletionUnsaved(r) == MayComplete(r) /\ Saves(r) /\ Tells(r, "failed")

FailureOf(r) == IF post[r].aborted THEN "stopped" ELSE "failed"

\* Mutant: what was streamed when the answer is stopped is looked at for a proposal.
StopsWithProposal(r) == post[r].at \in UnderWay /\ Saves(r) /\ Tells(r, FailureOf(r))

\* The provider or the harness fails, the answer was aborted, the pins moved, there is
\* no text, or the completed message cannot be written.
Fails(r) ==
    /\ post[r].at \in {"answered", "broken"} \/ (post[r].at = "streaming" /\ ~post[r].harness)
    /\ UNCHANGED proposal
    /\ Tells(r, FailureOf(r))

------------------------------------------------------------------------------
Answered(a, m, pins, at, answer) ==
    apply' = [apply EXCEPT ![a] = [at |-> at, of |-> m, pins |-> pins, answer |-> answer]]

\* Mutant: freshness is judged by what was read before the wait.
FreshWhenRead(a, m) == apply[a].at = "checking" \/ (now.draft = proposal[m].base.draft /\ now.evidence = proposal[m].base.evidence)

\* stale
Fresh(a, m) == now.draft = proposal[m].base.draft /\ now.evidence = proposal[m].base.evidence

ApplyRefused(a, m) ==
    /\ executing \/ ~Fresh(a, m)
    /\ Answered(a, m, NoPins, "over", IF executing THEN "active" ELSE "stale")
    /\ UNCHANGED <<now, executing, running, post, message, run, proposal, applied>>

\* The draft and the proposal are saved in one transaction.
Applied(a, m) ==
    /\ ~executing /\ Fresh(a, m) /\ now.draft < MaxDraft
    /\ now' = [now EXCEPT !.draft = @ + 1]
    /\ proposal' = [proposal EXCEPT ![m].status = "applied"]
    /\ applied' = Append(applied, m)
    /\ Answered(a, m, NoPins, "over", "applied")
    /\ UNCHANGED <<executing, running, post, message, run>>

Decides(a, m) == ApplyRefused(a, m) \/ Applied(a, m)

\* POST apply: a proposal that was applied is answered again.
AppliesAgain(a, m) ==
    /\ apply[a].at = "new" /\ proposal[m].status = "applied"
    /\ Answered(a, m, NoPins, "over", "applied")
    /\ UNCHANGED <<now, executing, running, post, message, run, proposal, applied>>

\* One of a harness waits until the input of the run has been assembled anew.
HarnessApplies(a, m) ==
    /\ apply[a].at = "new" /\ proposal[m].status = "pending" /\ run[m].status # Nil
    /\ IF run[m].status = "completed" THEN Answered(a, m, now, "checking", Nil)
                                      ELSE Answered(a, m, NoPins, "over", "stale")
    /\ UNCHANGED <<now, executing, running, post, message, run, proposal, applied>>

HarnessMoved(a, m) ==
    /\ apply[a].at = "checking" /\ apply[a].of = m /\ apply[a].pins # run[m].pins
    /\ run' = [run EXCEPT ![m].status = "stale"]
    /\ Answered(a, m, NoPins, "over", "stale")
    /\ UNCHANGED <<now, executing, running, post, message, proposal, applied>>

HarnessHeld(a, m) ==
    /\ apply[a].at = "checking" /\ apply[a].of = m /\ apply[a].pins = run[m].pins
    /\ Decides(a, m)

PlainApplies(a, m) ==
    /\ apply[a].at = "new" /\ proposal[m].status = "pending" /\ run[m].status = Nil
    /\ Decides(a, m)

------------------------------------------------------------------------------
Restarted(row) == IF row.status = "running" THEN [row EXCEPT !.status = "interrupted"] ELSE row

\* Mutant: only the harness runs are looked through at start.
StartsRunsUp ==
    /\ running' = [c \in Conversations |-> Nil]
    /\ run' = [r \in Posts |-> Restarted(run[r])]
    /\ post' = [r \in Posts |-> IF post[r].at = "new" THEN post[r] ELSE Unused("over")]
    /\ apply' = [a \in Applies |-> IF apply[a].at = "new" THEN apply[a] ELSE [apply[a] EXCEPT !.at = "over", !.pins = NoPins]]
    /\ UNCHANGED <<now, executing, message, applied>>

\* The requests are gone, and the constructors of ChatStore and HarnessStore run.
StartsUp ==
    /\ running' = [c \in Conversations |-> Nil]
    /\ message' = [r \in Posts |-> Restarted(message[r])]
    /\ run' = [r \in Posts |-> Restarted(run[r])]
    /\ post' = [r \in Posts |-> IF post[r].at = "new" THEN post[r] ELSE Unused("over")]
    /\ apply' = [a \in Applies |-> IF apply[a].at = "new" THEN apply[a] ELSE [apply[a] EXCEPT !.at = "over", !.pins = NoPins]]
    /\ UNCHANGED <<now, executing, applied>>

\* A crash or a stop between two turns.
Restarts == StartsUp /\ UNCHANGED proposal

\* A crash within a turn, after the proposal was saved and before the message is told.
DiesAfterProposal(r) == MayComplete(r) /\ Saves(r) /\ StartsUp

Settles(r) ==
    \/ CaptureFails(r) \/ AnswerArrives(r) \/ Fails(r)
    \/ \E status \in RunFailures : RunFails(r, status)

Next ==
    \/ \E field \in DOMAIN now : Changes(field)
    \/ ExecutionMoves \/ Restarts
    \/ \E r \in Posts :
          \/ \E c \in Conversations : Begins(r, c)
          \/ \E m \in Posts \cup {Nil}, harness \in BOOLEAN : Accepts(r, m, harness)
          \/ Refuses(r) \/ Aborts(r) \/ ResumeIsStale(r) \/ Settles(r)
          \/ \E fits \in BOOLEAN : Streams(r, fits)
          \/ \E proposes \in BOOLEAN : Completes(r, proposes)
          \/ CompletionUnsaved(r) \/ DiesAfterProposal(r)
    \/ \E a \in Applies :
          \E m \in Posts : \/ AppliesAgain(a, m) \/ HarnessApplies(a, m) \/ PlainApplies(a, m)
                           \/ HarnessMoved(a, m) \/ HarnessHeld(a, m)

\* A stream ends by itself or at its time limit; a capture ends.
Fairness == \A r \in Posts : WF_vars(Settles(r))

Spec == Init /\ [][Next]_vars /\ Fairness

------------------------------------------------------------------------------
\* Two requests that pass the busy check before their bodies arrive do not both
\* answer: a conversation has one answer under way, and a message or a run that is
\* under way has a request that ends it.
OneAnswer ==
    /\ \A r, s \in Posts :
          post[r].at \in Holding /\ post[s].at \in Holding
          /\ post[r].conversation = post[s].conversation => r = s
    /\ \A m \in Posts : message[m].status = "running" \/ run[m].status = "running" =>
          \E r \in Posts : post[r].at \in UnderWay /\ Answering(r) = m

\* "atomically appends a draft revision and records the applied proposal": however
\* apply requests overlap, a proposal is saved as one draft only.
SavedOnce == \A i, j \in DOMAIN applied : applied[i] = applied[j] => i = j

AppliedToItsBaseStep ==
    \A m \in Posts : (proposal[m].status = "pending" /\ proposal'[m].status = "applied") =>
       /\ now.draft = proposal[m].base.draft /\ now.evidence = proposal[m].base.evidence
       /\ ~executing

\* A proposal is written over the draft and the evidence it was made from, and never
\* under a running execution, although its check waits.
AppliedToItsBase == [][AppliedToItsBaseStep]_vars

\* "Partial output is not an accepted proposal": what is stored as a proposal is all of
\* an answer that was not stopped, and its message is not taken up again, also when the
\* server died or the write failed between the proposal and the end of the message.
NoPartialProposal ==
    \A m \in Posts : proposal[m].status # Nil =>
       proposal[m].whole /\ message[m].status \in {"completed", "failed", "interrupted"}

AcceptedUnderPinsStep ==
    \A r \in Posts : post[r].at \in UnderWay /\ message[Answering(r)].status = "running"
                      /\ (message'[Answering(r)].status = "completed" \/ proposal'[Answering(r)].status = "pending")
                         => RequestPinsHold(r)

\* An answer that is accepted, and a proposal that is kept, was made under the settings
\* and the provider that are in force when it is.
AcceptedUnderPins == [][AcceptedUnderPinsStep]_vars

\* Every answer under way comes to an end.
AnswersEnd == \A m \in Posts : (message[m].status = "running") ~> (message[m].status # "running")

\* "Repeated Apply is idempotent": an apply that ends when its proposal is applied
\* is not refused.
ApplyIsIdempotent ==
    [][\A a \in Applies : (apply[a].at = "checking" /\ apply'[a].answer = "stale") =>
          proposal[apply[a].of].status # "applied"]_vars

------------------------------------------------------------------------------
(***************************************************************************)
(* The inductive invariant behind the safety properties.                   *)
(***************************************************************************)

\* A request that was accepted holds its conversation until it ends, and a request
\* has no message before its stream begins.
HoldsItsConversation(r) ==
    /\ post[r].at \in Holding \cup {"reading"} => post[r].conversation \in Conversations
    /\ post[r].at \in Holding => running[post[r].conversation] = r
    /\ post[r].at \in {"new", "reading", "capturing"} =>
          message[r].status = Nil /\ run[r].status = Nil /\ proposal[r].status = Nil

\* What is resumed is a harness run of the conversation, and stays resumable while
\* the context is captured.
ResumesItsRun(r) ==
    /\ post[r].of # Nil => post[r].harness
    /\ post[r].at = "capturing" /\ post[r].of # Nil =>
          post[r].of \in Messages(post[r].conversation) /\ run[post[r].of].status \in Resumable

\* The run of a request under way.
RunAt(r) ==
    IF ~post[r].harness THEN {Nil}
    ELSE IF post[r].at = "streaming" THEN {"running"}
    ELSE IF post[r].at = "answered" THEN {"completed"} ELSE RunFailures

\* A request under way writes to a message of its conversation that is under way too,
\* and its run is as far as it is.
AnswersItsMessage(r) ==
    post[r].at \in UnderWay =>
       /\ message[Answering(r)].status = "running"
       /\ message[Answering(r)].conversation = post[r].conversation
       /\ run[Answering(r)].status \in RunAt(r)

\* The run of a message with a proposal is over for good, and a proposal that was
\* applied is not fresh again.
ProposalIsFinal(m) ==
    /\ proposal[m].status # Nil => run[m].status \in {Nil, "completed", "stale"}
    /\ proposal[m].status = "applied" => proposal[m].base.draft < now.draft

ChecksAProposal(a) ==
    apply[a].at = "checking" => apply[a].of \in Posts /\ proposal[apply[a].of].status # Nil

IInv ==
    /\ TypeOK /\ OneAnswer /\ NoPartialProposal /\ SavedOnce
    /\ \A r \in Posts : HoldsItsConversation(r) /\ ResumesItsRun(r) /\ AnswersItsMessage(r)
    /\ \A m \in Posts : ProposalIsFinal(m)
    /\ \A a \in Applies : ChecksAProposal(a)
    /\ \A i \in DOMAIN applied : proposal[applied[i]].status = "applied"
==============================================================================
