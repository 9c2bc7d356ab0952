---------------------------- MODULE HarnessRunner ----------------------------
(***************************************************************************)
(* Engineering harness runs: the stages brief, review and compose, their   *)
(* shared token budget, checkpoints and cache.                             *)
(*                                                                         *)
(* The runs are of one graph and have the same pinned input, so their      *)
(* stages may share cached results.  A stage reads the run and the cache,  *)
(* waits for the pins, streams, waits for the pins again and is            *)
(* checkpointed.  Tokens are small numbers; an output is its value and its *)
(* estimated size, and value 0 stands for one that does not validate.      *)
(***************************************************************************)
EXTENDS Integers, Sequences, SequencesExt

CONSTANTS Runs,
          Budget,        \* config.tokenBudget
          InputTokens,   \* the estimate of a stage's messages
          Least,         \* the least room a stage is started with
          Room,          \* stage -> the most tokens it may answer with
          Values,        \* values of valid outputs
          MaxReported,   \* bound of the tokens a provider reports for one stage
          CacheSize,     \* cached stages kept for a graph
          MaxAttempts    \* bound of the attempts of a run

Stages == <<"brief", "review", "compose">>

HarnessAssumption ==
    /\ {Budget, InputTokens, Least, MaxReported, CacheSize, MaxAttempts} \subseteq Nat
    /\ Room \in [Range(Stages) -> Nat] /\ 0 \notin Values

VARIABLES
    row,    \* the rows of engineering_harness_runs
    work,   \* the runner of a run, between its awaits
    cache,  \* engineering_harness_cache, oldest first
    moved,  \* the pinned input is not what it was
    spent,  \* run -> tokens its ended attempts sent and received, by estimate
    made    \* the outputs providers have given, with the handoffs they were made from

harnessVars == <<row, work, cache, moved, spent, made>>

Max2(a, b) == IF a > b THEN a ELSE b
Min2(a, b) == IF a < b THEN a ELSE b

Finished == {"completed", "stale", "budget_exceeded", "stopped", "failed"}
Resting  == [at |-> "rest", used |-> 0, cached |-> 0, raw |-> 0, value |-> 0, reported |-> 0]

Row  == [status : Finished \cup {"new", "running", "interrupted"}, handoffs : Seq(Values),
         estimated : Nat, reported : Nat, attempts : Nat]
Work == [at : {"rest", "between", "pins", "streaming", "accepting"}, used : Nat,
         cached : Values \cup {0}, raw : Nat, value : Values \cup {0}, reported : Nat]
Entry == [key : Range(Stages) \X Seq(Values), value : Values]

RunnerOfRow(r) ==
    /\ Len(row[r].handoffs) <= Len(Stages)
    /\ work[r].at # "rest" <=> row[r].status = "running"
    /\ work[r].at \in {"pins", "streaming", "accepting"} => Len(row[r].handoffs) < Len(Stages)

HarnessTypeOK ==
    /\ row \in [Runs -> Row] /\ work \in [Runs -> Work] /\ \A r \in Runs : RunnerOfRow(r)
    /\ cache \in Seq(Entry) /\ Len(cache) <= CacheSize
    /\ moved \in BOOLEAN /\ spent \in [Runs -> Nat]

HarnessInit ==
    /\ row = [r \in Runs |-> [status |-> "new", handoffs |-> <<>>, estimated |-> 0, reported |-> 0, attempts |-> 0]]
    /\ work = [r \in Runs |-> Resting]
    /\ cache = <<>> /\ moved = FALSE /\ spent = [r \in Runs |-> 0] /\ made = {}

Stage(r) == Stages[Len(row[r].handoffs) + 1]

\* Mutant: only what was estimated counts.
UsedByEstimate(r) == row[r].estimated

Used(r) == Max2(row[r].estimated, row[r].reported)

\* Mutant: a stage is cached whatever its prior handoffs are.
KeyOfStage(r) == <<Stage(r)>>

\* The digest of the input, the stage and its messages, which hold the handoffs.
Key(r) == <<Stage(r), row[r].handoffs>>

\* The row of a key, which is the primary key of the table.
RowsOf(key) == {i \in DOMAIN cache : cache[i].key = key}

Cached(r) == IF RowsOf(Key(r)) = {} THEN 0 ELSE cache[CHOOSE i \in RowsOf(Key(r)) : TRUE].value

\* What is known of an output: the stage and the handoffs it was made from.
Output(r, value) == [stage |-> Stage(r), handoffs |-> row[r].handoffs, value |-> value]

OutputLimit(r) == Min2(Room[Stage(r)], Budget - work[r].used - InputTokens)

------------------------------------------------------------------------------
PinsMove == moved' = TRUE /\ moved = FALSE /\ UNCHANGED <<row, work, cache, spent, made>>

\* runEngineeringHarness, for a new run or one that may be resumed.
Invokes(r) ==
    /\ row[r].status \in {"new", "interrupted", "stopped", "failed"} /\ ~moved
    /\ row[r].attempts < MaxAttempts
    /\ row' = [row EXCEPT ![r] = [row[r] EXCEPT !.status = "running", !.attempts = @ + 1]]
    /\ work' = [work EXCEPT ![r].at = "between"]
    /\ UNCHANGED <<cache, moved, spent, made>>

\* The next stage reads the run and the cache, and waits for the pins.
StageBegins(r) ==
    /\ work[r].at = "between" /\ Len(row[r].handoffs) < Len(Stages)
    /\ work' = [work EXCEPT ![r] = [Resting EXCEPT !.at = "pins", !.used = Used(r), !.cached = Cached(r)]]
    /\ UNCHANGED <<row, cache, moved, spent, made>>

Ends(r, status) ==
    /\ row' = [row EXCEPT ![r].status = status]
    /\ work' = [work EXCEPT ![r] = Resting]

AllStagesDone(r) ==
    /\ work[r].at = "between" /\ Len(row[r].handoffs) = Len(Stages)
    /\ Ends(r, "completed")
    /\ UNCHANGED <<cache, moved, spent, made>>

\* What ends a stage before it was invoked, or a run between stages.
EndsBeforeCall(r) ==
    /\ \/ work[r].at \in {"pins", "accepting"} /\ moved /\ Ends(r, "stale")
       \/ work[r].at = "pins" /\ work[r].cached = 0 /\ OutputLimit(r) < Least /\ Ends(r, "budget_exceeded")
       \/ work[r].at \in {"between", "pins", "accepting"} /\ \E status \in {"stopped", "failed"} : Ends(r, status)
    /\ work[r].at = "accepting" => work[r].cached # 0
    /\ UNCHANGED <<cache, moved, spent, made>>

PinsHeld(r) ==
    /\ work[r].at = "pins" /\ ~moved
    /\ work[r].cached # 0 \/ OutputLimit(r) >= Least
    /\ work' = [work EXCEPT ![r].at = IF work[r].cached # 0 THEN "accepting" ELSE "streaming"]
    /\ UNCHANGED <<row, cache, moved, spent, made>>

\* A delta that keeps within the limit.
Delta(r) ==
    /\ work[r].at = "streaming" /\ work[r].raw < OutputLimit(r)
    /\ work' = [work EXCEPT ![r].raw = @ + 1]
    /\ UNCHANGED <<row, cache, moved, spent, made>>

ReportsUsage(r) ==
    /\ work[r].at = "streaming" /\ work[r].reported < MaxReported
    /\ work' = [work EXCEPT ![r].reported = @ + 1]
    /\ UNCHANGED <<row, cache, moved, spent, made>>

\* Mutant: the output is not looked at before it is taken.
StreamIsTaken(r, value) ==
    /\ work[r].at = "streaming" /\ value \in Values \cup {-1}
    /\ work' = [work EXCEPT ![r].at = "accepting", ![r].value = value]
    /\ made' = made \cup {Output(r, value)}
    /\ UNCHANGED <<row, cache, moved, spent>>

\* The stream ends with an output that validates, within what is left.
StreamValidates(r, value) ==
    /\ work[r].at = "streaming" /\ value \in Values
    /\ work[r].reported <= Budget - work[r].used
    /\ work' = [work EXCEPT ![r].at = "accepting", ![r].value = value]
    /\ made' = made \cup {Output(r, value)}
    /\ UNCHANGED <<row, cache, moved, spent>>

\* Mutant: an attempt that fails is not counted.
AttemptForgotten(r, over, status) ==
    /\ Ends(r, status)
    /\ spent' = [spent EXCEPT ![r] = @ + InputTokens + work[r].raw + over]

\* The usage of an attempt that was sent to the provider is recorded first.
AttemptFails(r, over, status) ==
    /\ row' = [row EXCEPT ![r] = [row[r] EXCEPT !.status = status,
                                                !.estimated = @ + InputTokens + work[r].raw + over,
                                                !.reported = @ + work[r].reported]]
    /\ work' = [work EXCEPT ![r] = Resting]
    /\ spent' = [spent EXCEPT ![r] = @ + InputTokens + work[r].raw + over]

CallFails(r) ==
    /\ \/ work[r].at = "streaming" /\ \E status \in {"stopped", "failed"} : AttemptFails(r, 0, status)
       \/ work[r].at = "streaming" /\ work[r].raw = OutputLimit(r) /\ AttemptFails(r, 1, "budget_exceeded")
       \/ work[r].at = "streaming" /\ work[r].reported > Budget - work[r].used
          /\ AttemptFails(r, 0, "budget_exceeded")
       \/ work[r].at = "accepting" /\ work[r].cached = 0
          /\ \E status \in {"stopped", "failed"} \cup (IF moved THEN {"stale"} ELSE {}) : AttemptFails(r, 0, status)
    /\ UNCHANGED <<cache, moved, made>>

------------------------------------------------------------------------------
\* The row of the key is written over, as the newest.
Others(key) == IF RowsOf(key) = {} THEN cache ELSE RemoveAt(cache, CHOOSE i \in RowsOf(key) : TRUE)

Kept(entries) == IF Len(entries) > CacheSize THEN Tail(entries) ELSE entries

\* checkpoint: the cache and the run in one transaction.
Checkpoints(r) ==
    /\ work[r].at = "accepting" /\ ~moved
    /\ LET cached == work[r].cached # 0
           value == IF cached THEN work[r].cached ELSE work[r].value
           tokens == IF cached THEN 0 ELSE InputTokens + work[r].raw
       IN /\ row' = [row EXCEPT ![r] = [row[r] EXCEPT !.handoffs = Append(@, value),
                                                      !.estimated = @ + tokens,
                                                      !.reported = @ + work[r].reported]]
          /\ cache' = IF cached THEN cache
                      ELSE Kept(Append(Others(Key(r)), [key |-> Key(r), value |-> value]))
          /\ spent' = [spent EXCEPT ![r] = @ + tokens]
    /\ work' = [work EXCEPT ![r] = [Resting EXCEPT !.at = "between"]]
    /\ UNCHANGED <<moved, made>>

\* Mutant: a run that was under way begins anew.
RestartsAnew ==
    /\ row' = [r \in Runs |-> IF row[r].status = "running"
                               THEN [row[r] EXCEPT !.status = "interrupted", !.handoffs = <<>>] ELSE row[r]]
    /\ work' = [r \in Runs |-> Resting]
    /\ UNCHANGED <<cache, moved, spent, made>>

\* Mutant: the rows are not looked through at start.
RestartsUnseen ==
    /\ work' = [r \in Runs |-> Resting]
    /\ UNCHANGED <<row, cache, moved, spent, made>>

\* A crash and HarnessStore's constructor; what was on its way is not recorded.
HarnessRestarts ==
    /\ \E r \in Runs : row[r].status = "running"
    /\ row' = [r \in Runs |-> IF row[r].status = "running" THEN [row[r] EXCEPT !.status = "interrupted"] ELSE row[r]]
    /\ work' = [r \in Runs |-> Resting]
    /\ UNCHANGED <<cache, moved, spent, made>>

Steps(r) == StageBegins(r) \/ AllStagesDone(r) \/ EndsBeforeCall(r) \/ PinsHeld(r) \/ CallFails(r) \/ Checkpoints(r)

HarnessNext ==
    \/ PinsMove \/ HarnessRestarts
    \/ \E r \in Runs : \/ Invokes(r) \/ Steps(r) \/ Delta(r) \/ ReportsUsage(r)
                       \/ \E value \in Values \cup {-1} : StreamValidates(r, value)

\* A stage ends within its time limit.
HarnessFairness == \A r \in Runs : WF_harnessVars(Steps(r))

HarnessSpec == HarnessInit /\ [][HarnessNext]_harnessVars /\ HarnessFairness

------------------------------------------------------------------------------
AcceptedWithinBudgetStep ==
    \A r \in Runs : (work[r].at = "accepting" /\ work[r].cached = 0 /\ row'[r].handoffs # row[r].handoffs) =>
       /\ row'[r].estimated <= Budget /\ row'[r].reported <= Budget

\* Whatever failed or was resumed before, a stage that was sent to a provider is
\* accepted only if the run is still within its budget, by estimate and by report.
AcceptedWithinBudget == [][AcceptedWithinBudgetStep]_harnessVars

\* "Its observed or estimated usage remains recorded": what ended attempts sent and
\* received is in the run's usage, however they ended.
UsageIsRecorded == \A r \in Runs : row[r].estimated = spent[r]

\* "Chat checkpoints persist only validated complete stage results", each made from
\* the handoffs before it, also when two runs share the cache.
HandoffsFollow ==
    \A r \in Runs : \A i \in DOMAIN row[r].handoffs :
        [stage |-> Stages[i], handoffs |-> SubSeq(row[r].handoffs, 1, i - 1), value |-> row[r].handoffs[i]] \in made

HandoffsStayStep == \A r \in Runs : IsPrefix(row[r].handoffs, row'[r].handoffs)

\* A checkpoint outlives every failure, stop, crash and resume.
HandoffsStay == [][HandoffsStayStep]_harnessVars

\* A run under way ends.
RunsEnd == \A r \in Runs : (row[r].status = "running") ~> (row[r].status # "running")

------------------------------------------------------------------------------
(***************************************************************************)
(* The inductive invariant behind the safety properties.                   *)
(***************************************************************************)

\* While a stage is under way the run's usage is what the stage read, and what it
\* sends and receives stays within what that left of the budget.
StageWithinBudget(r) ==
    /\ work[r].at \in {"pins", "streaming", "accepting"} => work[r].used = Used(r)
    /\ work[r].at = "pins" => work[r].raw = 0
    /\ work[r].at = "streaming" => work[r].cached = 0
    /\ work[r].at \in {"streaming", "accepting"} /\ work[r].cached = 0 =>
          work[r].raw <= OutputLimit(r)
    /\ work[r].at = "accepting" /\ work[r].cached = 0 => work[r].reported <= Budget - work[r].used

\* What a stage is about to accept was made from the handoffs the run has now.
StageIsMade(r) ==
    /\ work[r].at = "accepting" /\ work[r].cached = 0 =>
          work[r].value \in Values /\ Output(r, work[r].value) \in made
    /\ work[r].at \in {"pins", "accepting"} /\ work[r].cached # 0 =>
          Output(r, work[r].cached) \in made

CacheIsMade ==
    \A i \in DOMAIN cache :
        [stage |-> cache[i].key[1], handoffs |-> cache[i].key[2], value |-> cache[i].value] \in made

HarnessIInv ==
    /\ HarnessTypeOK /\ UsageIsRecorded /\ HandoffsFollow /\ CacheIsMade
    /\ \A r \in Runs : StageWithinBudget(r) /\ StageIsMade(r)
==============================================================================
