------------------------------ MODULE CodexChild ------------------------------
(***************************************************************************)
(* One Codex process and the call that waits for it.  There are three such *)
(* calls, each with its own way to stop the process: the planner's, the    *)
(* chat's and the execution's.  The time limit, the user's stop, the limit *)
(* of the output, the process's own end and the two steps of its end (exit *)
(* and close) come in any order.                                           *)
(*                                                                         *)
(* The close waits for everybody who holds the output of the process: what *)
(* Codex itself has started may hold it after the exit, in the process     *)
(* group that a stop signals, or outside of it.                            *)
(***************************************************************************)
EXTENDS Naturals

CONSTANTS Kinds, MaxSignals     \* bound of the timers that a stop leaves behind

ChildAssumption == Kinds \subseteq {"planner", "chat", "execution"} /\ MaxSignals \in Nat

VARIABLES
    kind,       \* of the call
    heeds,      \* whether the process ends when it gets SIGTERM
    step,       \* of the call
    child,      \* the process; "held" or "escaped" when it has exited and a descendant, in its
                \* group or not, holds its output; "exited" when nobody does
    code,       \* its exit code, if it was not a signal that ended it
    termed,     \* it has a SIGTERM
    aborted,    \* the user's signal
    reason,     \* why the call fails
    timer,      \* of the time limit
    kill,       \* the last SIGKILL timer
    stray,      \* the earlier ones, which nothing clears
    over,       \* the output passed the limit
    directory,  \* the temporary directory exists
    server,
    stopped     \* observer: the process was stopped before it had exited

childVars == <<kind, heeds, step, child, code, termed, aborted, reason, timer, kill, stray, over, directory,
               server, stopped>>
process   == <<child, code, termed>>
timers    == <<timer, kill, stray>>

ChildInit ==
    /\ kind \in Kinds /\ heeds \in BOOLEAN /\ step = "prepare"
    /\ child = "none" /\ code = "none" /\ termed = FALSE /\ aborted = FALSE /\ reason = "none"
    /\ timer = "unset" /\ kill = "unset" /\ stray = 0 /\ over = FALSE
    /\ directory = FALSE /\ server = "up" /\ stopped = FALSE

Up       == server = "up"
Alive    == child \in {"reading", "running"}
Started  == step = "wait"
Unended  == Alive \/ (child # "none" /\ code = "signal")      \* exitCode is null
Settled  == step \in {"done", "failed"}

------------------------------------------------------------------------------
\* mkdtemp; the execution captures the folder here and looks whether it was stopped.
Prepares ==
    /\ Up /\ step = "prepare" /\ directory' = TRUE
    /\ step' = IF kind = "execution" /\ aborted THEN "failed" ELSE "spawn"
    /\ UNCHANGED <<kind, heeds, process, aborted, reason, timers, over, server, stopped>>

\* Mutant: what was stopped while the schema was written is not seen.
SeenAtSpawnNot == FALSE

\* The stop that came before the listener: the chat does not start, the execution stops at once.
SeenAtSpawn == aborted

\* abort and stop: SIGTERM now and SIGKILL later.  Of two timers only the last is known.
Stops ==
    /\ termed' = TRUE /\ kill' = "armed"
    /\ stray' = IF kill = "armed" /\ stray < MaxSignals THEN stray + 1 ELSE stray

ChildSpawns ==
    /\ Up /\ step = "spawn"
    /\ IF kind = "chat" /\ SeenAtSpawn
       THEN step' = "failed" /\ UNCHANGED <<process, reason, timers, stopped>>
       ELSE \/ /\ step' = "wait" /\ child' = "reading" /\ timer' = "armed"
               /\ IF kind = "execution" /\ SeenAtSpawn
                  THEN Stops /\ reason' = "aborted" /\ stopped' = TRUE
                  ELSE UNCHANGED <<termed, kill, stray, reason, stopped>>
               /\ UNCHANGED code
            \/ step' = "failed" /\ UNCHANGED <<process, reason, timers, stopped>>     \* codex cannot be started
    /\ UNCHANGED <<kind, heeds, aborted, over, directory, server>>

------------------------------------------------------------------------------
ReadsPrompt ==
    /\ Up /\ child = "reading" /\ child' = "running"
    /\ UNCHANGED <<kind, heeds, step, code, termed, aborted, reason, timers, over, directory, server, stopped>>

\* The process closes its input before it has read the prompt.  Only the chat listens
\* for the error; elsewhere nobody handles it.
ClosesInput ==
    /\ Up /\ child = "reading" /\ child' = "running"
    /\ server' = IF kind = "chat" THEN server ELSE "down"
    /\ UNCHANGED <<kind, heeds, step, code, termed, aborted, reason, timers, over, directory, stopped>>

\* More output than the limit: the chat stops for every chunk, the execution sends
\* SIGTERM and waits; the planner's output is not read.
PrintsTooMuch ==
    /\ Up /\ Started /\ kind # "planner" /\ over' = TRUE /\ stopped' = (stopped \/ Alive)
    /\ IF kind = "chat" THEN reason' = "output" /\ Stops /\ UNCHANGED timer
                        ELSE termed' = TRUE /\ UNCHANGED <<reason, timers>>
    /\ UNCHANGED <<kind, heeds, step, child, code, aborted, directory, server>>

\* turn.failed: the execution only shows it.
ReportsFailure ==
    /\ Up /\ Started /\ kind = "chat" /\ reason' = "turn"
    /\ UNCHANGED <<kind, heeds, step, process, aborted, timers, over, directory, server, stopped>>

FailsFor(why) == reason' = why

\* The user stops the chat or cancels the execution.  A stop after the exit is too late.
UserStops ==
    /\ Up /\ kind # "planner" /\ ~aborted /\ ~Settled /\ aborted' = TRUE
    /\ IF (kind = "chat" /\ Started) \/ (kind = "execution" /\ Unended)
       THEN /\ Stops
            /\ IF kind = "execution" THEN FailsFor("aborted") ELSE UNCHANGED reason
       ELSE UNCHANGED <<termed, kill, stray, reason>>
    /\ stopped' = (stopped \/ child = "none" \/ Alive)
    /\ UNCHANGED <<kind, heeds, step, child, code, timer, over, directory, server>>

\* Mutant: as the planner does, the execution sends SIGTERM and no more.
StopsPolitely == termed' = TRUE /\ UNCHANGED <<kill, stray>>

StopsLate == Stops

ChildTimeIsUp ==
    /\ Up /\ timer = "armed" /\ Started /\ timer' = "fired"
    /\ CASE kind = "planner" -> termed' = TRUE /\ UNCHANGED <<kill, stray, reason, stopped>>
         [] kind = "chat" -> StopsLate /\ reason' = "timeout" /\ stopped' = (stopped \/ Alive)
         [] kind = "execution" /\ Unended -> StopsLate /\ FailsFor("timeout") /\ stopped' = (stopped \/ Alive)
         [] OTHER -> UNCHANGED <<termed, kill, stray, reason, stopped>>
    /\ UNCHANGED <<kind, heeds, step, child, code, aborted, over, directory, server>>

------------------------------------------------------------------------------
\* How the process is after its end.  The planner's has no output that could be held.
EndsAs == IF kind = "planner" THEN {"exited"} ELSE {"exited", "held", "escaped"}

\* The process ends of itself, having finished or not.
Exits ==
    /\ child = "running"
    /\ child' \in EndsAs /\ code' \in {"zero", "other"}
    /\ UNCHANGED <<kind, heeds, step, termed, aborted, reason, timers, over, directory, server, stopped>>

\* One that heeds SIGTERM may choose its code.
EndsAtTerm ==
    /\ Alive /\ termed /\ heeds /\ child' \in EndsAs /\ code' \in {"zero", "other", "signal"}
    /\ UNCHANGED <<kind, heeds, step, termed, aborted, reason, timers, over, directory, server, stopped>>

\* Whoever holds the output ends, or closes it.
LetsGo ==
    /\ child \in {"held", "escaped"} /\ child' = "exited"
    /\ UNCHANGED <<kind, heeds, step, code, termed, aborted, reason, timers, over, directory, server, stopped>>

\* SIGKILL reaches the group, so nobody in it is left.
Killed ==
    IF Alive \/ child = "held"
    THEN /\ child' \in EndsAs \ {"held"}
         /\ code' = IF Alive THEN "signal" ELSE code
    ELSE UNCHANGED <<child, code>>

KillFires ==
    /\ Up /\ kill = "armed" /\ kill' = "fired" /\ Killed
    /\ UNCHANGED <<kind, heeds, step, termed, aborted, reason, timer, stray, over, directory, server, stopped>>

\* A timer that was left behind may fire after the call has ended.
StrayFires ==
    /\ Up /\ stray > 0 /\ stray' = stray - 1 /\ Killed
    /\ UNCHANGED <<kind, heeds, step, termed, aborted, reason, timer, kill, over, directory, server, stopped>>

\* Mutant: the code is handed on.
OutcomeIsCode == code

\* What the call makes of the end: the chat looks at the signal, the execution at the
\* reason and then at the size of the output, the planner at the code alone.
Outcome ==
    IF \/ code # "zero"
       \/ (kind = "chat" /\ (aborted \/ reason # "none"))
       \/ (kind = "execution" /\ (reason # "none" \/ over))
    THEN "failed" ELSE "done"

\* Mutant: the call is over when it was stopped.
ChildEndedOrStopped == child = "exited" \/ (termed /\ Alive)

ChildEnded == child = "exited"

Closes ==
    /\ Up /\ Started /\ ChildEnded
    /\ timer' = "cleared" /\ kill' = "cleared" /\ step' = Outcome
    /\ UNCHANGED <<kind, heeds, process, aborted, reason, stray, over, directory, server, stopped>>

\* finally
CleansUp ==
    /\ Up /\ Settled /\ directory /\ directory' = FALSE
    /\ UNCHANGED <<kind, heeds, step, process, aborted, reason, timers, over, server, stopped>>

ChildNext ==
    \/ Prepares \/ ChildSpawns \/ ReadsPrompt \/ ClosesInput \/ PrintsTooMuch \/ ReportsFailure \/ UserStops
    \/ ChildTimeIsUp \/ Exits \/ EndsAtTerm \/ LetsGo \/ KillFires \/ StrayFires \/ Closes \/ CleansUp

\* The event loop's steps and timers happen; the process reads or closes its input, and
\* one that heeds SIGTERM ends when it gets it.  It need not end of itself, nor does who
\* holds its output.
ChildFairness ==
    /\ WF_childVars(Prepares) /\ WF_childVars(ChildSpawns) /\ WF_childVars(ChildTimeIsUp) /\ WF_childVars(KillFires)
    /\ WF_childVars(Closes) /\ WF_childVars(CleansUp) /\ WF_childVars(EndsAtTerm)

ChildSpec == ChildInit /\ [][ChildNext]_childVars /\ ChildFairness

------------------------------------------------------------------------------
\* The variables have their types.
ChildTypeOK ==
    /\ kind \in Kinds /\ heeds \in BOOLEAN /\ step \in {"prepare", "spawn", "wait", "done", "failed"}
    /\ child \in {"none", "reading", "running", "held", "escaped", "exited"}
    /\ code \in {"none", "zero", "other", "signal"} /\ termed \in BOOLEAN /\ aborted \in BOOLEAN
    /\ reason \in {"none", "output", "turn", "timeout", "aborted"}
    /\ timer \in {"unset", "armed", "fired", "cleared"} /\ kill \in {"unset", "armed", "fired", "cleared"}
    /\ stray \in 0..MaxSignals /\ over \in BOOLEAN /\ directory \in BOOLEAN
    /\ server \in {"up", "down"} /\ stopped \in BOOLEAN

\* A chat answer or a node's work that was stopped, by the user, the clock or the
\* output's limit, is never taken for a finished one, whatever code the process ends with.
StoppedIsNotDone == kind # "planner" /\ stopped => step # "done"

\* No call ends while its process still works, or a descendant that holds its output; the
\* folder is released too early otherwise.
NoneIsLeftBehind == Settled => child \in {"none", "exited"}

\* The output is held where no signal reaches: outside of the group; and by whoever is in
\* it once the execution's process has exited with a code, after which neither the time
\* limit nor a stop sends one.
OutOfReach == child = "escaped" \/ (kind = "execution" /\ child = "held" /\ code # "signal")

\* A chat or a node's process that ignores SIGTERM is ended all the same, with what is left
\* in its group, and its temporary directory removed, unless the server ended first or the
\* output stays held out of reach.
EveryCallEnds ==
    <>((kind # "planner" => Settled /\ ~directory) \/ ~Up) \/ <>[]OutOfReach

\* The planner's process is ended within its time limit and a grace period.
PlannerEnds == <>((kind = "planner" => Settled) \/ ~Up)

\* A process that does not read its prompt does not take the server with it.
EngineStaysHealthy == Up

------------------------------------------------------------------------------
\* A call waits for its process from the spawn to the end of both.
CallHasProcess ==
    /\ step \in {"prepare", "spawn"} => child = "none"
    /\ step = "wait" => child # "none"
    /\ Settled => child \in {"none", "exited"}

\* What was stopped remembers it, where Outcome looks.
StopIsRemembered ==
    /\ kind # "planner" /\ stopped /\ step \in {"prepare", "spawn"} => aborted
    /\ kind = "chat" /\ stopped /\ step = "wait" => aborted \/ reason # "none"
    /\ kind = "execution" /\ stopped /\ step = "wait" => reason # "none" \/ over

\* What makes the end of a call that of its process, and a stop its failure: inductive.
ChildIInv == ChildTypeOK /\ CallHasProcess /\ StopIsRemembered /\ StoppedIsNotDone
==============================================================================
