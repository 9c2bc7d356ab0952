----------------------------- MODULE StorageClient -----------------------------
(***************************************************************************)
(* Transactions over the storage worker.  The application's thread sends a *)
(* request and blocks until its gate opens; the worker runs the requests   *)
(* on one connection and answers through a port.  A request that takes too *)
(* long closes the client, while the worker may still be running it.       *)
(*                                                                         *)
(* A callback writes, nests a transaction, returns or throws; it does not  *)
(* catch a statement's failure, but may catch a nested transaction's.      *)
(***************************************************************************)
EXTENDS Naturals, Sequences, SequencesExt

CONSTANTS MaxRequests, MaxDepth     \* bounds: requests, and nested transactions

ClientAssumption == {MaxRequests, MaxDepth} \subseteq Nat \ {0}

VARIABLES
    caller,     \* of the application: "run", "wait" for a reply, "throw"
    request,    \* the one it waits for
    requests,   \* the number of the last one
    stack,      \* per open transaction what the application has written in it
    closed,
    queue,      \* the worker's messages
    gate,       \* the requests that were answered
    port,       \* the answers nobody has read yet
    levels,     \* the connection: per savepoint its writes; none outside a transaction
    aborted,    \* its transaction has failed and takes only a rollback
    committed,
    reported, refused,  \* observers: writes of transactions that returned, and that threw
    doubtful            \* observer: a commit timed out

clientVars == <<caller, request, requests, stack, closed, queue, gate, port, levels, aborted, committed, reported, refused, doubtful>>
worker   == <<gate, levels, aborted, committed>>
accounts == <<reported, refused, doubtful>>

ClientInit ==
    /\ caller = "run" /\ request = [id |-> 0, kind |-> "none", depth |-> 0] /\ requests = 0 /\ stack = <<>> /\ closed = FALSE
    /\ queue = <<>> /\ gate = {} /\ port = <<>> /\ levels = <<>> /\ aborted = FALSE /\ committed = {}
    /\ reported = {} /\ refused = {} /\ doubtful = FALSE

Depth   == Len(stack)
Written == UNION ToSet(stack)

------------------------------------------------------------------------------
\* A request to a closed client throws at once.  Savepoints are named by their depth.
Requests(kind) ==
    IF closed
    THEN /\ caller' = "error" /\ request' = [id |-> 0, kind |-> kind, depth |-> Depth]
         /\ UNCHANGED <<requests, queue>>
    ELSE /\ requests' = requests + 1 /\ caller' = "wait"
         /\ request' = [id |-> requests + 1, kind |-> kind, depth |-> Depth] /\ queue' = Append(queue, request')

\* transaction: BEGIN, or a savepoint in another
Begins ==
    /\ caller = "run" /\ Depth < MaxDepth /\ requests < MaxRequests
    /\ Requests(IF Depth > 0 THEN "SAVEPOINT" ELSE "BEGIN")
    /\ UNCHANGED <<stack, closed, port, worker, accounts>>

Writes ==
    /\ caller = "run" /\ Depth > 0 /\ requests < MaxRequests /\ Requests("write")
    /\ UNCHANGED <<stack, closed, port, worker, accounts>>

Returns ==
    /\ caller = "run" /\ Depth > 0 /\ Requests(IF Depth > 1 THEN "RELEASE" ELSE "COMMIT")
    /\ UNCHANGED <<stack, closed, port, worker, accounts>>

Throws ==
    /\ caller = "run" /\ Depth > 0 /\ caller' = "throw"
    /\ UNCHANGED <<request, requests, stack, closed, queue, port, worker, accounts>>

\* Mutant: a nested transaction that threw is only released.
UndoesNothing == IF Depth > 1 THEN "RELEASE_AFTER" ELSE "ROLLBACK"

Undoes == IF Depth > 1 THEN "ROLLBACK_TO" ELSE "ROLLBACK"

RollsBack ==
    /\ caller = "throw" /\ Requests(Undoes)
    /\ UNCHANGED <<stack, closed, port, worker, accounts>>

------------------------------------------------------------------------------
\* The open transactions, each with its writes, after a request has succeeded.
After(open, m) ==
    CASE m.kind \in {"BEGIN", "SAVEPOINT"} -> Append(open, {})
      [] m.kind = "write"                  -> [open EXCEPT ![Len(open)] = @ \cup {m.id}]
      [] m.kind \in {"RELEASE", "RELEASE_AFTER"} ->
            Append(SubSeq(open, 1, Len(open) - 2), open[Len(open) - 1] \cup open[Len(open)])
      [] m.kind = "ROLLBACK_TO"            -> Append(SubSeq(open, 1, m.depth - 1), {})
      [] OTHER                             -> <<>>     \* COMMIT, ROLLBACK, close

\* The worker, one message after another.  A COMMIT of a failed transaction is a rollback.
Statement(m) ==
    /\ levels' = After(levels, m)
    /\ aborted' = FALSE
    /\ committed' = IF m.kind = "COMMIT" /\ ~aborted THEN committed \cup UNION ToSet(levels) ELSE committed

Able(m) == CASE m.kind \in {"ROLLBACK", "close"} -> TRUE
             [] m.kind = "BEGIN" -> levels = <<>>
             [] m.kind = "COMMIT" -> levels # <<>>
             [] m.kind = "ROLLBACK_TO" -> Len(levels) >= m.depth
             [] m.kind \in {"RELEASE", "RELEASE_AFTER"} -> Len(levels) > 1 /\ ~aborted
             [] OTHER -> levels # <<>> /\ ~aborted

\* A statement may fail for a reason of its own; its transaction then fails with it.
WorkerRuns ==
    /\ queue # <<>> /\ queue' = Tail(queue)
    /\ LET m == Head(queue)
       IN /\ gate' = gate \cup {m.id}
          /\ \/ Able(m) /\ Statement(m) /\ port' = Append(port, [id |-> m.id, ok |-> TRUE])
             \/ /\ m.kind # "close" /\ (m.kind \notin {"ROLLBACK", "ROLLBACK_TO"} \/ ~Able(m))
                /\ port' = Append(port, [id |-> m.id, ok |-> FALSE])
                /\ levels' = IF m.kind = "COMMIT" THEN <<>> ELSE levels
                /\ aborted' = (levels' # <<>>) /\ UNCHANGED committed
    /\ UNCHANGED <<caller, request, requests, stack, closed, accounts>>

------------------------------------------------------------------------------
\* What a successful reply means to transaction(): who throws undoes a nested transaction
\* and releases its savepoint, before whoever called it catches the error or not.
Succeeds ==
    /\ stack' = After(stack, request)
    /\ caller' \in CASE request.kind = "ROLLBACK_TO"   -> {"release"}
                     [] request.kind = "RELEASE_AFTER" -> {"run", "throw"}
                     [] OTHER                          -> {"run"}
    /\ reported' = IF request.kind = "COMMIT" THEN reported \cup Written ELSE reported
    /\ refused' = CASE request.kind = "ROLLBACK"                         -> refused \cup Written
                    [] request.kind \in {"ROLLBACK_TO", "RELEASE_AFTER"} -> refused \cup Last(stack)
                    [] OTHER                                             -> refused
    /\ UNCHANGED doubtful

\* A failure is thrown where the request was made.
Fails ==
    CASE request.kind = "BEGIN" -> caller' = "run" /\ UNCHANGED <<stack, accounts>>
      [] request.kind = "ROLLBACK" ->
            /\ stack' = <<>> /\ caller' = "run" /\ refused' = refused \cup Written /\ UNCHANGED <<reported, doubtful>>
      [] request.kind \in {"ROLLBACK_TO", "RELEASE_AFTER"} ->
            /\ refused' = refused \cup Last(stack) /\ stack' = Front(stack) /\ caller' = "throw"
            /\ UNCHANGED <<reported, doubtful>>
      [] OTHER -> caller' = "throw" /\ UNCHANGED <<stack, accounts>>

\* The gate is open: the oldest answer in the port is the request's.
Replies ==
    /\ caller = "wait" /\ request.id \in gate /\ port' = Tail(port)
    /\ IF Head(port).ok THEN Succeeds ELSE Fails
    /\ UNCHANGED <<request, requests, closed, queue, worker>>

ThrowsClosed ==
    /\ caller = "error" /\ Fails
    /\ UNCHANGED <<request, requests, closed, queue, port, worker>>

ReleasesSavepoint ==
    /\ caller = "release" /\ Requests("RELEASE_AFTER")
    /\ UNCHANGED <<stack, closed, port, worker, accounts>>

\* Mutant: the client stays open after a request that took too long.
StaysOpen == UNCHANGED <<closed, queue>>

\* Mutant: the client is closed and the worker is not told.
LeavesWorker == closed' = TRUE /\ UNCHANGED queue

\* The connection is never used again, and is closed when the request has ended.
ClosesClient == closed' = TRUE /\ queue' = Append(queue, [id |-> 0, kind |-> "close", depth |-> 0])

TimesOut ==
    /\ caller = "wait" /\ request.id \notin gate /\ Fails /\ ClosesClient
    /\ UNCHANGED <<request, requests, port, worker>>

\* What a commit that timed out has done is not known.
TimesOutInDoubt == TimesOut /\ request.kind # "COMMIT"

CommitTimesOut ==
    /\ caller = "wait" /\ request.kind = "COMMIT" /\ request.id \notin gate
    /\ caller' = "throw" /\ doubtful' = TRUE /\ ClosesClient
    /\ UNCHANGED <<request, requests, stack, port, worker, reported, refused>>

ClientNext ==
    \/ Begins \/ Writes \/ Returns \/ Throws \/ RollsBack \/ ReleasesSavepoint
    \/ WorkerRuns \/ Replies \/ ThrowsClosed \/ TimesOutInDoubt \/ CommitTimesOut

\* The worker runs its messages: every statement has a time limit of its own.
ClientSpec == ClientInit /\ [][ClientNext]_clientVars /\ WF_clientVars(WorkerRuns)

------------------------------------------------------------------------------
StatementKinds == {"none", "BEGIN", "SAVEPOINT", "write", "RELEASE", "COMMIT", "ROLLBACK", "ROLLBACK_TO", "RELEASE_AFTER"}

\* The variables have their types.
ClientTypeOK ==
    /\ caller \in {"run", "wait", "error", "throw", "release"}
    /\ request \in [id : Nat, kind : StatementKinds, depth : Nat] /\ requests \in Nat
    /\ queue \in Seq([id : Nat, kind : StatementKinds \cup {"close"}, depth : Nat])
    /\ port \in Seq([id : Nat, ok : BOOLEAN])
    /\ stack \in Seq(SUBSET Nat) /\ Depth <= MaxDepth
    /\ closed \in BOOLEAN /\ aborted \in BOOLEAN /\ doubtful \in BOOLEAN

\* What a transaction that returned has written is stored.
ReportedIsDurable == reported \subseteq committed

\* Of a transaction that threw nothing is stored, unless its commit timed out; nor of a
\* nested one that threw and was caught.
FailedLeavesNothing == ~doubtful => refused \cap committed = {}

\* A client that was closed by a time limit holds no transaction open for ever.
LocksAreReleased == closed ~> levels = <<>>

------------------------------------------------------------------------------
\* A request is made at a depth that it is meant for; a savepoint is only released after
\* its transaction threw when nothing is left of it.
AtDepth(kind) ==
    /\ kind = "BEGIN" => Depth = 0
    /\ kind = "write" => Depth > 0
    /\ kind = "SAVEPOINT" => Depth > 0 /\ Depth < MaxDepth
    /\ kind \in {"COMMIT", "ROLLBACK"} => Depth = 1
    /\ kind \in {"RELEASE", "ROLLBACK_TO", "RELEASE_AFTER"} => Depth > 1
    /\ kind = "RELEASE_AFTER" => stack[Depth] = {}

Position ==
    /\ caller \in {"wait", "error"} => request.depth = Depth /\ request.kind # "none" /\ AtDepth(request.kind)
    /\ caller = "release" => AtDepth("RELEASE_AFTER")
    /\ caller = "throw" => Depth > 0
    /\ closed => caller \in {"run", "throw", "error"}
    /\ caller = "error" => closed

\* The connection has what the application wrote, transaction by transaction; or, when
\* something failed, has nothing or perhaps a savepoint more.
Mirrors == levels = stack /\ ~aborted
Leaves ==
    \/ levels = <<>> /\ Depth = 1
    \/ levels \in Seq(SUBSET Nat) /\ Len(levels) >= Depth /\ \A i \in 1..Depth : levels[i] = stack[i]

Unanswered ==
    /\ queue = <<request>> /\ port = <<>> /\ request.id \notin gate
    /\ IF request.kind \in {"ROLLBACK", "ROLLBACK_TO"} THEN Leaves ELSE Mirrors

Answered(ok) ==
    /\ queue = <<>> /\ port = <<[id |-> request.id, ok |-> ok]>> /\ request.id \in gate
    /\ IF ok THEN /\ levels = After(stack, request) /\ ~aborted
                  /\ request.kind = "COMMIT" => Written \subseteq committed
             ELSE /\ request.kind \notin {"ROLLBACK", "ROLLBACK_TO"}
                  /\ IF request.kind = "BEGIN" THEN Mirrors ELSE Leaves

\* One request is under way at a time, and its answer is the one in the port.
Exchange ==
    ~closed =>
        /\ caller = "wait" => request.id = requests /\ (Unanswered \/ Answered(TRUE) \/ Answered(FALSE))
        /\ caller \in {"run", "release", "throw"} => queue = <<>> /\ port = <<>>
        /\ caller \in {"run", "release"} => Mirrors
        /\ caller = "throw" => Leaves

\* A write is in one transaction, and in none that threw; until its commit has succeeded
\* it is not stored.
Committing == caller = "wait" /\ request.kind = "COMMIT" /\ port # <<>> /\ Head(port).ok
Apart ==
    /\ \A i, j \in 1..Depth : i # j => stack[i] \cap stack[j] = {}
    /\ \A i \in 1..Depth : stack[i] \cap refused = {}
    /\ ~doubtful /\ ~Committing => \A i \in 1..Depth : stack[i] \cap committed = {}
    /\ ~doubtful /\ closed => \A i \in DOMAIN queue : queue[i].kind # "COMMIT"

\* A write is numbered by its request, so the one under way is in no account yet.
Numbered ==
    ~closed =>
        LET last == IF caller = "wait" THEN requests - 1 ELSE requests IN
        /\ gate \subseteq 0..requests
        /\ \A i \in 1..Depth : stack[i] \subseteq 0..last
        /\ refused \cup committed \subseteq 0..last

\* What makes a report true: inductive.
ClientIInv ==
    /\ ClientTypeOK /\ Position /\ Exchange /\ Apart /\ Numbered
    /\ ReportedIsDurable /\ FailedLeavesNothing
==============================================================================
