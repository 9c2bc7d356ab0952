----------------------------- MODULE StorageOwner -----------------------------
(***************************************************************************)
(* Who owns the private PostgreSQL data directory.  An application takes   *)
(* the owner lock, prepares the cluster, spawns the server and a guardian  *)
(* that outlives it, and at the end stops the server before it gives the   *)
(* lock back.  Applications may be killed between any two steps; the next  *)
(* one finds the lock, the server and the half-made cluster as they are.   *)
(***************************************************************************)
CONSTANTS Apps, None,
          Together      \* whether applications are started while another runs

OwnerAssumption == None \notin Apps /\ Together \in BOOLEAN

VARIABLES
    pc, alive,  \* app -> where it is, and whether the process runs
    lock,       \* None or the process id in owner.lock, which may be missing
    data,       \* the cluster
    pidfile,    \* postmaster.pid: the app whose server it names
    pg,         \* app -> its server
    guardian,   \* app -> its guardian
    crashed     \* observer: an application was killed

vars == <<pc, alive, lock, data, pidfile, pg, guardian, crashed>>
cluster == <<data, pidfile, pg>>

Free == [held |-> FALSE, pid |-> None]
Held(p) == [held |-> TRUE, pid |-> p]

Init ==
    /\ pc = [a \in Apps |-> "idle"] /\ alive = [a \in Apps |-> TRUE]
    /\ lock = Free /\ data \in {"none", "ready"} /\ pidfile = None
    /\ pg = [a \in Apps |-> "none"] /\ guardian = [a \in Apps |-> "none"] /\ crashed = FALSE

Over      == {"idle", "refused", "pending", "failed", "closed", "stop failed"}
Running   == {"starting", "up", "ending"}
At(a, at) == alive[a] /\ pc[a] = at
Goes(a, to) == pc' = [pc EXCEPT ![a] = to]

\* process.kill(pid, 0)
AppAlive(a) == a # None /\ alive[a] /\ pc[a] \notin {"refused", "pending", "failed", "closed"}
PgAlive(a)  == a # None /\ pg[a] \in Running

------------------------------------------------------------------------------
\* mkdir of the lock, which only one can do
MakesLock(a) ==
    /\ At(a, "idle") /\ (Together \/ \A b \in Apps \ {a} : ~alive[b] \/ pc[b] \in Over \ {"stop failed"})
    /\ IF lock.held THEN Goes(a, "owner") /\ UNCHANGED lock
                    ELSE Goes(a, "pid") /\ lock' = Held(None)
    /\ UNCHANGED <<alive, cluster, guardian, crashed>>

\* Mutant: whoever left no process id is taken for dead.
LooksDeadOrUnnamed == ~AppAlive(lock.pid)

OwnerLooksDead == lock.pid # None /\ ~AppAlive(lock.pid)

ReadsOwner(a) ==
    /\ At(a, "owner") /\ Goes(a, IF lock.held /\ OwnerLooksDead THEN "postmaster" ELSE "refused")
    /\ UNCHANGED <<alive, lock, cluster, guardian, crashed>>

\* STORAGE_RECOVERY_PENDING while the old server is still stopping
ReadsPostmaster(a) ==
    /\ At(a, "postmaster") /\ Goes(a, IF PgAlive(pidfile) THEN "pending" ELSE "remove")
    /\ UNCHANGED <<alive, lock, cluster, guardian, crashed>>

RemovesStaleLock(a) ==
    /\ At(a, "remove")
    /\ IF lock.held THEN Goes(a, "remake") /\ lock' = Free ELSE Goes(a, "failed") /\ UNCHANGED lock
    /\ UNCHANGED <<alive, cluster, guardian, crashed>>

RemakesLock(a) ==
    /\ At(a, "remake")
    /\ IF lock.held THEN Goes(a, "failed") /\ UNCHANGED lock ELSE Goes(a, "pid") /\ lock' = Held(None)
    /\ UNCHANGED <<alive, cluster, guardian, crashed>>

WritesPid(a) ==
    /\ At(a, "pid")
    /\ IF lock.held THEN Goes(a, "data") /\ lock' = Held(a) ELSE Goes(a, "failed") /\ UNCHANGED lock
    /\ UNCHANGED <<alive, cluster, guardian, crashed>>

------------------------------------------------------------------------------
\* What initdb has begun counts as a cluster.
PreparesData(a) ==
    /\ At(a, "data")
    /\ IF data = "none" THEN Goes(a, "initdb") /\ data' = "partial" ELSE Goes(a, "spawn") /\ UNCHANGED data
    /\ UNCHANGED <<alive, lock, pidfile, pg, guardian, crashed>>

InitdbEnds(a) ==
    /\ At(a, "initdb")
    /\ \/ Goes(a, "spawn") /\ data' = "ready"
       \/ Goes(a, "stop") /\ UNCHANGED data
    /\ UNCHANGED <<alive, lock, pidfile, pg, guardian, crashed>>

\* Mutant: the server has no guardian.
SpawnsUnguarded(a) ==
    /\ At(a, "spawn") /\ Goes(a, "wait") /\ pg' = [pg EXCEPT ![a] = "starting"]
    /\ UNCHANGED <<alive, lock, data, pidfile, guardian, crashed>>

\* The server and its guardian, without an await in between
SpawnsServer(a) ==
    /\ At(a, "spawn") /\ Goes(a, "wait")
    /\ pg' = [pg EXCEPT ![a] = "starting"] /\ guardian' = [guardian EXCEPT ![a] = "watching"]
    /\ UNCHANGED <<alive, lock, data, pidfile, crashed>>

\* PostgreSQL itself lets only one server into a data directory.
ServerStarts(a) ==
    /\ pg[a] = "starting"
    /\ IF data = "ready" /\ ~PgAlive(pidfile)
       THEN pg' = [pg EXCEPT ![a] = "up"] /\ pidfile' = a
       ELSE pg' = [pg EXCEPT ![a] = "dead"] /\ UNCHANGED pidfile
    /\ UNCHANGED <<pc, alive, lock, data, guardian, crashed>>

ServerEnds(a) ==
    /\ pg[a] = "ending" /\ pg' = [pg EXCEPT ![a] = "dead"]
    /\ pidfile' = IF pidfile = a THEN None ELSE pidfile
    /\ UNCHANGED <<pc, alive, lock, data, guardian, crashed>>

Opens(a) ==
    /\ At(a, "wait") /\ pg[a] = "up" /\ Goes(a, "open")
    /\ UNCHANGED <<alive, lock, cluster, guardian, crashed>>

\* The server has ended, the guardian says nothing, or the time is over.
StartFails(a) ==
    /\ At(a, "wait") /\ Goes(a, "stop")
    /\ UNCHANGED <<alive, lock, cluster, guardian, crashed>>

------------------------------------------------------------------------------
Closes(a) ==
    /\ At(a, "open") /\ Goes(a, "stop")
    /\ UNCHANGED <<alive, lock, cluster, guardian, crashed>>

Signalled(a) == pg' = [pg EXCEPT ![a] = IF @ = "up" THEN "ending" ELSE IF @ = "starting" THEN "dead" ELSE @]

\* pg_ctl stops the server that postmaster.pid names; when there is none it fails, and
\* the child gets the signal.
StopsServer(a) ==
    /\ At(a, "stop") /\ Goes(a, "confirm")
    /\ IF pg[a] \in Running THEN Signalled(IF PgAlive(pidfile) THEN pidfile ELSE a) ELSE UNCHANGED pg
    /\ UNCHANGED <<alive, lock, data, pidfile, guardian, crashed>>

\* Mutant: the lock is given back whether or not the server has ended.
ConfirmsAnyway(a) == TRUE

ServerConfirmed(a) == pg[a] \notin Running

\* Two waits, and then the server has ended or not: the lock is kept if not.
ConfirmsStop(a) ==
    /\ At(a, "confirm")
    /\ IF ServerConfirmed(a)
       THEN Goes(a, "unlock") /\ guardian' = [guardian EXCEPT ![a] = IF @ = "watching" THEN "told" ELSE @]
       ELSE Goes(a, "stop failed") /\ UNCHANGED guardian
    /\ UNCHANGED <<alive, lock, cluster, crashed>>

Unlocks(a) ==
    /\ At(a, "unlock") /\ Goes(a, "closed") /\ lock' = Free
    /\ UNCHANGED <<alive, cluster, guardian, crashed>>

\* The application is killed.
Crash(a) ==
    /\ alive[a] /\ pc[a] \notin Over \ {"stop failed"} /\ alive' = [alive EXCEPT ![a] = FALSE] /\ crashed' = TRUE
    /\ UNCHANGED <<pc, lock, cluster, guardian>>

------------------------------------------------------------------------------
\* Mutant: only the application's message ends the guardian's wait.
WakesWhenTold(a) == guardian[a] = "told"

\* The pipe to the application ends, with it or before.
Wakes(a) == guardian[a] = "told" \/ (guardian[a] = "watching" /\ ~alive[a])

\* Mutant: the guardian stops the server that runs in the directory.
TargetIsRunning(a) == IF PgAlive(pidfile) THEN pidfile ELSE a

\* The guardian signals the server it was spawned for, and none if another has followed.
Target(a) == IF pidfile \in Apps \ {a} THEN None ELSE a

GuardianStops(a) ==
    /\ Wakes(a) /\ guardian' = [guardian EXCEPT ![a] = "done"]
    /\ IF Target(a) # None THEN Signalled(Target(a)) ELSE UNCHANGED pg
    /\ UNCHANGED <<pc, alive, lock, data, pidfile, crashed>>

Next ==
    \E a \in Apps :
        \/ MakesLock(a) \/ ReadsOwner(a) \/ ReadsPostmaster(a) \/ RemovesStaleLock(a) \/ RemakesLock(a) \/ WritesPid(a)
        \/ PreparesData(a) \/ InitdbEnds(a) \/ SpawnsServer(a) \/ ServerStarts(a) \/ ServerEnds(a)
        \/ Opens(a) \/ StartFails(a) \/ Closes(a) \/ StopsServer(a) \/ ConfirmsStop(a) \/ Unlocks(a)
        \/ Crash(a) \/ GuardianStops(a)

\* Guardians and servers go on; applications need not.
Fairness == \A a \in Apps : WF_vars(GuardianStops(a)) /\ WF_vars(ServerStarts(a)) /\ WF_vars(ServerEnds(a))

Spec == Init /\ [][Next]_vars /\ Fairness

------------------------------------------------------------------------------
Owning(a) == alive[a] /\ pc[a] \in {"data", "initdb", "spawn", "wait", "open", "stop", "confirm"}

Places ==
    Over \cup {"owner", "postmaster", "remove", "remake", "pid", "data", "initdb", "spawn", "wait", "open", "stop",
              "confirm", "unlock"}
LockOK == lock \in [held : BOOLEAN, pid : Apps \cup {None}]

\* The variables have their types; every server has a guardian.
TypeOK ==
    /\ pc \in [Apps -> Places] /\ alive \in [Apps -> BOOLEAN] /\ LockOK
    /\ data \in {"none", "partial", "ready"} /\ pidfile \in Apps \cup {None}
    /\ pg \in [Apps -> Running \cup {"none", "dead"}] /\ crashed \in BOOLEAN
    /\ guardian \in [Apps -> {"none", "watching", "told", "done"}]
    /\ \A a \in Apps : guardian[a] = "none" <=> pg[a] = "none"

\* The server of an application that works is stopped by nobody else: not by the
\* guardian of an earlier application, however late.
OpenIsServed == \A a \in Apps : At(a, "open") => pg[a] = "up"

\* An application that has given the directory back has left no server in it.
NoneIsLeftRunning == \A a \in Apps : pc[a] \in {"unlock", "closed"} => pg[a] \notin Running

\* The server of an application that was killed while it was open ends.
GuardedEnd == \A a \in Apps : (~alive[a] /\ pc[a] = "open" /\ pg[a] = "up") ~> (pg[a] \notin Running)

\* The server of any application that was killed ends.
OrphansEnd == \A a \in Apps : (~alive[a] /\ pg[a] \in Running) ~> (pg[a] \notin Running)

\* While no application was killed only one owns the directory, though many start at once.
FreshLockIsExclusive == ~crashed => \A a, b \in Apps : Owning(a) /\ Owning(b) => a = b

\* Only one application owns the directory.
OneOwner == \A a, b \in Apps : Owning(a) /\ Owning(b) => a = b

\* Who is told that the directory has an owner is told so because it has one, or had a moment ago.
RefusedBecauseOwned ==
    \A a \in Apps : pc[a] = "refused" /\ ~Together => \E b \in Apps \ {a} : alive[b] /\ pc[b] \notin {"idle", "refused"}
------------------------------------------------------------------------------
\* An application that is past its start and not yet over; the one whose server did
\* not stop still has its process.
Working(a) == alive[a] /\ pc[a] \notin Over \ {"stop failed"}

\* From mkdir to rmdir of the lock
Holds(a) == pc[a] \in {"pid", "data", "initdb", "spawn", "wait", "open", "stop", "confirm", "unlock", "stop failed"}

\* While nobody was killed, the lock is of one application and names it, so nobody
\* judges it stale.
FreshLock ==
    /\ \A a \in Apps : alive[a] /\ pc[a] \notin {"postmaster", "remove", "remake"}
    /\ \A a \in Apps : Holds(a) => lock.held /\ lock.pid = IF pc[a] = "pid" THEN None ELSE a
    /\ \A a, b \in Apps : Holds(a) /\ Holds(b) => a = b
    /\ lock.pid # None => Holds(lock.pid)

\* Applications that are started one after another work one after another.
OneAtATime == \A a, b \in Apps : Working(a) /\ Working(b) => a = b

\* The guardian of an application that waits for its server, or uses it, watches.
Guarded == \A a \in Apps : alive[a] /\ pc[a] \in {"wait", "open"} => guardian[a] = "watching"

IInv ==
    /\ TypeOK /\ NoneIsLeftRunning /\ Guarded
    /\ ~crashed => FreshLock
    /\ ~Together => OneAtATime /\ OpenIsServed
==============================================================================
