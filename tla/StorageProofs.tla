---------------------------- MODULE StorageProofs ----------------------------
(***************************************************************************)
(* Proofs about the storage: who owns its directory, the evidence that is  *)
(* kept beside it, the transactions over its worker, and the import of a   *)
(* legacy store.  Each holds for any number of applications, writers,      *)
(* contents, nested transactions and kills, under the assumption that its  *)
(* module states and the lemmas here name.                                 *)
(***************************************************************************)
EXTENDS StorageOwner, EvidenceSources, StorageClient, LegacyImport, SequenceTheorems, TLAPS

------------------------------------------------------------------------------
(***************************************************************************)
(* The owner of the directory                                              *)
(***************************************************************************)
LEMMA InitIInv == OwnerAssumption /\ Init => IInv
<1> SUFFICES ASSUME OwnerAssumption, Init PROVE IInv
  OBVIOUS
<1>1. TypeOK
  <2>1. LockOK
    BY DEF Init, Free, LockOK
  <2>2. QED
    BY <2>1 DEF Init, TypeOK, Places, Over, Running
<1>2. NoneIsLeftRunning /\ Guarded /\ OneAtATime /\ OpenIsServed
  BY DEF Init, NoneIsLeftRunning, Guarded, OneAtATime, OpenIsServed, At, Working, Over
<1>3. FreshLock
  BY DEF Init, FreshLock, Holds, Free
<1>4. QED
  BY <1>1, <1>2, <1>3 DEF IInv

\* The actions of an application, by what they touch.
Locks(a) ==
    MakesLock(a) \/ ReadsOwner(a) \/ ReadsPostmaster(a) \/ RemovesStaleLock(a) \/ RemakesLock(a) \/ WritesPid(a)
Starts(a) ==
    PreparesData(a) \/ InitdbEnds(a) \/ SpawnsServer(a) \/ Opens(a) \/ StartFails(a) \/ Closes(a)
Ends(a) == StopsServer(a) \/ ConfirmsStop(a) \/ Unlocks(a) \/ Crash(a)
Serves(a) == ServerStarts(a) \/ ServerEnds(a) \/ GuardianStops(a)

\* A signal ends what runs and starts nothing.
LEMMA SignalledOnly ==
    ASSUME TypeOK, NEW t \in Apps, Signalled(t)
    PROVE  /\ pg' \in [Apps -> Running \cup {"none", "dead"}]
           /\ \A b \in Apps : (pg'[b] = "none" <=> pg[b] = "none") /\ (pg'[b] \in Running => pg[b] \in Running)
           /\ \A b \in Apps \ {t} : pg'[b] = pg[b]
  BY DEF TypeOK, Signalled, Running

LEMMA Moves ==
    ASSUME TypeOK, NEW a \in Apps, NEW to \in Places, Goes(a, to)
    PROVE  pc' \in [Apps -> Places] /\ pc'[a] = to /\ \A b \in Apps \ {a} : pc'[b] = pc[b]
  BY DEF TypeOK, Goes

\* A lock that is left alone stays as fresh as it is.
LEMMA FreshStays ==
    ASSUME TypeOK, FreshLock, UNCHANGED <<alive, lock>>,
           \A b \in Apps : /\ Holds(b)' <=> Holds(b)
                           /\ pc'[b] = "pid" <=> pc[b] = "pid"
                           /\ pc'[b] \notin {"postmaster", "remove", "remake"}
    PROVE  FreshLock'
<1>1. lock.pid \in Apps \cup {None}
  BY DEF TypeOK, LockOK
<1>2. /\ \A b \in Apps : alive'[b] /\ pc'[b] \notin {"postmaster", "remove", "remake"}
      /\ \A b \in Apps : Holds(b)' => lock'.held /\ lock'.pid = IF pc'[b] = "pid" THEN None ELSE b
      /\ \A b, c \in Apps : Holds(b)' /\ Holds(c)' => b = c
  BY DEF FreshLock
<1>3. lock'.pid # None => Holds(lock.pid)'
  BY <1>1 DEF FreshLock, Holds
<1>4. QED
  BY <1>2, <1>3 DEF FreshLock

LEMMA LocksKeep ==
    ASSUME OwnerAssumption, IInv, NEW a \in Apps, Locks(a)
    PROVE  IInv'
<1>1. /\ UNCHANGED <<alive, cluster, guardian, crashed>> /\ alive[a]
      /\ pc[a] \in {"idle", "owner", "postmaster", "remove", "remake", "pid"}
      /\ \E to \in {"owner", "pid", "postmaster", "refused", "pending", "remove", "remake", "failed", "data"} : Goes(a, to)
      /\ MakesLock(a) \/ pc[a] # "idle"
  BY DEF Locks, MakesLock, ReadsOwner, ReadsPostmaster, RemovesStaleLock, RemakesLock, WritesPid, At
<1>0. PICK to \in {"owner", "pid", "postmaster", "refused", "pending", "remove", "remake", "failed", "data"} : Goes(a, to)
  BY <1>1
<1>2. TypeOK'
  <2>1. pc' \in [Apps -> Places]
    BY <1>0, Moves DEF IInv, Places, Over
  <2>2. LockOK'
    <3>1. LockOK /\ (UNCHANGED lock \/ lock' = Free \/ lock' = Held(None) \/ lock' = Held(a))
      BY DEF IInv, TypeOK, Locks, MakesLock, ReadsOwner, ReadsPostmaster, RemovesStaleLock, RemakesLock, WritesPid
    <3>2. \A p \in Apps \cup {None} : {Free, Held(p)} \subseteq [held : BOOLEAN, pid : Apps \cup {None}]
      BY DEF Free, Held
    <3>3. QED
      BY <3>1, <3>2 DEF LockOK
  <2>3. QED
    BY <1>1, <2>1, <2>2 DEF IInv, TypeOK, cluster
<1>3. /\ pc \in [Apps -> Places]
      /\ pc'[a] \in {"owner", "pid", "postmaster", "refused", "pending", "remove", "remake", "failed", "data"}
      /\ \A b \in Apps \ {a} : pc'[b] = pc[b]
  BY <1>0, Moves DEF IInv, TypeOK, Places, Over
<1>4. NoneIsLeftRunning' /\ Guarded'
  BY <1>1, <1>3 DEF IInv, NoneIsLeftRunning, Guarded, cluster
<1>5. ASSUME ~crashed
      PROVE  FreshLock'
  <2>1. FreshLock
    BY <1>5 DEF IInv
  <2>2. lock.pid \in Apps \cup {None} /\ None \notin Apps
    BY DEF OwnerAssumption, IInv, TypeOK, LockOK
  <2>3. CASE MakesLock(a) /\ ~lock.held
    <3>1. pc' = [pc EXCEPT ![a] = "pid"] /\ lock' = Held(None)
      BY <2>3 DEF MakesLock, Goes
    <3>2. pc'[a] = "pid" /\ lock'.held /\ lock'.pid = None
      BY <3>1, <1>3 DEF Held
    <3>3. \A b \in Apps \ {a} : ~Holds(b)'
      BY <1>3, <2>1, <2>3 DEF FreshLock, Holds
    <3>4. QED
      BY <1>1, <1>3, <2>1, <3>2, <3>3 DEF FreshLock
  <2>4. CASE MakesLock(a) /\ lock.held
    <3>1. pc'[a] = "owner" /\ UNCHANGED lock /\ pc[a] = "idle"
      BY <2>4, <1>3 DEF MakesLock, Goes, IInv, TypeOK, At
    <3>2. QED
      BY <1>1, <1>3, <2>1, <3>1, FreshStays DEF IInv, FreshLock, Holds
  <2>5. CASE ReadsOwner(a)
    <3>1. ~OwnerLooksDead
      BY <2>1, <2>2 DEF FreshLock, OwnerLooksDead, AppAlive, Holds
    <3>2. pc'[a] = "refused" /\ UNCHANGED lock /\ pc[a] = "owner"
      BY <2>5, <3>1, <1>3 DEF ReadsOwner, Goes, IInv, TypeOK, At
    <3>3. QED
      BY <1>1, <1>3, <2>1, <3>2, FreshStays DEF IInv, FreshLock, Holds
  <2>6. CASE WritesPid(a)
    <3>1. pc[a] = "pid" /\ Holds(a) /\ lock.held
      BY <2>1, <2>6 DEF WritesPid, At, FreshLock, Holds
    <3>2. pc'[a] = "data" /\ lock' = Held(a)
      BY <2>6, <3>1, <1>3 DEF WritesPid, Goes, IInv, TypeOK
    <3>3. \A b \in Apps \ {a} : ~Holds(b)'
      BY <1>3, <2>1, <3>1 DEF FreshLock, Holds
    <3>4. Holds(a)' /\ lock'.held /\ lock'.pid = a
      BY <3>2 DEF Holds, Held
    <3>5. QED
      BY <1>1, <1>3, <2>1, <3>2, <3>3, <3>4 DEF FreshLock
  <2>7. QED
    BY <2>1, <2>3, <2>4, <2>5, <2>6
    DEF Locks, FreshLock, ReadsPostmaster, RemovesStaleLock, RemakesLock, At
<1>6. ASSUME ~Together
      PROVE  OneAtATime' /\ OpenIsServed'
  <2>1. OneAtATime /\ OpenIsServed
    BY <1>6 DEF IInv
  <2>2. \A b \in Apps \ {a} : Working(b)' <=> Working(b)
    BY <1>1, <1>3 DEF Working
  <2>3. Working(a) \/ \A b \in Apps \ {a} : ~Working(b)
    BY <1>1, <1>6 DEF Working, MakesLock, Over
  <2>4. OneAtATime'
    BY <2>1, <2>2, <2>3 DEF OneAtATime
  <2>5. OpenIsServed'
    BY <1>1, <1>3, <2>1 DEF OpenIsServed, At, cluster
  <2>6. QED
    BY <2>4, <2>5
<1>7. QED
  BY <1>1, <1>2, <1>4, <1>5, <1>6 DEF IInv

LEMMA StartsKeep ==
    ASSUME OwnerAssumption, IInv, NEW a \in Apps, Starts(a)
    PROVE  IInv'
<1>1. /\ UNCHANGED <<alive, lock, pidfile, crashed>> /\ alive[a]
      /\ pc[a] \in {"data", "initdb", "spawn", "wait", "open"}
      /\ \E to \in {"initdb", "spawn", "wait", "open", "stop"} : Goes(a, to)
  BY DEF Starts, PreparesData, InitdbEnds, SpawnsServer, Opens, StartFails, Closes, At, cluster
<1>0. PICK to \in {"initdb", "spawn", "wait", "open", "stop"} : Goes(a, to)
  BY <1>1
<1>2. /\ pc \in [Apps -> Places]
      /\ pc' \in [Apps -> Places]
      /\ pc'[a] \in {"initdb", "spawn", "wait", "open", "stop"}
      /\ \A b \in Apps \ {a} : pc'[b] = pc[b]
  BY <1>0, Moves DEF IInv, TypeOK, Places
<1>3. /\ \A b \in Apps \ {a} : pg'[b] = pg[b] /\ guardian'[b] = guardian[b]
      /\ pc'[a] = "wait" => guardian'[a] = "watching"
      /\ pc'[a] = "open" => guardian'[a] = guardian[a] /\ pc[a] = "wait" /\ pg'[a] = "up"
  <2>1. CASE SpawnsServer(a)
    BY <1>2, <2>1 DEF IInv, TypeOK, SpawnsServer, Goes
  <2>2. CASE Opens(a)
    BY <1>2, <2>2 DEF IInv, TypeOK, Opens, At, Goes, cluster
  <2>3. CASE PreparesData(a) \/ InitdbEnds(a) \/ StartFails(a) \/ Closes(a)
    BY <2>3 DEF IInv, TypeOK, PreparesData, InitdbEnds, StartFails, Closes, Goes, cluster
  <2>4. QED
    BY <2>1, <2>2, <2>3 DEF Starts
<1>4. TypeOK'
  <2>1. CASE SpawnsServer(a)
    BY <1>1, <1>2, <2>1 DEF IInv, TypeOK, LockOK, SpawnsServer, Running
  <2>2. CASE ~SpawnsServer(a)
    BY <1>1, <1>2, <2>2 DEF IInv, TypeOK, LockOK, Starts, PreparesData, InitdbEnds, Opens, StartFails, Closes, cluster
  <2>3. QED
    BY <2>1, <2>2
<1>5. NoneIsLeftRunning' /\ Guarded'
  BY <1>1, <1>2, <1>3 DEF IInv, NoneIsLeftRunning, Guarded
<1>6. ~crashed => FreshLock'
  BY <1>1, <1>2, FreshStays DEF IInv, FreshLock, Holds
<1>7. ~Together => OneAtATime' /\ OpenIsServed'
  BY <1>1, <1>2, <1>3 DEF IInv, OneAtATime, OpenIsServed, Working, At, Over
<1>8. QED
  BY <1>1, <1>4, <1>5, <1>6, <1>7 DEF IInv

LEMMA EndsKeep ==
    ASSUME OwnerAssumption, IInv, NEW a \in Apps, Ends(a)
    PROVE  IInv'
<1>1. CASE StopsServer(a)
  <2>1. /\ UNCHANGED <<alive, lock, data, pidfile, guardian, crashed>> /\ At(a, "stop") /\ Goes(a, "confirm")
        /\ pc' = [pc EXCEPT ![a] = "confirm"]
    BY <1>1 DEF StopsServer, Goes
  <2>2. UNCHANGED pg \/ \E t \in Apps : Signalled(t)
    BY <1>1 DEF StopsServer, IInv, TypeOK, PgAlive
  <2>3. /\ pg' \in [Apps -> Running \cup {"none", "dead"}]
        /\ \A b \in Apps : (pg'[b] = "none" <=> pg[b] = "none") /\ (pg'[b] \in Running => pg[b] \in Running)
    BY <2>2, SignalledOnly DEF IInv, TypeOK
  <2>4. TypeOK' /\ NoneIsLeftRunning' /\ Guarded'
    BY <2>1, <2>3 DEF IInv, TypeOK, LockOK, NoneIsLeftRunning, Guarded, Places
  <2>5. ~crashed => FreshLock'
    BY <2>1, FreshStays DEF IInv, TypeOK, FreshLock, At, Holds
  <2>6. ASSUME ~Together
        PROVE  OneAtATime' /\ OpenIsServed'
    <3>1. \A b \in Apps : Working(b)' <=> Working(b)
      BY <2>1 DEF IInv, TypeOK, Working, At, Over
    <3>2. \A b \in Apps \ {a} : ~At(b, "open")
      BY <2>1, <2>6 DEF IInv, OneAtATime, Working, At, Over
    <3>3. QED
      BY <2>1, <2>6, <3>1, <3>2 DEF IInv, TypeOK, OneAtATime, OpenIsServed, At
  <2>7. QED
    BY <2>1, <2>4, <2>5, <2>6 DEF IInv
<1>2. CASE ConfirmsStop(a)
  <2>1. /\ UNCHANGED <<alive, lock, cluster, crashed>> /\ At(a, "confirm")
        /\ \/ pc' = [pc EXCEPT ![a] = "unlock"] /\ pg[a] \notin Running
              /\ guardian' = [guardian EXCEPT ![a] = IF @ = "watching" THEN "told" ELSE @]
           \/ pc' = [pc EXCEPT ![a] = "stop failed"] /\ UNCHANGED guardian
    BY <1>2 DEF ConfirmsStop, ServerConfirmed, Goes
  <2>2. TypeOK' /\ NoneIsLeftRunning' /\ Guarded'
    BY <2>1 DEF IInv, TypeOK, LockOK, Places, Over, NoneIsLeftRunning, Guarded, cluster
  <2>3. ASSUME ~crashed
        PROVE  FreshLock'
    <3>1. FreshLock /\ pc[a] = "confirm" /\ Holds(a)
      BY <2>1, <2>3 DEF IInv, At, Holds
    <3>2. pc'[a] \in {"unlock", "stop failed"} /\ \A b \in Apps \ {a} : pc'[b] = pc[b]
      BY <2>1 DEF IInv, TypeOK
    <3>3. QED
      BY <2>1, <3>1, <3>2, FreshStays DEF IInv, FreshLock, Holds
  <2>4. ~Together => OneAtATime' /\ OpenIsServed'
    BY <2>1 DEF IInv, TypeOK, OneAtATime, OpenIsServed, Working, At, Over, cluster
  <2>5. QED
    BY <2>1, <2>2, <2>3, <2>4 DEF IInv
<1>3. CASE Unlocks(a)
  <2>1. /\ UNCHANGED <<alive, cluster, guardian, crashed>> /\ At(a, "unlock") /\ lock' = Free
        /\ pc' = [pc EXCEPT ![a] = "closed"]
    BY <1>3 DEF Unlocks, Goes
  <2>2. TypeOK' /\ NoneIsLeftRunning' /\ Guarded'
    BY <2>1 DEF IInv, TypeOK, LockOK, Free, NoneIsLeftRunning, Guarded, At, Places, Over, cluster
  <2>3. ASSUME ~crashed
        PROVE  FreshLock'
    <3>1. FreshLock /\ pc[a] = "unlock" /\ Holds(a)
      BY <2>1, <2>3 DEF IInv, At, Holds
    <3>2. \A b \in Apps : ~Holds(b)'
      BY <2>1, <3>1 DEF IInv, TypeOK, FreshLock, Holds
    <3>3. lock'.pid = None
      BY <2>1 DEF Free
    <3>4. QED
      BY <2>1, <3>1, <3>2, <3>3 DEF IInv, TypeOK, FreshLock
  <2>4. ~Together => OneAtATime' /\ OpenIsServed'
    BY <2>1 DEF IInv, TypeOK, OneAtATime, OpenIsServed, Working, At, Over, cluster
  <2>5. QED
    BY <2>1, <2>2, <2>3, <2>4 DEF IInv
<1>4. CASE Crash(a)
  BY <1>4 DEF Crash, IInv, TypeOK, LockOK, NoneIsLeftRunning, Guarded, OneAtATime, OpenIsServed, Working, At, cluster
<1>5. QED
  BY <1>1, <1>2, <1>3, <1>4 DEF Ends

LEMMA ServesKeep ==
    ASSUME OwnerAssumption, IInv, NEW a \in Apps, Serves(a)
    PROVE  IInv'
<1>1. UNCHANGED <<pc, alive, lock, data, crashed>>
  BY DEF Serves, ServerStarts, ServerEnds, GuardianStops
<1>2. /\ pg' \in [Apps -> Running \cup {"none", "dead"}] /\ pidfile' \in Apps \cup {None}
      /\ \A b \in Apps : (pg'[b] = "none" <=> pg[b] = "none") /\ (pg'[b] \in Running => pg[b] \in Running)
      /\ \A b \in Apps : pg[b] = "up" /\ pg'[b] # "up" => GuardianStops(b)
  <2>1. CASE ServerStarts(a) \/ ServerEnds(a)
    BY <2>1 DEF IInv, TypeOK, ServerStarts, ServerEnds, Running
  <2>2. CASE GuardianStops(a) /\ Target(a) = a
    BY <2>2, SignalledOnly DEF IInv, TypeOK, GuardianStops
  <2>3. CASE GuardianStops(a) /\ Target(a) = None
    BY <2>3 DEF IInv, TypeOK, GuardianStops
  <2>4. QED
    BY <2>1, <2>2, <2>3 DEF Serves, Target
<1>3. /\ guardian' \in [Apps -> {"none", "watching", "told", "done"}]
      /\ \A b \in Apps : guardian'[b] = "none" <=> guardian[b] = "none"
      /\ \A b \in Apps : guardian'[b] # guardian[b] => Wakes(b)
  BY DEF IInv, TypeOK, Serves, ServerStarts, ServerEnds, GuardianStops, Wakes
<1>4. TypeOK' /\ NoneIsLeftRunning'
  BY <1>1, <1>2, <1>3 DEF IInv, TypeOK, LockOK, NoneIsLeftRunning
<1>5. Guarded'
  BY <1>1, <1>3 DEF IInv, Guarded, Wakes
<1>6. ~crashed => FreshLock'
  BY <1>1 DEF IInv, FreshLock, Holds
<1>7. ~Together => OneAtATime' /\ OpenIsServed'
  BY <1>1, <1>2 DEF IInv, OneAtATime, OpenIsServed, Working, At, Guarded, GuardianStops, Wakes
<1>8. QED
  BY <1>1, <1>4, <1>5, <1>6, <1>7 DEF IInv

LEMMA NextIInv == OwnerAssumption /\ IInv /\ [Next]_vars => IInv'
<1> SUFFICES ASSUME OwnerAssumption, IInv, [Next]_vars PROVE IInv'
  OBVIOUS
<1>1. CASE UNCHANGED vars
  BY <1>1 DEF IInv, vars, cluster, TypeOK, LockOK, NoneIsLeftRunning, Guarded, FreshLock, OneAtATime, OpenIsServed, Working, At, Holds
<1>2. ASSUME NEW a \in Apps, Locks(a) \/ Starts(a) \/ Ends(a) \/ Serves(a)
      PROVE  IInv'
  BY <1>2, LocksKeep, StartsKeep, EndsKeep, ServesKeep
<1>3. QED
  BY <1>1, <1>2 DEF Next, Locks, Starts, Ends, Serves

LEMMA FreshIsExclusive == IInv => FreshLockIsExclusive
  BY DEF IInv, FreshLock, FreshLockIsExclusive, Owning, Holds

\* The invariant of lock, applications, servers and guardians, for any number of
\* applications, killed at any moment.
THEOREM Invariance == ASSUME OwnerAssumption PROVE Spec => []IInv
  BY InitIInv, NextIInv, PTL DEF Spec

\* The variables keep their types, and every server has a guardian.
THEOREM TypeCorrectness == ASSUME OwnerAssumption PROVE Spec => []TypeOK
<1>1. IInv => TypeOK
  BY DEF IInv
<1>2. QED
  BY <1>1, Invariance, PTL

\* An application that has given the directory back has left no server in it, however
\* many applications there are and whoever of them was killed.
THEOREM NothingLeft == ASSUME OwnerAssumption PROVE Spec => []NoneIsLeftRunning
<1>1. IInv => NoneIsLeftRunning
  BY DEF IInv
<1>2. QED
  BY <1>1, Invariance, PTL

\* While nobody was killed, one application at most owns the directory, however many
\* start at once.
THEOREM FreshExclusion == ASSUME OwnerAssumption PROVE Spec => []FreshLockIsExclusive
  BY FreshIsExclusive, Invariance, PTL

\* If applications are started one after another, nobody stops the server of the one
\* that is open: no guardian of one that was killed, however late it wakes.
THEOREM OpenServer == ASSUME OwnerAssumption, ~Together PROVE Spec => []OpenIsServed
<1>1. IInv => OpenIsServed
  BY DEF IInv
<1>2. QED
  BY <1>1, Invariance, PTL

------------------------------------------------------------------------------
(***************************************************************************)
(* The import of a legacy store                                            *)
(***************************************************************************)
\* Nothing is recorded before the importer has run.
LEMMA ImportInitIInv == ImportAssumption /\ ImportInit => ImportIInv
<1> SUFFICES ASSUME ImportAssumption, ImportInit PROVE ImportIInv
  OBVIOUS
<1>1. written \in 0..MaxWrites /\ crashes \in 0..MaxCrashes
  BY DEF ImportAssumption, ImportInit
<1> QED  BY <1>1 DEF ImportInit, ImportIInv, ImportTypeOK, RecordIsComplete, WorkIsCurrent, MarkerIsLast

\* The importer reads, copies, commits and publishes.
Imports == ImportBegins \/ FindsRecord \/ FindsNoRecord \/ CopiesObject \/ Commits \/ Publishes \/ Retries

\* While the importer works the application does not, so what was looked at stands.
LEMMA ImportsKeep ==
  ASSUME ImportAssumption, ImportIInv, Imports
  PROVE  ImportIInv' /\ ServerRowsStayStep
<1> USE DEF ImportIInv, ImportTypeOK, RecordIsComplete, WorkIsCurrent, MarkerIsLast, progress, destination,
            ServerRowsStayStep
<1>1. CASE ImportBegins
  BY <1>1 DEF ImportBegins
<1>2. CASE FindsRecord
  BY <1>2 DEF FindsRecord, SameSnapshot, Recorded
<1>3. CASE FindsNoRecord
  BY <1>3 DEF FindsNoRecord, DestinationEmpty, Recorded
<1>4. CASE CopiesObject
  <2>1. PICK s \in left : Copies(s)
    BY <1>4 DEF CopiesObject
  <2>2. CASE s \in damaged
    BY <1>4, <2>1, <2>2 DEF CopiesObject, Copies
  <2>3. CASE s \notin damaged
    BY <1>4, <2>1, <2>3 DEF CopiesObject, Copies
  <2> QED  BY <2>2, <2>3
<1>5. CASE Commits
  BY <1>5 DEF Commits, ImportAssumption
<1>6. CASE Publishes
  BY <1>6 DEF Publishes
<1>7. CASE Retries
  BY <1>7 DEF Retries
<1> QED  BY <1>1, <1>2, <1>3, <1>4, <1>5, <1>6, <1>7 DEF Imports

\* Nobody else writes what is imported.
LEMMA ImportNextIInv ==
  ASSUME ImportAssumption, ImportIInv, [ImportNext]_importVars
  PROVE  ImportIInv' /\ ServerRowsStayStep
<1> USE DEF ImportIInv, ImportTypeOK, RecordIsComplete, WorkIsCurrent, MarkerIsLast, progress, destination,
            ServerRowsStayStep
<1>1. CASE OldAppSaves
  BY <1>1 DEF OldAppSaves
<1>2. CASE ImportCrash
  BY <1>2 DEF ImportCrash, ImportAssumption
<1>3. CASE AppStarts
  BY <1>3 DEF AppStarts, MayOpen
<1>4. CASE AppWrites
  BY <1>4 DEF AppWrites, ImportAssumption
<1>5. CASE AppStops
  BY <1>5 DEF AppStops
<1>6. CASE UNCHANGED importVars
  BY <1>6 DEF importVars
<1> QED  BY <1>1, <1>2, <1>3, <1>4, <1>5, <1>6, ImportsKeep DEF ImportNext, Imports

\* What the application serves, and what an import reports, follows.
LEMMA ImportIsWhole ==
  ASSUME ImportAssumption, ImportIInv
  PROVE  ServedIsWhole /\ ReportedIsImported
  BY DEF ImportAssumption, ImportIInv, ImportTypeOK, RecordIsComplete, WorkIsCurrent, MarkerIsLast, ServedIsWhole,
         ReportedIsImported

\* The application never serves a directory whose rows or objects are not all there, and an
\* import that reports success has imported what it read, wherever it was killed before.
THEOREM ImportsAreWhole ==
  ASSUME ImportAssumption
  PROVE  ImportSpec => [](ImportTypeOK /\ ServedIsWhole /\ ReportedIsImported) /\ ServerRowsStay
<1>1. ImportIInv => ImportTypeOK /\ ServedIsWhole /\ ReportedIsImported
  BY ImportIsWhole DEF ImportIInv
<1>2. ImportIInv /\ [ImportNext]_importVars => ImportIInv' /\ [ServerRowsStayStep]_importVars
  BY ImportNextIInv
<1> QED  BY <1>1, <1>2, ImportInitIInv, PTL DEF ImportSpec, ServerRowsStay

------------------------------------------------------------------------------
(***************************************************************************)
(* The evidence: objects, and the sources that name them                   *)
(***************************************************************************)
\* At first there is neither a file nor an object.
LEMMA StoreInitIInv == StoreAssumption /\ StoreInit => StoreIInv
<1> SUFFICES ASSUME StoreAssumption, StoreInit PROVE StoreIInv
  OBVIOUS
<1>1. /\ \A w \in Writers : put[w].at = "idle"
      /\ \A c \in Contents : object[c] = [data |-> NoFile, entry |-> "none"] /\ published[c] = 0
  BY DEF StoreInit, Idle
<1>2. StoreTypeOK
  BY DEF StoreInit, StoreTypeOK, Turns, Idle, NoFile
<1>3. LinksWhole /\ MetIsThere /\ OneLinks
  BY <1>1 DEF LinksWhole, MetIsThere, OneLinks, Exists, Met
<1>4. PublishedOnce /\ PublicationSurvives
  BY <1>1 DEF PublishedOnce, PublicationSurvives
<1> QED  BY <1>2, <1>3, <1>4 DEF StoreIInv

\* A turn of one writer's put leaves the others where they are.
LEMMA PutTurns ==
  ASSUME StoreTypeOK, NEW w \in Writers, NEW at \in Turns, PutGoes(w, at)
  PROVE  /\ put' \in [Writers -> [at : Turns, content : Contents \cup {NoContent}]]
         /\ put'[w].at = at /\ put'[w].content = put[w].content
         /\ \A v \in Writers \ {w} : put'[v] = put[v]
  BY DEF StoreTypeOK, PutGoes

\* A put that moves on without touching an object or a file.
LEMMA PutsKeep ==
  ASSUME StoreIInv, NEW w \in Writers, NEW c \in Contents \cup {NoContent}, NEW at \in Turns \ {"link", "syncdir"},
         put' = [put EXCEPT ![w] = [at |-> at, content |-> c]], at # "idle" => c \in Contents,
         at \in Met => Exists(c), file' \in [Writers -> {NoFile, "empty", "written", "synced"}],
         \A v \in Writers \ {w} : file'[v] = file[v], UNCHANGED <<object, published, cut>>
  PROVE  StoreIInv'
<1> USE DEF StoreIInv
<1>1. StoreTypeOK'
  BY DEF StoreTypeOK
<1>2. put'[w] = [at |-> at, content |-> c] /\ \A v \in Writers \ {w} : put'[v] = put[v]
  BY DEF StoreTypeOK
<1>3. LinksWhole' /\ MetIsThere'
  BY <1>2 DEF LinksWhole, MetIsThere, Exists
<1>4. OneLinks' /\ PublishedOnce' /\ PublicationSurvives'
  BY <1>2 DEF OneLinks, PublishedOnce, PublicationSurvives, Exists
<1> QED  BY <1>1, <1>3, <1>4

\* Two writers do not link one content: who comes second finds it.
LEMMA LinksKeep ==
  ASSUME StoreAssumption, StoreIInv, NEW w \in Writers, Links(w)
  PROVE  StoreIInv' /\ \A c \in Contents : Exists(c) => Exists(c)'
<1> USE DEF StoreIInv
<1> DEFINE c == put[w].content
<1>1. c \in Contents /\ file[w] = "synced" /\ UNCHANGED <<file, published, cut>>
  BY DEF Links, MetIsThere, LinksWhole
<1>2. CASE Exists(c)
  <2>1. PutGoes(w, "exists") /\ UNCHANGED object
    BY <1>2 DEF Links
  <2>2. put' = [put EXCEPT ![w] = [at |-> "exists", content |-> c]]
    <3>1. put' = [put EXCEPT ![w] = [put[w] EXCEPT !.at = "exists"]]
      BY <2>1 DEF PutGoes
    <3>2. [put[w] EXCEPT !.at = "exists"] = [at |-> "exists", content |-> c]
      BY DEF StoreTypeOK
    <3> QED  BY <3>1, <3>2
  <2> QED  BY <1>1, <1>2, <2>1, <2>2, PutsKeep DEF Turns, StoreTypeOK, Exists
<1>3. CASE ~Exists(c)
  <2>1. PutGoes(w, "syncdir") /\ object' = [object EXCEPT ![c] = [data |-> "synced", entry |-> "cached"]]
    BY <1>1, <1>3 DEF Links
  <2>2. /\ put' \in [Writers -> [at : Turns, content : Contents \cup {NoContent}]]
        /\ put'[w].at = "syncdir" /\ put'[w].content = c /\ \A v \in Writers \ {w} : put'[v] = put[v]
    BY <2>1, PutTurns DEF Turns
  <2>3. /\ object'[c] = [data |-> "synced", entry |-> "cached"] /\ \A d \in Contents \ {c} : object'[d] = object[d]
        /\ StoreTypeOK'
    BY <1>1, <2>1, <2>2 DEF StoreTypeOK
  <2>4. \A d \in Contents : Exists(d)' <=> Exists(d) \/ d = c
    BY <2>3 DEF Exists
  <2>5. LinksWhole' /\ MetIsThere'
    <3>1. LinksWhole'
      BY <1>1, <2>2, <2>3, <2>4 DEF LinksWhole
    <3>2. MetIsThere'
      BY <1>1, <2>2, <2>4 DEF MetIsThere, Met
    <3> QED  BY <3>1, <3>2
  <2>6. OneLinks'
    <3>1. \A v \in Writers : put[v].at = "syncdir" => put[v].content # c
      BY <1>3 DEF MetIsThere, Met
    <3>2. ~cut => published[c] = 0
      BY <1>1, <1>3 DEF OneLinks, StoreTypeOK
    <3> QED  BY <1>1, <2>2, <2>4, <3>1, <3>2 DEF OneLinks
  <2>7. PublishedOnce' /\ PublicationSurvives'
    <3>1. DirectorySync => published[c] = 0
      BY <1>1, <1>3 DEF PublicationSurvives, Exists, StoreTypeOK
    <3> QED  BY <1>1, <2>3, <3>1 DEF PublishedOnce, PublicationSurvives
  <2> QED  BY <2>3, <2>4, <2>5, <2>6, <2>7
<1> QED  BY <1>2, <1>3

\* Who has linked an object reports it once its entry is on the disk.
LEMMA PublishesKeep ==
  ASSUME StoreAssumption, StoreIInv, NEW w \in Writers, SyncsDirectory(w)
  PROVE  StoreIInv' /\ \A c \in Contents : Exists(c) => Exists(c)'
<1> USE DEF StoreIInv
<1> DEFINE c == put[w].content
<1>1. c \in Contents /\ Exists(c) /\ put[w].at = "syncdir" /\ UNCHANGED <<file, cut>>
  BY DEF SyncsDirectory, MetIsThere, Met
<1>2. /\ put' \in [Writers -> [at : Turns, content : Contents \cup {NoContent}]]
      /\ put'[w].at = "unlink" /\ put'[w].content = c /\ \A v \in Writers \ {w} : put'[v] = put[v]
  BY PutTurns DEF Turns, SyncsDirectory
<1>3. /\ published' = [published EXCEPT ![c] = @ + 1]
      /\ object' = IF DirectorySync THEN [object EXCEPT ![c].entry = "stored"] ELSE object
  BY <1>1 DEF SyncsDirectory
<1>4. /\ StoreTypeOK' /\ \A d \in Contents : object'[d].data = object[d].data /\ (Exists(d)' <=> Exists(d))
      /\ DirectorySync => object'[c].entry = "stored"
      /\ \A d \in Contents \ {c} : object'[d] = object[d] /\ published'[d] = published[d]
      /\ published'[c] = published[c] + 1
  BY <1>1, <1>2, <1>3 DEF StoreTypeOK, Exists
<1>5. LinksWhole' /\ MetIsThere'
  BY <1>1, <1>2, <1>4 DEF LinksWhole, MetIsThere, Met
<1>6. OneLinks'
  BY <1>1, <1>2, <1>4 DEF OneLinks
<1>7. PublishedOnce'
  <2>1. ~cut => published[c] = 0
    BY <1>1 DEF OneLinks, StoreTypeOK
  <2> QED  BY <1>1, <1>4, <2>1 DEF PublishedOnce
<1>8. PublicationSurvives'
  BY <1>1, <1>4 DEF PublicationSurvives
<1> QED  BY <1>4, <1>5, <1>6, <1>7, <1>8

\* A turn of a put keeps what makes publications whole, and removes no object.
LEMMA PutStepKeeps ==
  ASSUME StoreAssumption, StoreIInv, NEW w \in Writers, PutStep(w)
  PROVE  StoreIInv' /\ \A c \in Contents : Exists(c) => Exists(c)'
<1> USE DEF StoreIInv
<1> DEFINE c == put[w].content
<1>1. /\ put[w] = [at |-> put[w].at, content |-> c] /\ c \in Contents \cup {NoContent}
      /\ put[w].at # "idle" => c \in Contents
      /\ \A at \in Turns : PutGoes(w, at) => put' = [put EXCEPT ![w] = [at |-> at, content |-> c]]
  BY DEF StoreTypeOK, MetIsThere, PutGoes
<1>2. CASE Looks(w)
  <2>1. /\ UNCHANGED <<file, object, published, cut>>
        /\ \E at \in {"create", "done", "idle"} : PutGoes(w, at) /\ (at = "done" => Exists(c))
    BY <1>2 DEF Looks
  <2> QED  BY <1>1, <1>2, <2>1, PutsKeep DEF Looks, Turns, StoreTypeOK, Met, Exists
<1>3. CASE Creates(w) \/ WritesFile(w)
  <2>1. /\ file' \in [Writers -> {NoFile, "empty", "written", "synced"}]
        /\ \A v \in Writers \ {w} : file'[v] = file[v]
        /\ \E at \in {"write", "sync"} : PutGoes(w, at)
        /\ put[w].at # "idle" /\ UNCHANGED <<object, published, cut>>
    BY <1>3 DEF Creates, WritesFile, StoreTypeOK
  <2> QED  BY <1>1, <2>1, PutsKeep DEF Turns, Met, Exists
<1>4. CASE Syncs(w)
  <2>1. /\ put' = [put EXCEPT ![w] = [at |-> "link", content |-> c]] /\ c \in Contents
        /\ file' = [file EXCEPT ![w] = "synced"] /\ UNCHANGED <<object, published, cut>>
    BY <1>1, <1>4 DEF Syncs, Turns
  <2> QED  BY <2>1 DEF StoreTypeOK, Turns, LinksWhole, MetIsThere, OneLinks, PublishedOnce, PublicationSurvives, Met,
                       Exists
<1>5. CASE Loses(w) \/ Unlinks(w)
  <2>1. /\ file' \in [Writers -> {NoFile, "empty", "written", "synced"}]
        /\ \A v \in Writers \ {w} : file'[v] = file[v]
        /\ \E at \in {"unlink", "done"} : PutGoes(w, at)
        /\ put[w].at \in Met /\ UNCHANGED <<object, published, cut>>
    BY <1>5 DEF Loses, Unlinks, StoreTypeOK, Met
  <2>2. Exists(c) /\ c \in Contents
    BY <1>1, <2>1 DEF MetIsThere, Met
  <2> QED  BY <1>1, <2>1, <2>2, PutsKeep DEF Turns, Exists
<1>6. CASE PutFails(w)
  <2>1. /\ file' \in [Writers -> {NoFile, "empty", "written", "synced"}]
        /\ \A v \in Writers \ {w} : file'[v] = file[v]
        /\ put' = [put EXCEPT ![w] = [at |-> "idle", content |-> NoContent]]
        /\ UNCHANGED <<object, published, cut>>
    BY <1>6 DEF PutFails, StoreTypeOK, Idle
  <2> QED  BY <2>1, PutsKeep DEF Turns, Met, Exists
<1> QED  BY <1>2, <1>3, <1>4, <1>5, <1>6, LinksKeep, PublishesKeep DEF PutStep

\* A put that begins, or whose caller has its answer.
LEMMA PutCallsKeep ==
  ASSUME StoreIInv, NEW w \in Writers, (\E c \in Contents : PutBegins(w, c)) \/ PutReturns(w)
  PROVE  StoreIInv' /\ \A c \in Contents : Exists(c) => Exists(c)'
<1>1. file \in [Writers -> {NoFile, "empty", "written", "synced"}]
  BY DEF StoreIInv, StoreTypeOK
<1>2. CASE \E c \in Contents : PutBegins(w, c)
  BY <1>1, <1>2, PutsKeep DEF PutBegins, Turns, Met, Exists
<1>3. CASE PutReturns(w)
  BY <1>1, <1>3, PutsKeep DEF PutReturns, Idle, Turns, Met, Exists
<1> QED  BY <1>2, <1>3

\* A crash ends the puts and leaves the objects.
LEMMA CrashKeeps ==
  ASSUME StoreIInv, StoreCrash
  PROVE  StoreIInv' /\ UNCHANGED object
  BY DEF StoreIInv, StoreCrash, StoreTypeOK, Turns, LinksWhole, MetIsThere, OneLinks, PublishedOnce,
         PublicationSurvives, Idle, NoFile, Exists, Met

\* The power takes entries that nobody was told of, and no data that was synced.
LEMMA PowerKeeps == ASSUME StoreIInv, PowerFailure PROVE StoreIInv'
<1> USE DEF StoreIInv
<1>1. PICK lost \in SUBSET {c \in Contents : object[c].entry = "cached"} :
          object' = [c \in Contents |->
              CASE c \in lost                      -> [data |-> NoFile, entry |-> "none"]
                [] c \notin lost /\ Exists(c)      ->
                      [data |-> IF object[c].data = "written" THEN "torn" ELSE object[c].data, entry |-> "stored"]
                [] OTHER                           -> object[c]]
  BY DEF PowerFailure
<1>2. \A c \in Contents :
          \/ object'[c] = [data |-> NoFile, entry |-> "none"] /\ object[c].entry # "stored"
          \/ object'[c] = [data |-> "synced", entry |-> "stored"]
  BY <1>1 DEF LinksWhole, StoreTypeOK, Exists
<1>3. /\ put' = [w \in Writers |-> Idle] /\ file' = [w \in Writers |-> NoFile] /\ cut' = TRUE /\ UNCHANGED published
      /\ DOMAIN object' = Contents /\ object' = [c \in Contents |-> object'[c]]
  BY <1>1 DEF PowerFailure
<1>4. StoreTypeOK' /\ LinksWhole' /\ MetIsThere'
  BY <1>2, <1>3 DEF StoreTypeOK, LinksWhole, MetIsThere, Turns, Idle, NoFile, Exists, Met
<1>5. OneLinks' /\ PublishedOnce' /\ PublicationSurvives'
  BY <1>2, <1>3 DEF OneLinks, PublishedOnce, PublicationSurvives, Idle
<1> QED  BY <1>4, <1>5

LEMMA StoreNextIInv == StoreAssumption /\ StoreIInv /\ [StoreNext]_storeVars => StoreIInv'
<1> SUFFICES ASSUME StoreAssumption, StoreIInv, [StoreNext]_storeVars PROVE StoreIInv'
  OBVIOUS
<1>1. CASE UNCHANGED storeVars
  BY <1>1 DEF storeVars, StoreIInv, StoreTypeOK, LinksWhole, MetIsThere, OneLinks, PublishedOnce,
              PublicationSurvives, Exists
<1> QED  BY <1>1, PutStepKeeps, PutCallsKeep, CrashKeeps, PowerKeeps DEF StoreNext

\* What has a name has its bytes.
LEMMA StoreIsWhole == StoreIInv => PublishedIsWhole
  BY DEF StoreIInv, LinksWhole, PublishedIsWhole, Whole

\* What has a digest's name has its bytes, one of the writers that race for it reports that
\* it published, and what was reported survives the power where directories can be synced.
THEOREM ObjectsAreKept ==
  ASSUME StoreAssumption
  PROVE  StoreSpec => [](StoreTypeOK /\ PublishedIsWhole /\ PublishedOnce /\ PublicationSurvives)
<1>1. StoreIInv => StoreTypeOK /\ PublishedIsWhole /\ PublishedOnce /\ PublicationSurvives
  BY StoreIsWhole DEF StoreIInv
<1> QED  BY <1>1, StoreInitIInv, StoreNextIInv, PTL DEF StoreSpec

------------------------------------------------------------------------------
LEMMA SourcesInitIInv == StoreAssumption /\ SourcesInit => SourcesIInv
  BY StoreInitIInv DEF SourcesInit, SourcesIInv, SourcesTypeOK, StoreIInv, BytesAreStored, SourcesAreStored,
                       RowsAreComplete

\* While objects stay and the puts of the other uploads are not touched, what is stored
\* for an upload and for the rows stays stored.
LEMMA StoredStays ==
  ASSUME SourcesIInv, StoreIInv', \A c \in Contents : Exists(c) => Exists(c)', SourcesAssumption,
         graph' \in BOOLEAN, upload' \in [Writers -> {"none", "body", "source", "manifest", "row"}],
         sources' \subseteq sources, ~graph' => sources' = {},
         \A w \in Writers : \/ put'[w].at = "idle" \/ upload'[w] \in {"none", "body"}
                            \/ upload'[w] = upload[w] /\ put[w].at # "idle" /\ put'[w].content = put[w].content
  PROVE  SourcesIInv'
<1>1. SourcesTypeOK'
  BY DEF SourcesIInv, SourcesTypeOK, StoreIInv
<1>2. BytesAreStored'
  BY DEF SourcesIInv, BytesAreStored, SourcesAssumption
<1>3. RowsAreComplete'
  BY DEF SourcesIInv, RowsAreComplete
<1>4. SourcesAreStored'
  <2> SUFFICES ASSUME NEW s \in sources', NEW c \in {s.bytes, ManifestOf(s.bytes)}
               PROVE  (Exists(c) /\ object[c].data \in Whole)'
    BY DEF SourcesAreStored
  <2>1. s \in sources /\ s.bytes \in Bytes
    BY DEF SourcesIInv, SourcesTypeOK
  <2>2. c \in Contents
    BY <2>1 DEF SourcesAssumption
  <2>3. Exists(c)
    BY <2>1 DEF SourcesIInv, SourcesAreStored
  <2> QED  BY <2>2, <2>3 DEF StoreIInv, LinksWhole, Whole
<1> QED  BY <1>1, <1>2, <1>3, <1>4 DEF SourcesIInv

\* An upload that goes through its requests.
LEMMA UploadKeeps ==
  ASSUME StoreAssumption, SourcesAssumption, SourcesIInv, NEW w \in Writers,
         UploadBegins(w) \/ UploadFails(w) \/ \E b \in Bytes : BytesArrive(w, b)
  PROVE  SourcesIInv'
<1> USE DEF SourcesIInv
<1>1. CASE UploadBegins(w)
  <2>1. StoreIInv' /\ UNCHANGED object
    BY <1>1, StoreNextIInv DEF UploadBegins, storeVars
  <2> QED  BY <1>1, <2>1, StoredStays DEF UploadBegins, storeVars, Idle, SourcesTypeOK, Exists, RowsAreComplete
<1>2. CASE UploadFails(w)
  <2>1. /\ put' = [put EXCEPT ![w] = Idle] /\ upload' = [upload EXCEPT ![w] = "none"]
        /\ UNCHANGED <<file, object, published, cut, graph, sources>>
    BY <1>2 DEF UploadFails
  <2>2. StoreIInv'
    BY <2>1, PutsKeep DEF Turns, Idle, Met, StoreIInv, StoreTypeOK
  <2> QED  BY <2>1, <2>2, StoredStays DEF Idle, SourcesTypeOK, StoreTypeOK, Exists, RowsAreComplete
<1>3. CASE \E b \in Bytes : BytesArrive(w, b)
  <2>1. PICK b \in Bytes : BytesArrive(w, b)
    BY <1>3
  <2>2. /\ put[w].at = "idle" /\ put' = [put EXCEPT ![w] = [at |-> "look", content |-> b]]
        /\ upload' = [upload EXCEPT ![w] = "source"] /\ UNCHANGED <<file, object, published, cut, graph, sources>>
    BY <2>1 DEF BytesArrive, PutBegins
  <2>3. StoreIInv' /\ \A c \in Contents : Exists(c) => Exists(c)'
    BY <2>1, PutCallsKeep DEF BytesArrive, SourcesAssumption
  <2>4. SourcesTypeOK' /\ RowsAreComplete'
    BY <2>2, <2>3 DEF SourcesTypeOK, StoreIInv, RowsAreComplete
  <2>5. SourcesAreStored'
    BY <2>2 DEF SourcesAreStored, Exists
  <2>6. BytesAreStored'
    BY <2>2 DEF BytesAreStored, Exists, SourcesTypeOK, StoreTypeOK
  <2> QED  BY <2>3, <2>4, <2>5, <2>6
<1> QED  BY <1>1, <1>2, <1>3

\* The first put has returned: the bytes are there.  The manifest is put.
LEMMA ParsesKeeps ==
  ASSUME StoreAssumption, SourcesAssumption, SourcesIInv, NEW w \in Writers, Parses(w)
  PROVE  SourcesIInv'
<1> USE DEF SourcesIInv
<1> DEFINE b == put[w].content
<1>1. /\ put[w].at = "done" /\ put' = [put EXCEPT ![w] = [at |-> "look", content |-> ManifestOf(b)]]
      /\ upload[w] = "source" /\ upload' = [upload EXCEPT ![w] = "manifest"]
      /\ UNCHANGED <<file, object, published, cut, graph, sources>>
  BY DEF Parses, Manifest
<1>2. b \in Bytes /\ ManifestOf(b) \in Contents /\ Exists(b)
  BY <1>1 DEF BytesAreStored, SourcesAssumption, StoreIInv, MetIsThere, Met
<1>3. StoreIInv'
  BY <1>1, <1>2, PutsKeep DEF Turns, Met, StoreIInv, StoreTypeOK
<1>4. SourcesTypeOK' /\ RowsAreComplete' /\ SourcesAreStored'
  BY <1>1, <1>3 DEF SourcesTypeOK, StoreIInv, RowsAreComplete, SourcesAreStored, Exists
<1>5. BytesAreStored'
  BY <1>1, <1>2 DEF BytesAreStored, Exists, SourcesTypeOK, StoreTypeOK
<1> QED  BY <1>3, <1>4, <1>5

\* Both puts have returned: the row names bytes and a manifest that are there.
LEMMA CreatesSourceKeeps ==
  ASSUME StoreAssumption, SourcesAssumption, SourcesIInv, NEW w \in Writers, CreatesSource(w)
  PROVE  SourcesIInv'
<1> USE DEF SourcesIInv
<1>1. PICK b \in Bytes :
          /\ ManifestOf(b) = put[w].content
          /\ sources' = sources \cup {[bytes |-> b, status |-> Status(b), chunks |-> b \in Parseable]}
  BY DEF CreatesSource, Manifest
<1>2. /\ upload[w] = "manifest" /\ put[w].at = "done" /\ graph
      /\ put' = [put EXCEPT ![w] = Idle] /\ upload' = [upload EXCEPT ![w] = "none"]
      /\ UNCHANGED <<file, object, published, cut, graph>>
  BY DEF CreatesSource, GraphIsThere
<1>3. Exists(b) /\ Exists(ManifestOf(b)) /\ ManifestOf(b) \in Contents /\ b \in Contents
  <2>1. \E a \in Bytes : Exists(a) /\ put[w].content = ManifestOf(a)
    BY <1>2 DEF BytesAreStored
  <2> QED  BY <1>1, <1>2, <2>1 DEF SourcesAssumption, StoreIInv, MetIsThere, Met
<1>4. StoreIInv'
  BY <1>2, PutsKeep DEF Turns, Idle, Met, StoreIInv, StoreTypeOK
<1>5. Status(b) \in Statuses /\ (b \in Parseable <=> Status(b) = "PARSED")
  BY DEF Status, Statuses
<1>6. SourcesTypeOK' /\ RowsAreComplete'
  <2>1. PICK p \in BOOLEAN : p = (b \in Parseable)
    <3>1. CASE b \in Parseable
      <4>1. TRUE = (b \in Parseable)
        BY <3>1, Zenon
      <4> QED  BY <4>1, Zenon
    <3>2. CASE b \notin Parseable
      <4>1. FALSE = (b \in Parseable)
        BY <3>2
      <4> QED  BY <4>1, Zenon
    <3> QED  BY <3>1, <3>2
  <2>2. p = TRUE <=> Status(b) = "PARSED"
    BY <1>5, <2>1, Zenon
  <2>3. sources' = sources \cup {[bytes |-> b, status |-> Status(b), chunks |-> p]}
    BY <1>1, <2>1, Zenon
  <2>4. SourcesTypeOK'
    BY <1>2, <1>4, <1>5, <2>3 DEF SourcesTypeOK, StoreIInv
  <2>5. RowsAreComplete'
    BY <1>2, <2>2, <2>3 DEF RowsAreComplete
  <2> QED  BY <2>4, <2>5
<1>7. SourcesAreStored'
  BY <1>1, <1>2, <1>3 DEF SourcesAreStored, Exists, StoreIInv, LinksWhole, Whole
<1>8. BytesAreStored'
  BY <1>2 DEF BytesAreStored, Exists, Idle, SourcesTypeOK, StoreTypeOK
<1> QED  BY <1>4, <1>6, <1>7, <1>8

LEMMA SourcesNextIInv ==
  StoreAssumption /\ SourcesAssumption /\ SourcesIInv /\ [SourcesNext]_sourcesVars => SourcesIInv'
<1> SUFFICES ASSUME StoreAssumption, SourcesAssumption, SourcesIInv, [SourcesNext]_sourcesVars PROVE SourcesIInv'
  OBVIOUS
<1> USE DEF SourcesIInv
<1>1. ASSUME NEW w \in Writers, PutStep(w), UNCHANGED <<graph, upload, sources>> PROVE SourcesIInv'
  <2>1. StoreIInv' /\ \A c \in Contents : Exists(c) => Exists(c)'
    BY <1>1, PutStepKeeps
  <2>2. \A v \in Writers : put'[v].at = "idle" \/ (put[v].at # "idle" /\ put'[v].content = put[v].content)
    <3>1. put[w].at # "idle" /\ (PutFails(w) \/ \E at \in Turns : PutGoes(w, at))
      BY <1>1 DEF PutStep, Looks, Creates, WritesFile, Syncs, Links, Loses, SyncsDirectory, Unlinks, PutFails, Turns
    <3>2. CASE PutFails(w)
      <4>1. put'[w].at = "idle" /\ \A v \in Writers \ {w} : put'[v] = put[v]
        BY <3>2 DEF PutFails, Idle, StoreIInv, StoreTypeOK
      <4> QED  BY <4>1
    <3>3. CASE \E at \in Turns : PutGoes(w, at)
      BY <3>1, <3>3, PutTurns DEF StoreIInv
    <3> QED  BY <3>1, <3>2, <3>3
  <2> QED  BY <1>1, <2>1, <2>2, StoredStays DEF SourcesTypeOK, RowsAreComplete
<1>2. CASE Restart
  <2>1. StoreIInv' /\ UNCHANGED object
    BY <1>2, CrashKeeps DEF Restart
  <2> QED  BY <1>2, <2>1, StoredStays DEF Restart, SourcesTypeOK, RowsAreComplete, Exists
<1>3. CASE DeleteGraph \/ (\E s \in sources : DeleteSource(s)) \/ UNCHANGED sourcesVars
  <2>1. /\ UNCHANGED <<put, file, object, published, cut, upload>> /\ graph' \in BOOLEAN
        /\ sources' \subseteq sources /\ (~graph' => sources' = {})
    BY <1>3 DEF DeleteGraph, DeleteSource, sourcesVars, storeVars, SourcesTypeOK, RowsAreComplete
  <2>2. StoreIInv'
    BY <2>1, StoreNextIInv DEF storeVars
  <2> QED  BY <2>1, <2>2, StoredStays DEF SourcesTypeOK, Exists
<1> QED  BY <1>1, <1>2, <1>3, UploadKeeps, ParsesKeeps, CreatesSourceKeeps DEF SourcesNext

\* A row of the catalog names bytes and a manifest that are there and whole, whichever upload
\* stored them, failed or was cut off; it has chunks when its bytes were parsed and only then,
\* and it does not outlive its graph.
THEOREM SourcesAreKept ==
  ASSUME StoreAssumption, SourcesAssumption
  PROVE  SourcesSpec => [](SourcesTypeOK /\ SourcesAreStored /\ RowsAreComplete)
<1>1. SourcesIInv => SourcesTypeOK /\ SourcesAreStored /\ RowsAreComplete
  BY DEF SourcesIInv
<1> QED  BY <1>1, SourcesInitIInv, SourcesNextIInv, PTL DEF SourcesSpec

------------------------------------------------------------------------------
(***************************************************************************)
(* Transactions over the worker                                            *)
(***************************************************************************)
\* What is written in the open transactions is written in one of them.
LEMMA Parts ==
  ASSUME NEW open \in Seq(SUBSET Nat)
  PROVE  \A x : x \in UNION ToSet(open) <=> \E i \in 1..Len(open) : x \in open[i]
  BY DEF ToSet

LEMMA Prefix ==
  ASSUME NEW S, NEW s \in Seq(S), NEW n \in 0..Len(s)
  PROVE  SubSeq(s, 1, n) \in Seq(S) /\ Len(SubSeq(s, 1, n)) = n /\ \A i \in 1..n : SubSeq(s, 1, n)[i] = s[i]
  OBVIOUS

\* What a request that succeeded makes of the open transactions.
LEMMA AfterOpening ==
  ASSUME NEW m, m.kind \in {"BEGIN", "SAVEPOINT"}, NEW open \in Seq(SUBSET Nat)
  PROVE  /\ After(open, m) \in Seq(SUBSET Nat) /\ Len(After(open, m)) = Len(open) + 1
         /\ After(open, m)[Len(open) + 1] = {} /\ \A i \in 1..Len(open) : After(open, m)[i] = open[i]
<1>1. After(open, m) = Append(open, {})
  BY DEF After
<1>2. {} \in SUBSET Nat
  OBVIOUS
<1>3. /\ Append(open, {}) \in Seq(SUBSET Nat) /\ Len(Append(open, {})) = Len(open) + 1
      /\ \A i \in 1..Len(open) : Append(open, {})[i] = open[i]
      /\ Append(open, {})[Len(open) + 1] = {}
  BY <1>2, AppendProperties
<1>4. QED
  BY <1>1, <1>3

LEMMA AfterWriting ==
  ASSUME NEW open \in Seq(SUBSET Nat), Len(open) > 0, NEW m, m.kind = "write", m.id \in Nat
  PROVE  /\ After(open, m) \in Seq(SUBSET Nat) /\ Len(After(open, m)) = Len(open)
         /\ After(open, m)[Len(open)] = open[Len(open)] \cup {m.id}
         /\ \A i \in 1..Len(open) - 1 : After(open, m)[i] = open[i]
<1>1. After(open, m) = [open EXCEPT ![Len(open)] = open[Len(open)] \cup {m.id}]
  BY DEF After
<1>2. open[Len(open)] \cup {m.id} \in SUBSET Nat
  OBVIOUS
<1> QED  BY <1>1, <1>2

LEMMA AfterJoining ==
  ASSUME NEW open \in Seq(SUBSET Nat), Len(open) > 1, NEW m, m.kind \in {"RELEASE", "RELEASE_AFTER"}
  PROVE  /\ After(open, m) \in Seq(SUBSET Nat) /\ Len(After(open, m)) = Len(open) - 1
         /\ After(open, m)[Len(open) - 1] = open[Len(open) - 1] \cup open[Len(open)]
         /\ \A i \in 1..Len(open) - 2 : After(open, m)[i] = open[i]
<1> DEFINE outer  == SubSeq(open, 1, Len(open) - 2)
           joined == open[Len(open) - 1] \cup open[Len(open)]
<1>1. Len(open) - 2 \in 0..Len(open)
  OBVIOUS
<1>2. outer \in Seq(SUBSET Nat) /\ Len(outer) = Len(open) - 2 /\ \A i \in 1..Len(open) - 2 : outer[i] = open[i]
  BY <1>1, Prefix
<1>3. After(open, m) = Append(outer, joined)
  BY DEF After
<1>4. joined \in SUBSET Nat
  OBVIOUS
<1> HIDE DEF outer, joined
<1>5. /\ Append(outer, joined) \in Seq(SUBSET Nat) /\ Len(Append(outer, joined)) = Len(outer) + 1
      /\ \A i \in 1..Len(outer) : Append(outer, joined)[i] = outer[i]
      /\ Append(outer, joined)[Len(outer) + 1] = joined
  BY <1>2, <1>4, AppendProperties
<1> QED  BY <1>2, <1>3, <1>5 DEF joined

LEMMA AfterUndoing ==
  ASSUME NEW open \in Seq(SUBSET Nat), NEW m, m.kind = "ROLLBACK_TO", m.depth \in 1..Len(open)
  PROVE  /\ After(open, m) \in Seq(SUBSET Nat) /\ Len(After(open, m)) = m.depth
         /\ After(open, m)[m.depth] = {} /\ \A i \in 1..m.depth - 1 : After(open, m)[i] = open[i]
<1> DEFINE outer == SubSeq(open, 1, m.depth - 1)
<1>1. m.depth - 1 \in 0..Len(open)
  OBVIOUS
<1>2. outer \in Seq(SUBSET Nat) /\ Len(outer) = m.depth - 1 /\ \A i \in 1..m.depth - 1 : outer[i] = open[i]
  BY <1>1, Prefix
<1>3. After(open, m) = Append(outer, {}) /\ {} \in SUBSET Nat
  BY DEF After
<1> HIDE DEF outer
<1>4. /\ Append(outer, {}) \in Seq(SUBSET Nat) /\ Len(Append(outer, {})) = Len(outer) + 1
      /\ \A i \in 1..Len(outer) : Append(outer, {})[i] = outer[i]
      /\ Append(outer, {})[Len(outer) + 1] = {}
  BY <1>2, <1>3, AppendProperties
<1> QED  BY <1>2, <1>3, <1>4

\* A rollback to a savepoint forgets the savepoints after it.
LEMMA UndoneAlike ==
  ASSUME NEW open \in Seq(SUBSET Nat), NEW more \in Seq(SUBSET Nat), NEW m, m.kind = "ROLLBACK_TO",
         m.depth \in 1..Len(open), Len(more) >= Len(open), \A i \in 1..Len(open) : more[i] = open[i]
  PROVE  After(more, m) = After(open, m)
<1>1. SubSeq(more, 1, m.depth - 1) = SubSeq(open, 1, m.depth - 1)
  OBVIOUS
<1>2. /\ After(more, m) = Append(SubSeq(more, 1, m.depth - 1), {})
      /\ After(open, m) = Append(SubSeq(open, 1, m.depth - 1), {})
  BY DEF After
<1> QED  BY <1>1, <1>2

LEMMA AfterEnding ==
  ASSUME NEW m, m.kind \in {"COMMIT", "ROLLBACK", "close"}, NEW open \in Seq(SUBSET Nat)
  PROVE  After(open, m) = <<>>
<1>1. /\ m.kind \notin {"BEGIN", "SAVEPOINT"} /\ m.kind # "write"
      /\ m.kind \notin {"RELEASE", "RELEASE_AFTER"} /\ m.kind # "ROLLBACK_TO"
  OBVIOUS
<1> QED  BY <1>1, Zenon DEF After

------------------------------------------------------------------------------
LEMMA ClientInitIInv == ClientAssumption /\ ClientInit => ClientIInv
<1> SUFFICES ASSUME ClientAssumption, ClientInit PROVE ClientIInv
  OBVIOUS
<1>1. ClientTypeOK
  <2>1. request \in [id : Nat, kind : StatementKinds, depth : Nat]
    BY DEF ClientInit, StatementKinds
  <2>2. stack \in Seq(SUBSET Nat) /\ Depth <= MaxDepth
    BY DEF ClientAssumption, ClientInit, Depth
  <2>3. queue \in Seq([id : Nat, kind : StatementKinds \cup {"close"}, depth : Nat]) /\ port \in Seq([id : Nat, ok : BOOLEAN])
    BY DEF ClientInit
  <2> QED  BY <2>1, <2>2, <2>3 DEF ClientInit, ClientTypeOK
<1>2. Position /\ Exchange /\ Apart /\ Numbered
  BY DEF ClientInit, Position, Exchange, Mirrors, Apart, Numbered, Depth, Committing
<1>3. ReportedIsDurable /\ FailedLeavesNothing
  BY DEF ClientInit, ReportedIsDurable, FailedLeavesNothing
<1> QED  BY <1>1, <1>2, <1>3 DEF ClientIInv

\* A request goes to an idle worker; to a closed client it fails.
LEMMA RequestKeeps ==
  ASSUME ClientAssumption, ClientIInv, NEW kind \in StatementKinds \ {"none"}, Requests(kind), AtDepth(kind),
         caller \in {"run", "throw", "release"}, caller = "throw" <=> kind \in {"ROLLBACK", "ROLLBACK_TO"},
         UNCHANGED <<stack, closed, port, worker, accounts>>
  PROVE  ClientIInv'
<1> USE DEF ClientIInv
<1>1. request' \in [id : Nat, kind : StatementKinds, depth : Nat] /\ request'.kind = kind /\ request'.depth = Depth
  BY DEF Requests, ClientTypeOK, Depth
<1>2. ClientTypeOK'
  <2>1. CASE closed
    BY <1>1, <2>1 DEF Requests, ClientTypeOK, Depth, worker, accounts
  <2>2. CASE ~closed
    <3>1. queue' = <<request'>>
      BY <2>2 DEF Requests, Exchange
    <3>2. request' \in [id : Nat, kind : StatementKinds \cup {"close"}, depth : Nat]
      BY <1>1
    <3>3. queue' \in Seq([id : Nat, kind : StatementKinds \cup {"close"}, depth : Nat])
      BY <3>1, <3>2
    <3> QED  BY <1>1, <2>2, <3>3 DEF Requests, ClientTypeOK, Depth, worker, accounts
  <2> QED  BY <2>1, <2>2
<1>3. Position'
  BY <1>1 DEF Requests, Position, AtDepth, Depth
<1>4. Exchange'
  <2> SUFFICES ASSUME ~closed PROVE Exchange'
    BY DEF Exchange
  <2>1. queue = <<>> /\ port = <<>> /\ IF caller = "throw" THEN Leaves ELSE Mirrors
    BY DEF Exchange
  <2>2. caller' = "wait" /\ request'.id = requests' /\ requests' = requests + 1 /\ queue' = <<request'>>
    BY <2>1 DEF Requests
  <2>3. request'.id \notin gate'
    BY <2>2 DEF Numbered, ClientTypeOK, worker
  <2>4. Unanswered'
    BY <1>1, <2>1, <2>2, <2>3 DEF Unanswered, Leaves, Mirrors, Depth, worker
  <2> QED  BY <2>2, <2>4 DEF Exchange
<1>5. Apart'
  <2>1. ~Committing
    BY DEF Committing
  <2>2. closed => queue' = queue
    BY DEF Requests
  <2> QED  BY <2>1, <2>2 DEF Apart, Depth, worker, accounts
<1>6. Numbered'
  BY DEF Numbered, Requests, Depth, worker, accounts, ClientTypeOK
<1>7. ReportedIsDurable' /\ FailedLeavesNothing'
  BY DEF ReportedIsDurable, FailedLeavesNothing, worker, accounts
<1> QED  BY <1>2, <1>3, <1>4, <1>5, <1>6, <1>7

\* The callback throws: its transaction is as it was.
LEMMA ThrowsKeeps == ASSUME ClientIInv, Throws PROVE ClientIInv'
<1> USE DEF ClientIInv
<1>1. /\ caller = "run" /\ Depth > 0 /\ caller' = "throw"
      /\ UNCHANGED <<request, requests, stack, closed, queue, port, gate, levels, aborted, committed,
                     reported, refused, doubtful>>
  BY DEF Throws, worker, accounts
<1>2. ClientTypeOK' /\ Position' /\ Numbered'
  BY <1>1 DEF ClientTypeOK, Position, Numbered, Depth
<1>3. Exchange'
  BY <1>1 DEF Exchange, Mirrors, Leaves, Depth, ClientTypeOK
<1>4. Apart' /\ ReportedIsDurable' /\ FailedLeavesNothing'
  BY <1>1 DEF Apart, Committing, Depth, ReportedIsDurable, FailedLeavesNothing
<1> QED  BY <1>2, <1>3, <1>4

\* The worker has run the only message of an open client: a request that succeeded did to
\* the connection what it will do to the application's transactions.
LEMMA RequestRuns ==
  ASSUME ClientIInv, ~closed, WorkerRuns
  PROVE  /\ caller = "wait" /\ queue = <<request>> /\ queue' = <<>> /\ gate' = gate \cup {request.id}
         /\ \/ /\ Answered(TRUE)' /\ committed' = IF request.kind = "COMMIT" THEN committed \cup Written ELSE committed
            \/ Answered(FALSE)' /\ UNCHANGED committed
<1> USE DEF ClientIInv
<1>1. /\ caller = "wait" /\ Unanswered /\ queue = <<request>> /\ port = <<>> /\ Head(queue) = request
      /\ stack \in Seq(SUBSET Nat)
  BY DEF WorkerRuns, Exchange, Unanswered, Answered, Position, ClientTypeOK
<1>2. /\ queue' = <<>> /\ gate' = gate \cup {request.id} /\ UNCHANGED <<caller, request, requests, stack, closed>>
      /\ request.id \in gate'
  BY <1>1 DEF WorkerRuns
<1>3. request.depth = Depth /\ AtDepth(request.kind) /\ request.kind \in StatementKinds \ {"none"}
  BY <1>1 DEF Position, ClientTypeOK
<1>4. CASE Able(request) /\ Statement(request) /\ port' = Append(port, [id |-> request.id, ok |-> TRUE])
  <2>1. After(levels, request) = After(stack, request)
    <3>1. CASE request.kind = "ROLLBACK"
      <4>1. levels \in Seq(SUBSET Nat)
        <5>1. levels = <<>> \/ levels \in Seq(SUBSET Nat)
          BY <1>1, <3>1 DEF Unanswered, Leaves
        <5>2. <<>> \in Seq(SUBSET Nat)
          OBVIOUS
        <5> QED  BY <5>1, <5>2
      <4> QED  BY <1>1, <3>1, <4>1, AfterEnding
    <3>2. CASE request.kind = "ROLLBACK_TO"
      <4>1. Depth > 1 /\ levels \in Seq(SUBSET Nat) /\ Len(levels) >= Depth /\ \A i \in 1..Depth : levels[i] = stack[i]
        BY <1>1, <1>3, <3>2 DEF Unanswered, Leaves, AtDepth
      <4> QED  BY <1>1, <1>3, <3>2, <4>1, UndoneAlike DEF Depth
    <3>3. CASE request.kind \notin {"ROLLBACK", "ROLLBACK_TO"}
      BY <1>1, <3>3 DEF Unanswered, Mirrors
    <3> QED  BY <3>1, <3>2, <3>3
  <2>2. levels' = After(stack, request) /\ aborted' = FALSE /\ port' = <<[id |-> request.id, ok |-> TRUE]>>
    BY <1>1, <1>4, <2>1 DEF Statement
  <2>3. committed' = IF request.kind = "COMMIT" THEN committed \cup Written ELSE committed
    BY <1>1, <1>4 DEF Statement, Unanswered, Mirrors, Written
  <2>4. Answered(TRUE)'
    BY <1>2, <2>2, <2>3 DEF Answered, Written, After
  <2> QED  BY <1>1, <1>2, <2>3, <2>4
<1>5. CASE /\ request.kind \notin {"ROLLBACK", "ROLLBACK_TO"} \/ ~Able(request)
           /\ port' = Append(port, [id |-> request.id, ok |-> FALSE])
           /\ levels' = IF request.kind = "COMMIT" THEN <<>> ELSE levels
           /\ aborted' = (levels' # <<>>) /\ UNCHANGED committed
  <2>1. request.kind \notin {"ROLLBACK", "ROLLBACK_TO"}
    BY <1>1, <1>3, <1>5 DEF Able, Unanswered, Leaves, AtDepth
  <2>2. levels = stack /\ port' = <<[id |-> request.id, ok |-> FALSE]>>
    BY <1>1, <1>5, <2>1 DEF Unanswered, Mirrors
  <2>3. request.kind = "BEGIN" => Mirrors'
    <3> SUFFICES ASSUME request.kind = "BEGIN" PROVE Mirrors'
      OBVIOUS
    <3>1. stack = <<>>
      BY <1>1, <1>3 DEF AtDepth, Depth
    <3> QED  BY <1>2, <1>5, <2>2, <3>1 DEF Mirrors
  <2>4. Leaves'
    BY <1>1, <1>2, <1>3, <1>5, <2>2 DEF Leaves, AtDepth, Depth
  <2>5. Answered(FALSE)'
    BY <1>2, <2>1, <2>2, <2>3, <2>4 DEF Answered
  <2> QED  BY <1>1, <1>2, <1>5, <2>5
<1> QED  BY <1>1, <1>4, <1>5 DEF WorkerRuns

\* The worker takes the first of its messages.
LEMMA QueueFacts ==
  ASSUME ClientTypeOK, WorkerRuns
  PROVE  /\ queue # <<>> /\ queue' = Tail(queue) /\ Head(queue).id \in Nat
         /\ queue' \in Seq([id : Nat, kind : StatementKinds \cup {"close"}, depth : Nat])
         /\ \E j \in DOMAIN queue : Head(queue) = queue[j]
         /\ \A i \in DOMAIN queue' : \E j \in DOMAIN queue : queue'[i] = queue[j]
<1> DEFINE Messages == [id : Nat, kind : StatementKinds \cup {"close"}, depth : Nat]
<1>1. queue \in Seq(Messages) /\ queue # <<>> /\ queue' = Tail(queue)
  BY DEF ClientTypeOK, WorkerRuns
<1>2. \A m \in Messages : m.id \in Nat
  OBVIOUS
<1> HIDE DEF Messages
<1>3. /\ Head(queue) \in Messages /\ queue' \in Seq(Messages) /\ Head(queue) = queue[1] /\ 1 \in DOMAIN queue
      /\ \A i \in DOMAIN queue' : i + 1 \in DOMAIN queue /\ queue'[i] = queue[i + 1]
  BY <1>1
<1> QED  BY <1>1, <1>2, <1>3 DEF Messages

LEMMA WorkerKeeps == ASSUME ClientIInv, WorkerRuns PROVE ClientIInv'
<1> USE DEF ClientIInv
<1>1. UNCHANGED <<caller, request, requests, stack, closed, reported, refused, doubtful>>
  BY DEF WorkerRuns, accounts
<1>2. ClientTypeOK'
  <2>1. queue # <<>> /\ queue' = Tail(queue) /\ Head(queue).id \in Nat
    BY QueueFacts
  <2>2. /\ \E ok \in BOOLEAN : port' = Append(port, [id |-> Head(queue).id, ok |-> ok])
        /\ aborted' \in BOOLEAN
    BY DEF WorkerRuns, Statement
  <2> QED  BY <1>1, <2>1, <2>2 DEF ClientTypeOK, Depth
<1>3. Position'
  BY <1>1 DEF Position, AtDepth, Depth
<1>4. CASE closed
  <2>1. \E j \in DOMAIN queue : Head(queue) = queue[j]
    BY QueueFacts
  <2>2. doubtful \/ committed' = committed
    BY <1>4, <2>1 DEF WorkerRuns, Apart, Statement
  <2>3. \A i \in DOMAIN queue' : \E j \in DOMAIN queue : queue'[i] = queue[j]
    BY QueueFacts
  <2>4. committed \subseteq committed'
    BY DEF WorkerRuns, Statement
  <2>5. ~Committing /\ ~Committing'
    BY <1>1, <1>4 DEF Position, Committing
  <2>6. Apart'
    BY <1>1, <1>4, <2>2, <2>3, <2>5 DEF Apart, Depth
  <2>7. ReportedIsDurable' /\ FailedLeavesNothing'
    BY <1>1, <2>2, <2>4 DEF ReportedIsDurable, FailedLeavesNothing
  <2> QED  BY <1>1, <1>2, <1>3, <1>4, <2>6, <2>7 DEF Exchange, Numbered
<1>5. CASE ~closed
  <2>1. /\ caller = "wait" /\ queue = <<request>> /\ queue' = <<>> /\ gate' = gate \cup {request.id}
        /\ \/ /\ Answered(TRUE)' /\ committed' = IF request.kind = "COMMIT" THEN committed \cup Written ELSE committed
           \/ Answered(FALSE)' /\ UNCHANGED committed
    BY <1>5, RequestRuns
  <2>2. Exchange'
    BY <1>1, <1>5, <2>1 DEF Exchange
  <2>3. \A n : n \in Written <=> \E i \in 1..Depth : n \in stack[i]
    BY Parts DEF ClientTypeOK, Written, Depth
  <2>4. committed \subseteq committed' /\ committed' \subseteq committed \cup Written
    BY <2>1
  <2>5. ~Committing /\ (~Committing' => committed' = committed)
    BY <1>1, <1>5, <2>1 DEF Committing, Answered, Exchange, Unanswered
  <2>6. Apart'
    BY <1>1, <1>5, <2>5 DEF Apart, Depth
  <2>7. Numbered'
    BY <1>1, <1>5, <2>1, <2>3, <2>4 DEF Numbered, Depth, Exchange, ClientTypeOK
  <2>8. ReportedIsDurable' /\ FailedLeavesNothing'
    BY <1>1, <2>3, <2>4 DEF ReportedIsDurable, FailedLeavesNothing, Apart
  <2> QED  BY <1>2, <1>3, <2>2, <2>6, <2>7, <2>8
<1> QED  BY <1>4, <1>5

\* The innermost of the open transactions, and the others.
LEMMA Innermost ==
  ASSUME stack \in Seq(SUBSET Nat), Depth > 0
  PROVE  /\ Last(stack) = stack[Depth]
         /\ Front(stack) \in Seq(SUBSET Nat) /\ Len(Front(stack)) = Depth - 1
         /\ \A i \in 1..Depth - 1 : Front(stack)[i] = stack[i]
<1>1. Depth - 1 \in 0..Len(stack) /\ Front(stack) = SubSeq(stack, 1, Depth - 1) /\ Last(stack) = stack[Depth]
  BY DEF Depth, Front, Last
<1> QED  BY <1>1, Prefix

\* What a failure leaves of the application's transactions, and what it counts as refused.
LEMMA FailsTo ==
  ASSUME ClientIInv, Fails, caller \in {"wait", "error"}
  PROVE  /\ caller' \in {"run", "throw"} /\ UNCHANGED <<reported, doubtful>>
         /\ stack' \in Seq(SUBSET Nat) /\ Depth' <= Depth /\ \A i \in 1..Depth' : stack'[i] = stack[i]
         /\ caller' = "throw" => Depth' > 0
         /\ caller' = "run" => stack' = <<>>
         /\ Depth' < Depth => \A i \in 1..Depth' : \A n \in stack'[i] : n \notin refused'
         /\ \A n \in refused' : n \in refused \/ \E i \in 1..Depth : n \in stack[i] /\ i > Depth'
<1> USE DEF ClientIInv
<1>1. /\ stack \in Seq(SUBSET Nat) /\ Depth \in Nat /\ request.kind \in StatementKinds \ {"none"} /\ AtDepth(request.kind)
      /\ Depth = Len(stack)
  BY DEF ClientTypeOK, Position, Depth
<1>2. \A n : n \in Written <=> \E i \in 1..Depth : n \in stack[i]
  BY <1>1, Parts DEF Written
<1>3. CASE request.kind = "BEGIN"
  <2>1. stack = <<>>
    BY <1>1, <1>3 DEF AtDepth
  <2> QED  BY <1>1, <1>3, <2>1 DEF Fails, accounts, Depth
<1>4. CASE request.kind = "ROLLBACK"
  <2>1. stack' = <<>> /\ caller' = "run" /\ refused' = refused \cup Written /\ UNCHANGED <<reported, doubtful>>
    BY <1>4 DEF Fails
  <2>2. Depth' = 0 /\ stack' \in Seq(SUBSET Nat)
    BY <2>1 DEF Depth
  <2> QED  BY <1>1, <1>2, <2>1, <2>2
<1>5. CASE request.kind \in {"ROLLBACK_TO", "RELEASE_AFTER"}
  <2>1. /\ refused' = refused \cup Last(stack) /\ stack' = Front(stack) /\ caller' = "throw"
        /\ UNCHANGED <<reported, doubtful>> /\ Depth > 1
    BY <1>1, <1>5 DEF Fails, AtDepth
  <2>2. Depth' = Depth - 1 /\ stack' \in Seq(SUBSET Nat) /\ \A i \in 1..Depth' : stack'[i] = stack[i]
    BY <1>1, <2>1, Innermost DEF Depth
  <2>3. \A n \in refused' : n \in refused \/ n \in stack[Depth]
    BY <1>1, <2>1, Innermost
  <2>4. \A i \in 1..Depth' : \A n \in stack[i] : n \notin refused /\ n \notin stack[Depth]
    BY <1>1, <2>1, <2>2 DEF Apart
  <2> QED  BY <1>1, <2>1, <2>2, <2>3, <2>4
<1>6. CASE request.kind \notin {"BEGIN", "ROLLBACK", "ROLLBACK_TO", "RELEASE_AFTER"}
  <2>1. caller' = "throw" /\ UNCHANGED <<stack, accounts>> /\ Depth > 0
    BY <1>1, <1>6 DEF Fails, AtDepth, StatementKinds
  <2> QED  BY <1>1, <2>1 DEF accounts, Depth
<1> QED  BY <1>3, <1>4, <1>5, <1>6

\* The accounts stay apart when a failure is thrown.
LEMMA FailsApart ==
  ASSUME ClientIInv, Fails, caller \in {"wait", "error"}, ~Committing, UNCHANGED committed
  PROVE  /\ \A i, j \in 1..Depth' : i # j => stack'[i] \cap stack'[j] = {}
         /\ \A i \in 1..Depth' : stack'[i] \cap refused' = {}
         /\ ~doubtful => \A i \in 1..Depth' : stack'[i] \cap committed = {}
         /\ ~doubtful => refused' \cap committed = {}
         /\ UNCHANGED doubtful
<1> USE DEF ClientIInv
<1>1. /\ stack' \in Seq(SUBSET Nat) /\ Depth' <= Depth /\ \A i \in 1..Depth' : stack'[i] = stack[i]
      /\ Depth' < Depth => \A i \in 1..Depth' : \A n \in stack'[i] : n \notin refused'
      /\ \A n \in refused' : n \in refused \/ \E i \in 1..Depth : n \in stack[i] /\ i > Depth'
      /\ UNCHANGED doubtful
  BY FailsTo
<1>2. Depth \in Nat /\ Depth' \in Nat
  BY <1>1 DEF ClientTypeOK, Depth
<1>3. \A i \in 1..Depth' : stack'[i] \cap refused' = {}
  <2>1. CASE Depth' < Depth
    BY <1>1, <2>1
  <2>2. CASE Depth' = Depth
    BY <1>1, <1>2, <2>2 DEF Apart
  <2> QED  BY <1>1, <1>2, <2>1, <2>2
<1>4. \A i, j \in 1..Depth' : i # j => stack'[i] \cap stack'[j] = {}
  BY <1>1, <1>2 DEF Apart
<1>5. ~doubtful => \A i \in 1..Depth' : stack'[i] \cap committed = {}
  BY <1>1, <1>2 DEF Apart
<1>6. ~doubtful => refused' \cap committed = {}
  BY <1>1 DEF Apart, FailedLeavesNothing
<1> QED  BY <1>1, <1>3, <1>4, <1>5, <1>6

LEMMA CloseIsQueued ==
  ASSUME ClientTypeOK, queue' = Append(queue, [id |-> 0, kind |-> "close", depth |-> 0])
  PROVE  queue' \in Seq([id : Nat, kind : StatementKinds \cup {"close"}, depth : Nat])
<1> DEFINE Messages == [id : Nat, kind : StatementKinds \cup {"close"}, depth : Nat]
           last     == [id |-> 0, kind |-> "close", depth |-> 0]
<1>1. queue \in Seq(Messages) /\ last \in Messages
  BY DEF ClientTypeOK
<1> HIDE DEF Messages, last
<1>2. Append(queue, last) \in Seq(Messages)
  BY <1>1, AppendProperties
<1> QED  BY <1>2 DEF Messages, last

\* A failure that nobody answered: of the worker the application knows no more than before.
LEMMA FailureKeeps ==
  ASSUME ClientAssumption, ClientIInv, Fails,
         caller = "error" \/ (caller = "wait" /\ request.id \notin gate /\ request.kind # "COMMIT"),
         UNCHANGED <<request, requests, port, worker>>,
         closed' = TRUE, UNCHANGED queue \/ queue' = Append(queue, [id |-> 0, kind |-> "close", depth |-> 0])
  PROVE  ClientIInv'
<1> USE DEF ClientIInv
<1>1. /\ caller' \in {"run", "throw"} /\ UNCHANGED <<reported, doubtful>>
      /\ stack' \in Seq(SUBSET Nat) /\ Depth' <= Depth /\ \A i \in 1..Depth' : stack'[i] = stack[i]
      /\ caller' = "throw" => Depth' > 0
      /\ Depth' < Depth => \A i \in 1..Depth' : \A n \in stack'[i] : n \notin refused'
      /\ \A n \in refused' : n \in refused \/ \E i \in 1..Depth : n \in stack[i] /\ i > Depth'
  BY FailsTo
<1>2. UNCHANGED <<request, requests, port, gate, levels, aborted, committed>>
  BY DEF worker
<1>3. Depth \in Nat /\ Depth' \in Nat
  BY <1>1 DEF ClientTypeOK, Depth
<1>4. ClientTypeOK'
  <2>1. queue' \in Seq([id : Nat, kind : StatementKinds \cup {"close"}, depth : Nat])
    BY CloseIsQueued DEF ClientTypeOK
  <2>2. Depth' <= MaxDepth
    BY <1>1, <1>3 DEF ClientTypeOK, ClientAssumption
  <2> QED  BY <1>1, <1>2, <2>1, <2>2 DEF ClientTypeOK
<1>5. Position'
  BY <1>1 DEF Position
<1>6. ~doubtful => \A i \in DOMAIN queue' : queue'[i].kind # "COMMIT"
  <2>1. ~doubtful => \A i \in DOMAIN queue : queue[i].kind # "COMMIT"
    BY DEF Position, Exchange, Unanswered, Answered, Apart
  <2>2. CASE UNCHANGED queue
    BY <2>1, <2>2
  <2>3. CASE queue' = Append(queue, [id |-> 0, kind |-> "close", depth |-> 0])
    <3>1. \A i \in DOMAIN queue' : queue'[i] = [id |-> 0, kind |-> "close", depth |-> 0] \/ (i \in DOMAIN queue /\ queue'[i] = queue[i])
      BY <2>3 DEF ClientTypeOK
    <3> QED  BY <2>1, <3>1
  <2> QED  BY <2>2, <2>3
<1>7. ~Committing /\ ~Committing'
  BY <1>1 DEF Committing
<1>8. Apart'
  BY <1>2, <1>6, <1>7, FailsApart DEF Apart
<1>9. ReportedIsDurable' /\ FailedLeavesNothing'
  BY <1>1, <1>2, <1>7, FailsApart DEF ReportedIsDurable, FailedLeavesNothing
<1>10. Exchange' /\ Numbered'
  BY DEF Exchange, Numbered
<1> QED  BY <1>4, <1>5, <1>8, <1>9, <1>10

\* What a commit that took too long has done is not known.
LEMMA CommitTimeoutKeeps == ASSUME ClientIInv, CommitTimesOut PROVE ClientIInv'
<1> USE DEF ClientIInv
<1>1. /\ caller = "wait" /\ request.kind = "COMMIT" /\ caller' = "throw" /\ doubtful' = TRUE /\ closed' = TRUE
      /\ queue' = Append(queue, [id |-> 0, kind |-> "close", depth |-> 0])
      /\ UNCHANGED <<request, requests, stack, port, reported, refused, gate, levels, aborted, committed>>
  BY DEF CommitTimesOut, ClosesClient, worker
<1>2. queue' \in Seq([id : Nat, kind : StatementKinds \cup {"close"}, depth : Nat])
  BY <1>1, CloseIsQueued
<1>3. ClientTypeOK' /\ Position'
  <2>1. ClientTypeOK'
    BY <1>1, <1>2 DEF ClientTypeOK, Depth
  <2>2. Depth' = Depth /\ Depth = 1
    BY <1>1 DEF Position, AtDepth, Depth
  <2>3. Position'
    BY <1>1, <2>2 DEF Position
  <2> QED  BY <2>1, <2>3
<1>4. Apart' /\ Exchange' /\ Numbered' /\ ReportedIsDurable' /\ FailedLeavesNothing'
  BY <1>1 DEF Apart, Exchange, Numbered, ReportedIsDurable, FailedLeavesNothing, Depth, Committing
<1> QED  BY <1>3, <1>4

------------------------------------------------------------------------------
\* What the open transactions hold once a request has succeeded is what they held before,
\* and the write it was.
LEMMA SuccessHolds ==
  ASSUME ClientIInv, caller = "wait"
  PROVE  /\ After(stack, request) \in Seq(SUBSET Nat)
         /\ Len(After(stack, request)) <= IF request.kind \in {"BEGIN", "SAVEPOINT"} THEN Depth + 1 ELSE Depth
         /\ \A i \in 1..Len(After(stack, request)) : \A n \in After(stack, request)[i] :
               (request.kind = "write" /\ n = request.id) \/ \E j \in 1..Depth : n \in stack[j]
         /\ request.kind # "write" =>
               \A i, j \in 1..Len(After(stack, request)) :
                   i # j => After(stack, request)[i] \cap After(stack, request)[j] = {}
<1> USE DEF ClientIInv
<1> DEFINE new == After(stack, request)
<1>1. /\ stack \in Seq(SUBSET Nat) /\ Depth = Len(stack) /\ Depth \in Nat /\ request.depth = Depth
      /\ AtDepth(request.kind) /\ request.kind \in StatementKinds \ {"none"} /\ request.id \in Nat
      /\ \A i, j \in 1..Depth : i # j => stack[i] \cap stack[j] = {}
  BY DEF ClientTypeOK, Position, Depth, Apart
<1>2. CASE request.kind \in {"BEGIN", "SAVEPOINT"}
  <2>1. /\ new \in Seq(SUBSET Nat) /\ Len(new) = Depth + 1
        /\ new[Depth + 1] = {} /\ \A i \in 1..Depth : new[i] = stack[i]
    BY <1>1, <1>2, AfterOpening
  <2> HIDE DEF new
  <2> QED  BY <1>1, <1>2, <2>1 DEF new
<1>3. CASE request.kind = "write"
  <2>1. /\ new \in Seq(SUBSET Nat) /\ Len(new) = Depth
        /\ new[Depth] = stack[Depth] \cup {request.id} /\ \A i \in 1..Depth - 1 : new[i] = stack[i]
    BY <1>1, <1>3, AfterWriting DEF AtDepth
  <2>2. Depth \in 1..Depth
    BY <1>1, <1>3 DEF AtDepth
  <2> HIDE DEF new
  <2>3. \A i \in 1..Depth : \A n \in new[i] : n = request.id \/ \E j \in 1..Depth : n \in stack[j]
    <3> SUFFICES ASSUME NEW i \in 1..Depth, NEW n \in new[i], n # request.id PROVE n \in stack[i]
      OBVIOUS
    <3>1. CASE i = Depth
      BY <2>1, <3>1
    <3>2. CASE i # Depth
      BY <1>1, <2>1, <3>2
    <3> QED  BY <3>1, <3>2
  <2>4. \A i \in 1..Len(new) : \A n \in new[i] :
            (request.kind = "write" /\ n = request.id) \/ \E j \in 1..Depth : n \in stack[j]
    BY <1>3, <2>1, <2>3
  <2> QED  BY <1>1, <1>3, <2>1, <2>4 DEF new
<1>4. CASE request.kind \in {"RELEASE", "RELEASE_AFTER"}
  <2>1. Depth > 1
    BY <1>1, <1>4 DEF AtDepth
  <2>2. /\ new \in Seq(SUBSET Nat) /\ Len(new) = Depth - 1
        /\ new[Depth - 1] = stack[Depth - 1] \cup stack[Depth] /\ \A i \in 1..Depth - 2 : new[i] = stack[i]
    BY <1>1, <1>4, <2>1, AfterJoining
  <2> HIDE DEF new
  <2>3. \A i \in 1..Len(new) : /\ i = Depth - 1 \/ i \in 1..Depth - 2
                              /\ i \in 1..Depth /\ i # Depth
    BY <1>1, <2>1, <2>2
  <2>4. Depth \in 1..Depth /\ Depth - 1 \in 1..Depth
    BY <1>1, <2>1
  <2>5. \A i \in 1..Len(new) : \A n \in new[i] : n \in stack[i] \/ (i = Depth - 1 /\ n \in stack[Depth])
    BY <2>2, <2>3
  <2>6. \A i \in 1..Len(new) : \A n \in new[i] : \E j \in 1..Depth : n \in stack[j]
    BY <2>3, <2>4, <2>5
  <2>7. \A i, j \in 1..Len(new) : i # j => new[i] \cap new[j] = {}
    BY <1>1, <2>3, <2>4, <2>5
  <2> QED  BY <1>1, <1>4, <2>2, <2>6, <2>7 DEF new
<1>5. CASE request.kind = "ROLLBACK_TO"
  <2>1. Depth > 1
    BY <1>1, <1>5 DEF AtDepth
  <2>2. /\ new \in Seq(SUBSET Nat) /\ Len(new) = Depth
        /\ new[Depth] = {} /\ \A i \in 1..Depth - 1 : new[i] = stack[i]
    BY <1>1, <1>5, <2>1, AfterUndoing
  <2> HIDE DEF new
  <2> QED  BY <1>1, <1>5, <2>1, <2>2 DEF new
<1>6. CASE request.kind \in {"COMMIT", "ROLLBACK"}
  <2>1. new = <<>>
    BY <1>1, <1>6, AfterEnding
  <2> HIDE DEF new
  <2> QED  BY <1>1, <1>6, <2>1 DEF new
<1> QED  BY <1>1, <1>2, <1>3, <1>4, <1>5, <1>6 DEF StatementKinds

\* What a reply that a request succeeded adds to the accounts.
LEMMA SuccessApart ==
  ASSUME ClientIInv, caller = "wait", ~closed, Succeeds
  PROVE  /\ \A n \in refused' : n \in refused \/
               (request.kind # "COMMIT" /\ \E j \in 1..Depth : n \in stack[j])
         /\ \A i \in 1..Depth' : stack'[i] \cap refused' = {}
         /\ \A i, j \in 1..Depth' : i # j => stack'[i] \cap stack'[j] = {}
<1> USE DEF ClientIInv
<1>1. /\ stack \in Seq(SUBSET Nat) /\ Depth = Len(stack) /\ Depth \in Nat /\ request.depth = Depth
      /\ AtDepth(request.kind) /\ request.kind \in StatementKinds \ {"none"} /\ request.id \in Nat
      /\ \A i, j \in 1..Depth : i # j => stack[i] \cap stack[j] = {}
      /\ \A i \in 1..Depth : stack[i] \cap refused = {}
  BY DEF ClientTypeOK, Position, Depth, Apart
<1>2. stack' = After(stack, request) /\ Depth' = Len(After(stack, request))
  BY DEF Succeeds, Depth
<1>3. /\ \A i \in 1..Depth' : \A n \in stack'[i] :
            (request.kind = "write" /\ n = request.id) \/ \E j \in 1..Depth : n \in stack[j]
      /\ request.kind # "write" => \A i, j \in 1..Depth' : i # j => stack'[i] \cap stack'[j] = {}
  BY <1>2, SuccessHolds
<1>4. request.id \notin refused /\ \A j \in 1..Depth : request.id \notin stack[j]
  BY DEF Numbered, Exchange, ClientTypeOK
<1>5. \A i, j \in 1..Depth' : i # j => stack'[i] \cap stack'[j] = {}
  <2>1. CASE request.kind = "write"
    <3>1. Len(stack) > 0
      BY <1>1, <2>1 DEF AtDepth
    <3>2. /\ Depth' = Depth /\ stack'[Depth] = stack[Depth] \cup {request.id}
          /\ \A i \in 1..Depth - 1 : stack'[i] = stack[i]
      BY <1>1, <1>2, <2>1, <3>1, AfterWriting
    <3>3. \A i \in 1..Depth : i = Depth \/ i \in 1..Depth - 1
      BY <1>1
    <3> QED  BY <1>1, <1>4, <3>2, <3>3
  <2> QED  BY <1>3, <2>1
<1>6. CASE request.kind \notin {"ROLLBACK", "ROLLBACK_TO", "RELEASE_AFTER"}
  <2>1. refused' = refused
    BY <1>6 DEF Succeeds
  <2> QED  BY <1>1, <1>3, <1>4, <1>5, <2>1
<1>7. CASE request.kind = "ROLLBACK"
  <2>1. refused' = refused \cup Written /\ Depth' = 0
    BY <1>1, <1>2, <1>7, AfterEnding DEF Succeeds
  <2>2. \A n \in Written : \E j \in 1..Depth : n \in stack[j]
    BY <1>1, Parts DEF Written
  <2> QED  BY <1>5, <1>7, <2>1, <2>2
<1>8. CASE request.kind = "ROLLBACK_TO"
  <2>1. Depth > 1
    BY <1>1, <1>8 DEF AtDepth
  <2>2. refused' = refused \cup stack[Depth]
    BY <1>1, <1>8, <2>1, Innermost DEF Succeeds
  <2>3. Depth' = Depth /\ stack'[Depth] = {} /\ \A i \in 1..Depth - 1 : stack'[i] = stack[i]
    <3>1. request.depth \in 1..Len(stack)
      BY <1>1, <2>1
    <3> QED  BY <1>1, <1>2, <1>8, <3>1, AfterUndoing
  <2>4. \A i \in 1..Depth : i = Depth \/ (i \in 1..Depth - 1 /\ i # Depth)
    BY <1>1
  <2> QED  BY <1>1, <1>5, <1>8, <2>1, <2>2, <2>3, <2>4
<1>9. CASE request.kind = "RELEASE_AFTER"
  <2>1. Depth > 1 /\ stack[Depth] = {}
    BY <1>1, <1>9 DEF AtDepth
  <2>2. refused' = refused
    BY <1>1, <1>9, <2>1, Innermost DEF Succeeds
  <2> QED  BY <1>1, <1>3, <1>5, <1>9, <2>2
<1> QED  BY <1>6, <1>7, <1>8, <1>9

\* The request has succeeded: the application's transactions are what the connection has.
LEMMA SuccessKeeps ==
  ASSUME ClientAssumption, ClientIInv, Replies, Head(port).ok
  PROVE  ClientIInv'
<1> USE DEF ClientIInv
<1>1. /\ caller = "wait" /\ request.id \in gate /\ Succeeds /\ port' = Tail(port) /\ ~closed
      /\ UNCHANGED <<request, requests, closed, queue, gate, levels, aborted, committed>>
  BY DEF Replies, worker, Position
<1>2. Answered(TRUE)
  BY <1>1 DEF Exchange, Unanswered, Answered
<1>3. /\ queue = <<>> /\ port' = <<>> /\ levels = After(stack, request) /\ ~aborted
      /\ request.kind = "COMMIT" => Written \subseteq committed
  BY <1>1, <1>2 DEF Answered
<1>4. /\ stack' = After(stack, request) /\ Depth' = Len(After(stack, request)) /\ UNCHANGED doubtful
      /\ reported' \subseteq reported \cup committed
      /\ caller' \in {"run", "throw", "release"}
      /\ caller' = "release" => request.kind = "ROLLBACK_TO"
      /\ caller' = "throw" => request.kind = "RELEASE_AFTER"
  BY <1>1, <1>3 DEF Succeeds, Depth
<1>5. /\ stack \in Seq(SUBSET Nat) /\ Depth = Len(stack) /\ Depth \in Nat /\ request.depth = Depth
      /\ AtDepth(request.kind) /\ Depth <= MaxDepth /\ request.id = requests /\ requests \in Nat
  BY <1>1 DEF ClientTypeOK, Position, Depth, Exchange
<1>6. /\ stack' \in Seq(SUBSET Nat) /\ Depth' \in Nat
      /\ Depth' <= IF request.kind \in {"BEGIN", "SAVEPOINT"} THEN Depth + 1 ELSE Depth
      /\ \A i \in 1..Depth' : \A n \in stack'[i] :
            (request.kind = "write" /\ n = request.id) \/ \E j \in 1..Depth : n \in stack[j]
  BY <1>1, <1>4, SuccessHolds
<1>7. ClientTypeOK'
  <2>1. Depth' <= MaxDepth
    BY <1>5, <1>6 DEF AtDepth, ClientAssumption
  <2>2. port' \in Seq([id : Nat, ok : BOOLEAN])
    BY <1>3
  <2> QED  BY <1>1, <1>4, <1>6, <2>1, <2>2 DEF ClientTypeOK
<1>8. Position'
  <2>1. request.kind = "ROLLBACK_TO" => AtDepth("RELEASE_AFTER")'
    BY <1>4, <1>5, AfterUndoing DEF AtDepth
  <2>2. request.kind = "RELEASE_AFTER" => Depth' > 0
    BY <1>4, <1>5, AfterJoining DEF AtDepth
  <2> QED  BY <1>1, <1>4, <2>1, <2>2 DEF Position
<1>9. Exchange'
  <2>1. Mirrors'
    BY <1>1, <1>3, <1>4 DEF Mirrors
  <2>2. Leaves'
    BY <1>6, <2>1 DEF Mirrors, Leaves, Depth
  <2> QED  BY <1>1, <1>3, <1>4, <2>1, <2>2 DEF Exchange
<1>10. /\ \A n \in refused' : n \in refused \/ (request.kind # "COMMIT" /\ \E j \in 1..Depth : n \in stack[j])
       /\ \A i \in 1..Depth' : stack'[i] \cap refused' = {}
       /\ \A i, j \in 1..Depth' : i # j => stack'[i] \cap stack'[j] = {}
  BY <1>1, SuccessApart
<1>11. /\ ~Committing' /\ (request.kind # "COMMIT" => ~Committing)
  BY <1>4 DEF Committing
<1>12. request.id \notin committed
  BY <1>1, <1>5 DEF Numbered
<1>13. Apart'
  <2>1. ~doubtful => \A i \in 1..Depth' : stack'[i] \cap committed = {}
    <3>1. CASE request.kind = "COMMIT"
      BY <1>4, <1>5, <3>1, AfterEnding
    <3>2. CASE request.kind # "COMMIT"
      BY <1>6, <1>11, <1>12, <3>2 DEF Apart
    <3> QED  BY <3>1, <3>2
  <2> QED  BY <1>1, <1>4, <1>10, <1>11, <2>1 DEF Apart
<1>14. Numbered'
  <2>1. /\ \A j \in 1..Depth : stack[j] \subseteq 0..requests - 1
        /\ refused \cup committed \subseteq 0..requests - 1 /\ gate \subseteq 0..requests
    BY <1>1 DEF Numbered
  <2>2. \A i \in 1..Depth' : stack'[i] \subseteq 0..requests
    BY <1>5, <1>6, <2>1
  <2>3. refused' \cup committed \subseteq 0..requests
    BY <1>5, <1>10, <2>1
  <2> QED  BY <1>1, <1>4, <2>1, <2>2, <2>3 DEF Numbered
<1>15. ReportedIsDurable'
  BY <1>1, <1>4 DEF ReportedIsDurable
<1>16. FailedLeavesNothing'
  BY <1>1, <1>4, <1>10, <1>11 DEF FailedLeavesNothing, Apart
<1> QED  BY <1>7, <1>8, <1>9, <1>13, <1>14, <1>15, <1>16

\* The request has failed: its transaction is there for the rollback, or ended with it.
LEMMA FailureReplyKeeps ==
  ASSUME ClientAssumption, ClientIInv, Replies, ~Head(port).ok
  PROVE  ClientIInv'
<1> USE DEF ClientIInv
<1>1. /\ caller = "wait" /\ request.id \in gate /\ Fails /\ port' = Tail(port) /\ ~closed
      /\ UNCHANGED <<request, requests, closed, queue, gate, levels, aborted, committed>>
  BY DEF Replies, worker, Position
<1>2. Answered(FALSE)
  BY <1>1 DEF Exchange, Unanswered, Answered
<1>3. /\ queue = <<>> /\ port' = <<>> /\ request.kind \notin {"ROLLBACK", "ROLLBACK_TO"}
      /\ IF request.kind = "BEGIN" THEN Mirrors ELSE Leaves
  BY <1>1, <1>2 DEF Answered
<1>4. /\ caller' \in {"run", "throw"} /\ UNCHANGED <<reported, doubtful>>
      /\ stack' \in Seq(SUBSET Nat) /\ Depth' <= Depth /\ \A i \in 1..Depth' : stack'[i] = stack[i]
      /\ caller' = "throw" => Depth' > 0
      /\ \A n \in refused' : n \in refused \/ \E i \in 1..Depth : n \in stack[i] /\ i > Depth'
  BY <1>1, FailsTo
<1>5. Depth \in Nat /\ Depth' \in Nat /\ Depth' = Len(stack') /\ Depth = Len(stack) /\ requests \in Nat
  BY <1>4 DEF ClientTypeOK, Depth
<1>6. ClientTypeOK'
  <2>1. Depth' <= MaxDepth
    BY <1>4, <1>5 DEF ClientTypeOK, ClientAssumption
  <2>2. port' \in Seq([id : Nat, ok : BOOLEAN])
    BY <1>3
  <2> QED  BY <1>1, <1>4, <2>1, <2>2 DEF ClientTypeOK
<1>7. Position'
  BY <1>1, <1>4 DEF Position
<1>8. Exchange'
  <2>1. CASE request.kind = "BEGIN"
    <3>1. caller' = "run" /\ UNCHANGED stack
      BY <1>1, <2>1 DEF Fails
    <3> QED  BY <1>1, <1>3, <2>1, <3>1 DEF Exchange, Mirrors
  <2>2. CASE request.kind # "BEGIN"
    <3>1. caller' = "throw"
      BY <1>1, <1>3, <2>2 DEF Fails
    <3>2. Leaves'
      BY <1>1, <1>3, <1>4, <1>5, <2>2, <3>1 DEF Leaves
    <3> QED  BY <1>1, <1>3, <3>1, <3>2 DEF Exchange
  <2> QED  BY <2>1, <2>2
<1>9. ~Committing /\ ~Committing'
  BY <1>4 DEF Committing
<1>10. Apart'
  BY <1>1, <1>9, FailsApart DEF Apart
<1>11. Numbered'
  <2>1. /\ \A j \in 1..Depth : stack[j] \subseteq 0..requests - 1
        /\ refused \cup committed \subseteq 0..requests - 1 /\ gate \subseteq 0..requests
    BY <1>1 DEF Numbered
  <2>2. \A i \in 1..Depth' : stack'[i] \subseteq 0..requests
    BY <1>4, <1>5, <2>1
  <2>3. refused' \cup committed \subseteq 0..requests
    BY <1>4, <1>5, <2>1
  <2> QED  BY <1>1, <1>4, <2>1, <2>2, <2>3 DEF Numbered
<1>12. ReportedIsDurable' /\ FailedLeavesNothing'
  BY <1>1, <1>4, <1>9, FailsApart DEF ReportedIsDurable, FailedLeavesNothing
<1> QED  BY <1>6, <1>7, <1>8, <1>10, <1>11, <1>12

------------------------------------------------------------------------------
\* Every step keeps what makes a report true.
LEMMA ClientNextIInv == ClientAssumption /\ ClientIInv /\ [ClientNext]_clientVars => ClientIInv'
<1> SUFFICES ASSUME ClientAssumption, ClientIInv, [ClientNext]_clientVars PROVE ClientIInv'
  OBVIOUS
<1>1. Depth \in Nat
  BY DEF ClientIInv, ClientTypeOK, Depth
<1>2. ASSUME Begins \/ Writes \/ Returns \/ RollsBack \/ ReleasesSavepoint PROVE ClientIInv'
  <2>1. \E kind \in StatementKinds \ {"none"} :
            /\ Requests(kind) /\ AtDepth(kind) /\ (caller = "throw" <=> kind \in {"ROLLBACK", "ROLLBACK_TO"})
    BY <1>1, <1>2 DEF Begins, Writes, Returns, RollsBack, ReleasesSavepoint, Undoes, StatementKinds, AtDepth,
                      ClientIInv, Position
  <2>2. caller \in {"run", "throw", "release"} /\ UNCHANGED <<stack, closed, port, worker, accounts>>
    BY <1>2 DEF Begins, Writes, Returns, RollsBack, ReleasesSavepoint
  <2> QED  BY <2>1, <2>2, RequestKeeps
<1>3. CASE ThrowsClosed
  BY <1>3, FailureKeeps DEF ThrowsClosed, ClientIInv, Position
<1>4. CASE TimesOutInDoubt
  BY <1>4, FailureKeeps DEF TimesOutInDoubt, TimesOut, ClosesClient
<1>5. CASE UNCHANGED clientVars
  BY <1>5 DEF clientVars, ClientIInv, ClientTypeOK, Position, AtDepth, Exchange, Unanswered, Answered, Mirrors, Leaves,
              Apart, Committing, Numbered, ReportedIsDurable, FailedLeavesNothing, Depth, Written
<1> QED  BY <1>2, <1>3, <1>4, <1>5, ThrowsKeeps, WorkerKeeps, SuccessKeeps, FailureReplyKeeps, CommitTimeoutKeeps
         DEF ClientNext

\* What a transaction that returned has written is stored; of one that threw nothing is, nested
\* or not, unless the commit timed out; whatever fails, is thrown or takes too long.
THEOREM TransactionsAreWhole ==
  ASSUME ClientAssumption
  PROVE  ClientSpec => [](ClientTypeOK /\ ReportedIsDurable /\ FailedLeavesNothing)
<1>1. ClientIInv => ClientTypeOK /\ ReportedIsDurable /\ FailedLeavesNothing
  BY DEF ClientIInv
<1> QED  BY <1>1, ClientInitIInv, ClientNextIInv, PTL DEF ClientSpec
==============================================================================
