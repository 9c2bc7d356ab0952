---------------------------- MODULE HarnessMemory ----------------------------
(***************************************************************************)
(* The reviewed memory of one graph: records pinned to graph nodes, their  *)
(* review, recall into prompts, and explicit copies on a remote server.    *)
(*                                                                         *)
(* Recall and sync wait for the remote server; while they do, nodes        *)
(* change, records are edited, forgotten or restored, and the settings     *)
(* move.  Sources, messages and receipts are pinned the way nodes are and  *)
(* are not modelled apart.  A digest stands for what it is computed from,  *)
(* the time of a review included.                                          *)
(***************************************************************************)
EXTENDS Naturals, FiniteSets

CONSTANTS Ids, Nodes, Remotes,   \* records, graph nodes, remote providers
          None,
          MaxRevision, MaxNode   \* bounds of a record's and a node's changes

Local == "local"

VARIABLES
    node,      \* the version of each node of the draft, 0 when it was removed
    record,    \* harness_memory
    config,    \* the provider, and whether recall is on, locally and remotely
    remote,    \* what the remote servers hold
    syncing,   \* record -> the snapshot a retain was sent with
    recall     \* the recall that waits for hints, and the last answer

memoryVars == <<node, record, config, remote, syncing, recall>>

\* "validated" is treated as "user_confirmed" here, and "rejected" as "suggested".
Accepted == {"user_confirmed"}
Reviewed == Accepted \cup {"suggested"}
NoSync   == [status |-> "none", digest |-> <<>>, at |-> Local]

Digest(r) == <<r.scope, r.pins, r.state, r.reviewed>>

Versions == 1 .. MaxNode
NodePins == UNION {[scope -> Versions] : scope \in SUBSET Nodes}
States   == Reviewed \cup {"stale", "forgotten"}
Digests  == (SUBSET Nodes) \X NodePins \X States \X Nat
Sync     == [status : {"none", "synced", "stale", "unconfirmed"}, digest : Digests \cup {<<>>},
             at : Remotes \cup {Local}]
Record   == [scope : SUBSET Nodes, pins : NodePins, state : States, reviewed : Nat,
             revision : 1 .. MaxRevision, sync : Sync]
Sending  == [record : Record, at : Remotes]

MemoryAssumption == {MaxRevision, MaxNode} \subseteq Nat \ {0} /\ None \notin Record \cup Sending

MemoryTypeOK ==
    /\ node \in [Nodes -> {0} \cup Versions]
    /\ record \in [Ids -> Record \cup {None}] /\ syncing \in [Ids -> Sending \cup {None}]
    /\ \A i \in Ids : record[i] # None => record[i].pins \in [record[i].scope -> Versions]
    /\ \A i \in Ids : syncing[i] # None => record[i] # None /\ syncing[i].record.state \in Accepted
    /\ config \in [provider : Remotes \cup {Local}, enabled : BOOLEAN]
    /\ recall \in [at : {"rest", "waiting"}, asked : SUBSET Ids, items : SUBSET Ids]
    /\ \A i \in recall.asked : record[i] # None

MemoryInit ==
    /\ node = [n \in Nodes |-> 1]
    /\ record = [i \in Ids |-> None]
    /\ config = [provider |-> Local, enabled |-> TRUE]
    /\ remote = {} /\ syncing = [i \in Ids |-> None]
    /\ recall = [at |-> "rest", asked |-> {}, items |-> {}]

------------------------------------------------------------------------------
\* Drafts are saved by other requests.
NodeChanges(n) ==
    /\ node[n] # 0
    /\ \/ node[n] < MaxNode /\ node' = [node EXCEPT ![n] = @ + 1]
       \/ node' = [node EXCEPT ![n] = 0]
    /\ UNCHANGED <<record, config, remote, syncing, recall>>

SettingsChange ==
    /\ \E new \in [provider : Remotes \cup {Local}, enabled : BOOLEAN] : config' = new
    /\ UNCHANGED <<node, record, remote, syncing, recall>>

\* Mutant: a node that was removed may be referred to.
CapturesAny(scope) == TRUE

\* captureMemoryProvenance: every node of the scope is in the draft.
Captures(scope) == \A n \in scope : node[n] # 0
Pinned(scope)   == [n \in scope |-> node[n]]

\* memoryStaleReason
Current(r) == Captures(r.scope) /\ r.pins = Pinned(r.scope)

\* inspect: an accepted record whose provenance moved is marked stale for good.
Inspected(r) == IF r.state \in Accepted /\ ~Current(r) THEN [r EXCEPT !.state = "stale"] ELSE r

Remember(i, scope, state) ==
    /\ record[i] = None /\ state \in Reviewed /\ Captures(scope)
    /\ record' = [record EXCEPT ![i] = [scope |-> scope, pins |-> Pinned(scope), state |-> state,
                                       reviewed |-> 1, revision |-> 1, sync |-> NoSync]]
    /\ UNCHANGED <<node, config, remote, syncing, recall>>

\* Mutant: an edit keeps the review it finds.
UpdateKeepsReview(i, scope, state) ==
    /\ record[i] # None /\ record[i].revision < MaxRevision
    /\ record' = [record EXCEPT ![i] =
          [scope |-> scope, pins |-> record[i].pins, state |-> state, reviewed |-> record[i].reviewed,
           revision |-> record[i].revision + 1, sync |-> record[i].sync]]
    /\ scope = record[i].scope /\ state \in Reviewed
    /\ UNCHANGED <<node, config, remote, syncing, recall>>

\* PATCH: the provenance is captured anew; without a new validation an edit is a
\* suggestion, and a review that is not one of the given states is refused.
Update(i, scope, state) ==
    /\ record[i] # None /\ record[i].revision < MaxRevision
    /\ Captures(scope) /\ state \in Reviewed
    /\ record' = [record EXCEPT ![i] =
          [scope |-> scope, pins |-> Pinned(scope), state |-> state, reviewed |-> @.revision + 1,
           revision |-> @.revision + 1,
           sync |-> IF @.sync.status = "none" THEN NoSync ELSE [@.sync EXCEPT !.status = "stale"]]]
    /\ UNCHANGED <<node, config, remote, syncing, recall>>

\* DELETE leaves a record that recall does not use and that may be restored.
Forget(i) ==
    /\ record[i] # None /\ record[i].revision < MaxRevision
    /\ record' = [record EXCEPT ![i] =
          [record[i] EXCEPT !.state = "forgotten", !.reviewed = @ + 1, !.revision = @ + 1]]
    /\ UNCHANGED <<node, config, remote, syncing, recall>>

\* GET, of one record or of all.
List ==
    /\ record' = [i \in Ids |-> IF record[i] = None THEN None ELSE Inspected(record[i])]
    /\ record' # record
    /\ UNCHANGED <<node, config, remote, syncing, recall>>

------------------------------------------------------------------------------
Usable(i) == record[i] # None /\ record[i].state \in Accepted /\ Current(record[i])

\* Mutant: what was usable before the wait is answered.
AnswersAsAsked(items) ==
    /\ recall' = [at |-> "rest", asked |-> {}, items |-> items]
    /\ UNCHANGED <<node, record, config, remote, syncing>>

\* What is left of the candidates is read again, marked and answered.
Answers(items) ==
    LET left == IF config.enabled THEN {i \in items : Usable(i)} ELSE {} IN
    /\ record' = [i \in Ids |-> IF i \in items /\ config.enabled THEN Inspected(record[i]) ELSE record[i]]
    /\ recall' = [at |-> "rest", asked |-> {}, items |-> left]
    /\ UNCHANGED <<node, config, remote, syncing>>

Candidates == IF config.enabled THEN {i \in Ids : Usable(i)} ELSE {}

RecallLocally ==
    /\ recall.at = "rest"
    /\ Answers(Candidates)

\* Hints of the server only order the candidates; they are waited for.
RecallRemotely ==
    /\ recall.at = "rest" /\ config.enabled /\ config.provider # Local
    /\ record' = [i \in Ids |-> IF record[i] = None THEN None ELSE Inspected(record[i])]
    /\ recall' = [at |-> "waiting", asked |-> Candidates, items |-> {}]
    /\ UNCHANGED <<node, config, remote, syncing>>

Hints == recall.at = "waiting" /\ Answers(recall.asked)

------------------------------------------------------------------------------
\* POST sync
SyncBegins(i) ==
    /\ Usable(i) /\ config.enabled /\ config.provider # Local /\ syncing[i] = None
    /\ record[i].sync # [status |-> "synced", digest |-> Digest(record[i]), at |-> config.provider]
    /\ syncing' = [syncing EXCEPT ![i] = [record |-> record[i], at |-> config.provider]]
    /\ UNCHANGED <<node, record, config, remote, recall>>

\* The server stores the snapshot; its answer may be late, or lost.
Retained(i) ==
    /\ syncing[i] # None
    /\ remote' = remote \cup {[id |-> i, digest |-> Digest(syncing[i].record), at |-> syncing[i].at]}
    /\ UNCHANGED <<node, record, config, syncing, recall>>

\* Mutant: an acknowledgement is for the record as it is now.
FinishSyncOfLatest(i, delivered) ==
    /\ syncing' = [syncing EXCEPT ![i] = None]
    /\ record' = [record EXCEPT ![i] = [Inspected(@) EXCEPT
          !.sync = [status |-> delivered, digest |-> Digest(Inspected(record[i])), at |-> syncing[i].at]]]
    /\ UNCHANGED <<node, config, remote, recall>>

\* Mutant: the snapshot that was sent is stored back.
FinishSyncOfSnapshot(i, delivered) ==
    /\ syncing' = [syncing EXCEPT ![i] = None]
    /\ record' = [record EXCEPT ![i] = [syncing[i].record EXCEPT
          !.sync = [status |-> delivered, digest |-> Digest(syncing[i].record), at |-> syncing[i].at]]]
    /\ UNCHANGED <<node, config, remote, recall>>

\* finishSync: "A provider acknowledges the submitted snapshot, never a later local
\* revision."
FinishSync(i, delivered) ==
    LET latest == Inspected(record[i])
        unchanged == Digest(latest) = Digest(syncing[i].record) /\ Current(latest) /\ latest.state \in Accepted
    IN /\ syncing' = [syncing EXCEPT ![i] = None]
       /\ record' = [record EXCEPT ![i] = [latest EXCEPT
             !.sync = [status |-> IF delivered = "synced" /\ ~unchanged THEN "stale" ELSE delivered,
                       digest |-> Digest(syncing[i].record), at |-> syncing[i].at]]]
       /\ UNCHANGED <<node, config, remote, recall>>

Acknowledged(i) ==
    /\ syncing[i] # None
    /\ [id |-> i, digest |-> Digest(syncing[i].record), at |-> syncing[i].at] \in remote
    /\ FinishSync(i, "synced")

\* An error, or the time limit.
Unconfirmed(i) == syncing[i] # None /\ FinishSync(i, "unconfirmed")

\* A crash loses the requests that wait, not what the server stored.
MemoryRestarts ==
    /\ syncing' = [i \in Ids |-> None]
    /\ recall' = [at |-> "rest", asked |-> {}, items |-> {}]
    /\ UNCHANGED <<node, record, config, remote>>

MemoryNext ==
    \/ \E n \in Nodes : NodeChanges(n)
    \/ SettingsChange \/ List \/ RecallLocally \/ RecallRemotely \/ Hints \/ MemoryRestarts
    \/ \E i \in Ids :
          \/ \E scope \in SUBSET Nodes, state \in Reviewed : Remember(i, scope, state) \/ Update(i, scope, state)
          \/ Forget(i) \/ SyncBegins(i) \/ Retained(i) \/ Acknowledged(i) \/ Unconfirmed(i)

MemorySpec == MemoryInit /\ [][MemoryNext]_memoryVars

------------------------------------------------------------------------------
RecalledIsCurrentStep ==
    recall' # recall => \A i \in recall'.items : Usable(i) /\ config.enabled

\* "Only current user-confirmed or validated records enter recall", also those that
\* were edited, forgotten, switched off or overtaken while hints were awaited.
RecalledIsCurrent == [][RecalledIsCurrentStep]_memoryVars

\* "A remote result can rank an entry only when [it matches] a known synced
\* projection": a record that says it is synced as it stands is on that server.
SyncedIsStored ==
    \A i \in Ids : record[i] # None /\ record[i].sync.status = "synced" =>
        [id |-> i, digest |-> record[i].sync.digest, at |-> record[i].sync.at] \in remote

LocalEditsStayStep ==
    \A i \in Ids : record[i] # None =>
       /\ record'[i] # None /\ record'[i].revision >= record[i].revision
       /\ record'[i].revision = record[i].revision =>
             \/ record'[i].state = record[i].state
             \/ record[i].state \in Accepted /\ record'[i].state = "stale"

\* "Local edits, exclusion, provenance invalidation, or deletion remain
\* authoritative": a late acknowledgement takes none of them back.
LocalEditsStay == [][LocalEditsStayStep]_memoryVars

ReviewIsOfThisStateStep ==
    \A i \in Ids : (record'[i] # None /\ record'[i].state \in Accepted /\ record[i] # record'[i]
                    /\ (record[i] = None \/ record'[i].revision # record[i].revision)) =>
       \A n \in record'[i].scope : record'[i].pins[n] = node[n] /\ node[n] # 0

\* What is confirmed is confirmed for the nodes of that moment: an accepted record
\* that is current was reviewed against exactly those nodes.
ReviewIsOfThisState == [][ReviewIsOfThisStateStep]_memoryVars

\* The inductive invariant behind SyncedIsStored; a late acknowledgement is of the
\* snapshot that was sent, and the server has that.
MemoryIInv == MemoryTypeOK /\ SyncedIsStored
==============================================================================
