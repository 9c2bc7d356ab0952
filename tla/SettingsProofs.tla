---------------------------- MODULE SettingsProofs ----------------------------
(***************************************************************************)
(* Proofs about ProviderConnections, Autodetect and Catalog, for any keys, *)
(* models and requests, any candidates and what they answer, any items,    *)
(* editors and texts, and any number of changes.                           *)
(*                                                                         *)
(* ProviderConnections: the invariant IInv.  A connection that changes     *)
(* what it stands for draws a new revision, so one that still has the      *)
(* revision of a pin is what was pinned.  When requests come one at a      *)
(* time, what a request has read is still there when its answer arrives.   *)
(*                                                                         *)
(* Autodetect: the invariant DetectIInv, about the candidates before the   *)
(* one that is asked.                                                      *)
(*                                                                         *)
(* Catalog: the invariant CatalogIInv.  A revision is appended under a     *)
(* comparison with the one that it says it was edited from.                *)
(***************************************************************************)
EXTENDS ProviderConnections, Autodetect, Catalog, SequenceTheorems, TLAPS

------------------------------------------------------------------------------
(***************************************************************************)
(* ProviderConnections                                                     *)
(***************************************************************************)
Connection ==
    [status : Statuses, model : Models \cup {None}, hasSecret : BOOLEAN, revision : 0 .. MaxRevision]

\* Deciding whether a request is idle by its operation.
LEMMA IdleByOperation ==
    ASSUME TypeOK, NEW r \in Requests
    PROVE  request[r] = Idle <=> request[r].op = "idle"
  BY DEF TypeOK, RequestTypeOK, Idle

\* One request that changes keeps the types of the others.
LEMMA RequestSet ==
    ASSUME TypeOK, NEW r \in Requests, NEW new, request' = [request EXCEPT ![r] = new],
           /\ new.op \in {"idle", "discover", "autodetect", "connect", "put"}
           /\ new.op = "idle" => new = Idle
           /\ new.op # "idle" => new.profile \in Profile
           /\ new.op \in {"discover", "autodetect", "connect"} => Kind = "hosted" /\ new.key \in Keys
           /\ new.op = "connect" => new.model \in Models
    PROVE  /\ DOMAIN request' = Requests /\ \A q \in Requests : RequestTypeOK(q)'
           /\ request'[r] = new /\ \A q \in Requests \ {r} : request'[q] = request[q]
<1>1. DOMAIN request' = Requests /\ request'[r] = new /\ \A q \in Requests \ {r} : request'[q] = request[q]
  BY DEF TypeOK
<1>2. \A q \in Requests : RequestTypeOK(q)'
  BY <1>1 DEF TypeOK, RequestTypeOK
<1> QED  BY <1>1, <1>2

\* What a connection becomes by a listing of the providers.
LEMMA DecoratedConnection ==
    ASSUME ConnectionsAssumption, NEW s \in Connection, NEW available \in BOOLEAN,
           Kind = "cli" => s.revision < MaxRevision
    PROVE  /\ Decorated(s, available) \in Connection
           /\ Decorated(s, available).hasSecret = s.hasSecret
           /\ Kind = "hosted" => Decorated(s, available) = s
           /\ s.status = "DISCONNECTED" => Decorated(s, available) = s
           /\ Kind = "cli" /\ Decorated(s, available).status = "CONNECTED" => available
<1>1. CASE Kind = "cli" /\ s.status = "NOT_CHECKED" /\ available
  BY <1>1 DEF Decorated, Connection, Statuses, ConnectionsAssumption
<1>2. CASE Kind = "cli" /\ s.status = "CONNECTED" /\ ~available
  <2>1. Decorated(s, available) = [s EXCEPT !.status = "DISCONNECTED", !.model = None, !.revision = s.revision + 1]
    BY <1>2 DEF Decorated
  <2>2. s.revision + 1 \in 0 .. MaxRevision
    BY <1>2 DEF Connection, ConnectionsAssumption
  <2> QED  BY <1>2, <2>1, <2>2 DEF Connection, Statuses, ConnectionsAssumption
<1>3. CASE ~(Kind = "cli" /\ s.status = "NOT_CHECKED" /\ available)
           /\ ~(Kind = "cli" /\ s.status = "CONNECTED" /\ ~available)
  <2>1. Decorated(s, available) = s
    BY <1>3 DEF Decorated
  <2> QED  BY <1>3, <2>1
<1> QED  BY <1>1, <1>2, <1>3

\* A connection that is set, and its revision.
LEMMA ChangedConnection ==
    ASSUME ConnectionsAssumption, NEW s \in Connection, NEW semantic \in BOOLEAN,
           semantic => s.revision < MaxRevision
    PROVE  /\ Changed(s, semantic) \in Connection
           /\ Changed(s, semantic).revision = IF semantic THEN s.revision + 1 ELSE s.revision
           /\ Changed(s, semantic).status = s.status /\ Changed(s, semantic).model = s.model
           /\ Changed(s, semantic).hasSecret = s.hasSecret
<1>1. (IF semantic THEN s.revision + 1 ELSE s.revision) \in 0 .. MaxRevision
  BY DEF Connection, ConnectionsAssumption
<1>2. Changed(s, semantic) = [s EXCEPT !.revision = IF semantic THEN s.revision + 1 ELSE s.revision]
  BY DEF Changed
<1> QED  BY <1>1, <1>2 DEF Connection

LEMMA InspectionTypes == ASSUME TypeOK, NEW force PROVE Inspection(force) \in BOOLEAN
  BY DEF TypeOK, Inspection

\* What ends a connection: it draws a new revision unless it had ended.
LEMMA EndedConnection ==
    ASSUME ConnectionsAssumption, TypeOK, NEW enabled \in BOOLEAN, Disconnects(enabled),
           state.revision + 1 < MaxRevision
    PROVE  /\ secret' = None /\ state' \in Connection /\ ~state'.hasSecret
           /\ inspected' \in BOOLEAN \cup {None}
           /\ state'.status = "DISCONNECTED" /\ state'.model = None
           /\ state'.revision >= state.revision
           /\ state.status = "CONNECTED" => state'.revision > state.revision
<1> DEFINE s == [status |-> "DISCONNECTED", hasSecret |-> FALSE, model |-> None, revision |-> state.revision]
           semantic == state.status # "DISCONNECTED" \/ state.hasSecret \/ enabled
           new == Changed(s, semantic)
<1>1. state \in Connection
  BY DEF TypeOK, Connection
<1>2. s \in Connection
  BY <1>1 DEF Connection, Statuses
<1>3. semantic \in BOOLEAN /\ state.revision \in Nat /\ s.revision < MaxRevision
      /\ s.revision + 1 < MaxRevision /\ MaxRevision \in Nat
  BY <1>1 DEF Connection, ConnectionsAssumption
<1>4. /\ secret' = None /\ state' = Decorated(new, Inspection(FALSE))
      /\ inspected' = IF Kind = "cli" THEN Inspection(FALSE) ELSE inspected
  BY DEF Disconnects, DroppedSecret, Providers
<1>5. s.status = "DISCONNECTED" /\ ~s.hasSecret /\ s.model = None /\ s.revision = state.revision
  OBVIOUS
<1>6. state.status = "CONNECTED" => semantic
  OBVIOUS
<1> HIDE DEF s, semantic
<1>7. /\ new \in Connection /\ new.revision = (IF semantic THEN s.revision + 1 ELSE s.revision)
      /\ new.status = "DISCONNECTED" /\ new.model = None /\ new.hasSecret = FALSE
  BY <1>2, <1>3, <1>5, ChangedConnection
<1> HIDE DEF new
<1>8. new.revision < MaxRevision /\ new.revision >= state.revision
      /\ (state.status = "CONNECTED" => new.revision > state.revision)
  BY <1>3, <1>5, <1>6, <1>7
<1>9. state' = new
  BY <1>4, <1>7, <1>8, DecoratedConnection, InspectionTypes
<1>10. inspected' \in BOOLEAN \cup {None}
  BY <1>4, InspectionTypes DEF TypeOK
<1> QED  BY <1>4, <1>7, <1>8, <1>9, <1>10


\* What the connection is: a step that leaves it keeps what is said of it.
LEMMA ListingKeeps ==
    ASSUME ConnectionsAssumption, IInv, NEW force \in BOOLEAN, ListProviders(force)
    PROVE  IInv'
<1> USE DEF IInv
<1>0. state \in Connection /\ state.revision < MaxRevision
  BY DEF TypeOK, Connection, ListProviders
<1>1. state' = Decorated(state, Inspection(force)) /\ inspected' \in BOOLEAN \cup {None}
  BY InspectionTypes DEF ListProviders, Providers, TypeOK
<1>2. /\ state' \in Connection /\ state'.hasSecret = state.hasSecret
      /\ Kind = "hosted" => state' = state
      /\ state.status = "DISCONNECTED" => state' = state
  BY <1>0, <1>1, DecoratedConnection, InspectionTypes
<1>3. UNCHANGED <<secret, profile, request, cli, pin, listed, left>>
  BY DEF ListProviders
<1>4. TypeOK'
  BY <1>1, <1>2, <1>3 DEF TypeOK, RequestTypeOK, Connection
<1>5. PinIsOfRevision'
  BY <1>2, <1>3 DEF PinIsOfRevision, TypeOK, ConnectionsAssumption
<1>6. ~Overlap => LeftAlone'
  BY <1>2, <1>3 DEF LeftAlone
<1>7. ~Overlap /\ Kind = "hosted" => RequestIsFresh' /\ ConnectedIsListed'
  BY <1>2, <1>3 DEF RequestIsFresh, ConnectedIsListed
<1> QED  BY <1>4, <1>5, <1>6, <1>7

\* A request that begins reads the profile, and is alone when requests do not overlap.
LEMMA BeginsKeeps ==
    ASSUME ConnectionsAssumption, IInv, NEW r \in Requests, NEW new, MayBegin(r),
           new.op \in {"discover", "autodetect", "connect", "put"}, new.profile = profile,
           new.op \in {"discover", "autodetect", "connect"} => Kind = "hosted" /\ new.key \in Keys,
           new.op = "connect" => new.model \in Models /\ new.key = secret,
           request' = [request EXCEPT ![r] = new], left' = FALSE,
           UNCHANGED <<secret, state, profile, cli, inspected, pin, listed>>
    PROVE  IInv'
<1> USE DEF IInv
<1>1. /\ DOMAIN request' = Requests /\ \A q \in Requests : RequestTypeOK(q)'
      /\ request'[r] = new /\ \A q \in Requests \ {r} : request'[q] = request[q]
  <2>1. profile \in Profile /\ new.op # "idle"
    BY DEF TypeOK
  <2> QED  BY <2>1, RequestSet
<1>2. TypeOK'
  BY <1>1 DEF TypeOK
<1>3. PinIsOfRevision'
  BY DEF PinIsOfRevision
<1>4. ~Overlap => LeftAlone'
  BY DEF LeftAlone
<1>5. ~Overlap /\ Kind = "hosted" => RequestIsFresh' /\ ConnectedIsListed'
  BY <1>1 DEF RequestIsFresh, ConnectedIsListed, MayBegin
<1> QED  BY <1>2, <1>3, <1>4, <1>5

LEMMA FailsKeeps ==
    ASSUME ConnectionsAssumption, IInv, NEW r \in Requests, Fails(r)
    PROVE  IInv'
<1> USE DEF IInv
<1>0. request' = [request EXCEPT ![r] = Idle] /\ Idle.op = "idle"
  BY DEF Fails, Idle
<1>1. /\ DOMAIN request' = Requests /\ \A q \in Requests : RequestTypeOK(q)'
      /\ request'[r] = Idle /\ \A q \in Requests \ {r} : request'[q] = request[q]
  BY <1>0, RequestSet
<1>2. UNCHANGED <<secret, state, profile, cli, inspected, pin, listed, left>>
  BY DEF Fails
<1>3. TypeOK'
  BY <1>1, <1>2 DEF TypeOK
<1>4. PinIsOfRevision'
  BY <1>2 DEF PinIsOfRevision
<1>5. ~Overlap => LeftAlone'
  BY <1>1, <1>2 DEF LeftAlone
<1>6. ~Overlap /\ Kind = "hosted" => RequestIsFresh' /\ ConnectedIsListed'
  BY <1>1, <1>2 DEF RequestIsFresh, ConnectedIsListed
<1> QED  BY <1>3, <1>4, <1>5, <1>6

\* A provider answers: a key that is known leaves the connection as it is.
LEMMA DiscoveredKeeps ==
    ASSUME ConnectionsAssumption, IInv, NEW r \in Requests, NEW models \in SUBSET Models,
           Discovered(r, models)
    PROVE  IInv'
<1> USE DEF IInv
<1> DEFINE k == request[r].key
           keeps == KeepsConnected(k)
           s == [status |-> IF keeps THEN "CONNECTED" ELSE "DISCOVERED", hasSecret |-> TRUE,
                 model |-> IF keeps THEN state.model ELSE None, revision |-> state.revision]
<1>0. /\ request[r].op \in {"discover", "autodetect"} /\ k \in Keys /\ Kind = "hosted"
      /\ request[r].profile \in Profile /\ state \in Connection /\ state.revision < MaxRevision
      /\ request[r] # Idle /\ state.revision \in Nat
  BY DEF Discovered, TypeOK, RequestTypeOK, Connection, Idle
<1>1. s \in Connection
  BY <1>0 DEF Connection, Statuses
<1>2. secret' = k /\ state' = Changed(s, secret # k) /\ listed' = listed \cup ({k} \X models)
      /\ UNCHANGED <<profile, cli, inspected, pin, left>>
  BY DEF Discovered
<1>3. s.revision < MaxRevision
  BY <1>0
<1> DEFINE changed == secret # k
<1>4. changed \in BOOLEAN /\ state' = Changed(s, changed)
  BY <1>2
<1>5. /\ s.revision = state.revision
      /\ s.status = "CONNECTED" => keeps
      /\ keeps => s.status = "CONNECTED" /\ s.model = state.model
  OBVIOUS
<1> HIDE DEF s, changed
<1>6. /\ state' \in Connection /\ state'.revision = (IF changed THEN s.revision + 1 ELSE s.revision)
      /\ state'.status = s.status /\ state'.model = s.model
  BY <1>1, <1>3, <1>4, ChangedConnection
<1>7. keeps <=> secret = k /\ state.status = "CONNECTED"
  BY DEF KeepsConnected
<1> HIDE DEF keeps
<1>8. \E new : /\ request' = [request EXCEPT ![r] = new]
               /\ \/ new = Idle
                  \/ /\ new.op = "connect" /\ new.key = k /\ new.model \in Models
                     /\ new.profile = request[r].profile
  <2>1. CASE ~(request[r].op = "autodetect" /\ models # {})
    BY <2>1 DEF Discovered
  <2>2. CASE request[r].op = "autodetect" /\ models # {}
    <3>1. PICK m \in (IF request[r].profile.model \in models THEN {request[r].profile.model} ELSE models) :
            request' = [request EXCEPT ![r] =
                          [op |-> "connect", key |-> k, model |-> m, profile |-> request[r].profile]]
      BY <2>2 DEF Discovered
    <3> DEFINE asks == [op |-> "connect", key |-> k, model |-> m, profile |-> request[r].profile]
    <3>2. /\ asks.op = "connect" /\ asks.key = k /\ asks.model \in Models
          /\ asks.profile = request[r].profile
      OBVIOUS
    <3>3. request' = [request EXCEPT ![r] = asks]
      BY <3>1
    <3> HIDE DEF asks
    <3> QED  BY <3>2, <3>3
  <2> QED  BY <2>1, <2>2
<1>9. PICK new : /\ request' = [request EXCEPT ![r] = new]
                 /\ \/ new = Idle
                    \/ /\ new.op = "connect" /\ new.key = k /\ new.model \in Models
                       /\ new.profile = request[r].profile
  BY <1>8
<1>10. /\ DOMAIN request' = Requests /\ \A q \in Requests : RequestTypeOK(q)'
       /\ request'[r] = new /\ \A q \in Requests \ {r} : request'[q] = request[q]
  <2>1. Idle.op = "idle"
    BY DEF Idle
  <2> HIDE DEF k
  <2> QED  BY <1>0, <1>9, <2>1, RequestSet
<1> HIDE DEF k
<1>11. TypeOK'
  BY <1>0, <1>2, <1>6, <1>10 DEF TypeOK, Connection
<1>12. PinIsOfRevision'
  <2> SUFFICES ASSUME pin # None
               PROVE  /\ pin.revision <= state'.revision
                      /\ pin.revision = state'.revision =>
                           /\ secret' = pin.key /\ state'.model = pin.connected
                           /\ state'.status = "CONNECTED"
    BY <1>2 DEF PinIsOfRevision
  <2>1. pin.revision \in Nat
    BY DEF TypeOK, Pinned
  <2>2. CASE changed
    BY <1>0, <1>5, <1>6, <2>1, <2>2 DEF PinIsOfRevision
  <2>3. CASE ~changed
    BY <1>0, <1>2, <1>5, <1>6, <1>7, <2>3 DEF PinIsOfRevision, changed
  <2> QED  BY <2>2, <2>3
<1>13. ~Overlap => LeftAlone'
  BY <1>0, <1>2 DEF LeftAlone
<1>14. ~Overlap => RequestIsFresh'
  BY <1>0, <1>2, <1>9, <1>10 DEF RequestIsFresh
<1>15. ~Overlap => ConnectedIsListed'
  BY <1>0, <1>2, <1>5, <1>6, <1>7 DEF ConnectedIsListed
<1> QED  BY <1>11, <1>12, <1>13, <1>14, <1>15


LEMMA PersistedProfile ==
    ASSUME TypeOK, NEW read \in Profile, NEW m \in Models \cup {None}
    PROVE  /\ Persisted(read, m) \in Profile
           /\ m # None /\ read = profile => Persisted(read, m).model = m
  BY DEF Persisted, Profile, TypeOK

\* A model is connected: with the key that the request has sent, whatever is kept now.
LEMMA ConnectedKeeps ==
    ASSUME ConnectionsAssumption, IInv, NEW r \in Requests, Connected(r)
    PROVE  IInv'
<1> USE DEF IInv
<1> DEFINE m == request[r].model
           s == [status |-> "CONNECTED", hasSecret |-> TRUE, model |-> m, revision |-> state.revision]
           semantic == state.status # "CONNECTED" \/ state.model # m
<1>0. /\ request[r].op = "connect" /\ request[r].key \in Keys /\ Kind = "hosted" /\ m \in Models
      /\ request[r].profile \in Profile /\ state \in Connection /\ state.revision < MaxRevision
      /\ request[r] # Idle /\ state.revision \in Nat /\ m # None
  BY DEF Connected, TypeOK, RequestTypeOK, Connection, Idle, ConnectionsAssumption
<1>1. s \in Connection
  BY <1>0 DEF Connection, Statuses
<1>2. /\ state' = Changed(s, semantic) /\ profile' = Persisted(request[r].profile, m)
      /\ listed' = listed \cup {<<request[r].key, m>>} /\ request' = [request EXCEPT ![r] = Idle]
      /\ UNCHANGED <<secret, cli, inspected, pin, left>>
  BY DEF Connected
<1>3. semantic \in BOOLEAN
  OBVIOUS
<1>4. s.revision = state.revision /\ s.status = "CONNECTED" /\ s.model = m
  OBVIOUS
<1>5. ~semantic => state.status = "CONNECTED" /\ state.model = m
  OBVIOUS
<1> HIDE DEF s, semantic, m
<1>6. /\ state' \in Connection /\ state'.revision = (IF semantic THEN s.revision + 1 ELSE s.revision)
      /\ state'.status = "CONNECTED" /\ state'.model = m
  BY <1>0, <1>1, <1>2, <1>3, <1>4, ChangedConnection
<1>7. /\ DOMAIN request' = Requests /\ \A q \in Requests : RequestTypeOK(q)'
      /\ request'[r] = Idle /\ \A q \in Requests \ {r} : request'[q] = request[q]
  <2>1. Idle.op = "idle"
    BY DEF Idle
  <2> QED  BY <1>2, <2>1, RequestSet
<1>8. profile' \in Profile /\ (request[r].profile = profile => profile'.model = m)
  BY <1>0, <1>2, PersistedProfile
<1>9. TypeOK'
  BY <1>0, <1>2, <1>6, <1>7, <1>8 DEF TypeOK, Connection
<1>10. PinIsOfRevision'
  <2> SUFFICES ASSUME pin # None
               PROVE  /\ pin.revision <= state'.revision
                      /\ pin.revision = state'.revision =>
                           /\ secret' = pin.key /\ state'.model = pin.connected
                           /\ state'.status = "CONNECTED"
    BY <1>2 DEF PinIsOfRevision
  <2>1. pin.revision \in Nat
    BY DEF TypeOK, Pinned
  <2>2. CASE semantic
    BY <1>0, <1>4, <1>6, <2>1, <2>2 DEF PinIsOfRevision
  <2>3. CASE ~semantic
    BY <1>0, <1>2, <1>4, <1>5, <1>6, <2>3 DEF PinIsOfRevision
  <2> QED  BY <1>3, <2>2, <2>3
<1>11. ~Overlap => LeftAlone'
  BY <1>0, <1>2 DEF LeftAlone
<1>12. ~Overlap => RequestIsFresh'
  BY <1>0, <1>7 DEF RequestIsFresh
<1>13. ~Overlap => ConnectedIsListed'
  BY <1>0, <1>2, <1>6, <1>8 DEF ConnectedIsListed, RequestIsFresh
<1> QED  BY <1>9, <1>10, <1>11, <1>12, <1>13

\* After a connection has ended a pin has another revision.
LEMMA PinOfEnded ==
    ASSUME TypeOK, PinIsOfRevision, state' \in Connection, state \in Connection,
           pin' = pin, state'.revision >= state.revision,
           state.status = "CONNECTED" => state'.revision > state.revision
    PROVE  PinIsOfRevision'
<1>1. ASSUME pin # None
      PROVE  pin.revision < state'.revision /\ pin.revision \in Nat /\ state'.revision \in Nat
  <2>1. pin.revision \in Nat /\ state.revision \in Nat /\ state'.revision \in Nat
    BY <1>1 DEF TypeOK, Pinned, Connection
  <2> QED  BY <1>1, <2>1 DEF PinIsOfRevision
<1>2. pin # None => pin.revision <= state'.revision /\ pin.revision # state'.revision
  BY <1>1
<1> QED  BY <1>2 DEF PinIsOfRevision

LEMMA DisconnectKeeps ==
    ASSUME ConnectionsAssumption, IInv, Disconnect
    PROVE  IInv'
<1> USE DEF IInv
<1>0. profile \in Profile /\ profile.enabled \in BOOLEAN /\ state \in Connection
  BY DEF TypeOK, Profile, Connection
<1>1. /\ secret' = None /\ state' \in Connection /\ ~state'.hasSecret
      /\ inspected' \in BOOLEAN \cup {None}
      /\ state'.status = "DISCONNECTED" /\ state'.model = None
      /\ state'.revision >= state.revision
      /\ state.status = "CONNECTED" => state'.revision > state.revision
  BY <1>0, EndedConnection DEF Disconnect
<1>2. /\ profile' = [profile EXCEPT !.enabled = FALSE] /\ left' = TRUE
      /\ UNCHANGED <<request, cli, pin, listed>>
      /\ Overlap \/ \A q \in Requests : request[q] = Idle
  BY DEF Disconnect
<1>3. profile' \in Profile /\ ~profile'.enabled
  BY <1>0, <1>2 DEF Profile
<1>4. TypeOK'
  BY <1>1, <1>2, <1>3 DEF TypeOK, RequestTypeOK, Connection
<1>5. PinIsOfRevision'
  BY <1>0, <1>1, <1>2, PinOfEnded
<1>6. ~Overlap => LeftAlone'
  BY <1>1, <1>2, <1>3 DEF LeftAlone
<1>7. ~Overlap => RequestIsFresh' /\ ConnectedIsListed'
  BY <1>1, <1>2 DEF RequestIsFresh, ConnectedIsListed
<1> QED  BY <1>4, <1>5, <1>6, <1>7

\* A profile that is written ends the connection or has the model it had.
LEMMA PutKeeps ==
    ASSUME ConnectionsAssumption, IInv, NEW r \in Requests, NEW new \in Profile, Put(r, new)
    PROVE  IInv'
<1> USE DEF IInv
<1> DEFINE read == request[r].profile
<1>0. /\ request[r].op = "put" /\ request[r] # Idle /\ read \in Profile
      /\ state \in Connection /\ state.revision + 1 < MaxRevision /\ state.revision \in Nat
  BY DEF Put, TypeOK, RequestTypeOK, Connection, Idle
<1>1. /\ profile' = (IF new # read THEN new ELSE profile)
      /\ request' = [request EXCEPT ![r] = Idle]
      /\ UNCHANGED <<cli, pin, listed, left>>
  BY DEF Put
<1>2. profile' \in Profile /\ profile'.enabled \in BOOLEAN
  BY <1>1 DEF TypeOK, Profile
<1>3. /\ DOMAIN request' = Requests /\ \A q \in Requests : RequestTypeOK(q)'
      /\ request'[r] = Idle /\ \A q \in Requests \ {r} : request'[q] = request[q]
  <2>1. Idle.op = "idle"
    BY DEF Idle
  <2> QED  BY <1>1, <2>1, RequestSet
<1>4. ~left \/ Overlap
  BY <1>0 DEF LeftAlone
<1>5. CASE EndsConnection(read, profile')
  <2>1. /\ secret' = None /\ state' \in Connection /\ ~state'.hasSecret
        /\ inspected' \in BOOLEAN \cup {None}
        /\ state'.status = "DISCONNECTED" /\ state'.model = None
        /\ state'.revision >= state.revision
        /\ state.status = "CONNECTED" => state'.revision > state.revision
    <3>1. Disconnects(profile'.enabled)
      BY <1>5 DEF Put
    <3> QED  BY <1>0, <1>2, <3>1, EndedConnection
  <2>2. TypeOK'
    BY <1>1, <1>2, <1>3, <2>1 DEF TypeOK, Connection
  <2>3. PinIsOfRevision'
    BY <1>0, <1>1, <2>1, PinOfEnded
  <2>4. ~Overlap => LeftAlone'
    BY <1>1, <1>4 DEF LeftAlone
  <2>5. ~Overlap /\ Kind = "hosted" => RequestIsFresh' /\ ConnectedIsListed'
    BY <1>0, <1>3, <2>1 DEF RequestIsFresh, ConnectedIsListed
  <2> QED  BY <2>2, <2>3, <2>4, <2>5
<1>6. CASE ~EndsConnection(read, profile')
  <2>1. /\ secret' = secret /\ state' = Decorated(state, Inspection(FALSE))
        /\ inspected' \in BOOLEAN \cup {None}
    BY <1>6, InspectionTypes DEF Put, Providers, TypeOK
  <2>2. /\ state' \in Connection /\ state'.hasSecret = state.hasSecret
        /\ Kind = "hosted" => state' = state
    <3>1. state.revision < MaxRevision
      BY <1>0 DEF ConnectionsAssumption
    <3>2. Kind \in {"hosted", "cli"} /\ Inspection(FALSE) \in BOOLEAN
      BY InspectionTypes DEF ConnectionsAssumption, TypeOK
    <3> QED  BY <1>0, <2>1, <3>1, <3>2, DecoratedConnection
  <2>3. profile'.model = read.model
    BY <1>6 DEF EndsConnection
  <2>4. TypeOK'
    BY <1>1, <1>2, <1>3, <2>1, <2>2 DEF TypeOK, Connection
  <2>5. PinIsOfRevision'
    BY <1>1, <2>1, <2>2 DEF PinIsOfRevision, TypeOK, ConnectionsAssumption
  <2>6. ~Overlap => LeftAlone'
    BY <1>1, <1>4 DEF LeftAlone
  <2>7. ~Overlap /\ Kind = "hosted" => RequestIsFresh'
    BY <1>0, <1>3 DEF RequestIsFresh
  <2>8. ~Overlap /\ Kind = "hosted" => ConnectedIsListed'
    BY <1>0, <1>1, <2>1, <2>2, <2>3 DEF RequestIsFresh, ConnectedIsListed
  <2> QED  BY <2>4, <2>5, <2>6, <2>7, <2>8
<1> QED  BY <1>5, <1>6

\* A command is connected by an inspection of this moment.
LEMMA ConnectCliKeeps ==
    ASSUME ConnectionsAssumption, IInv, NEW connects \in BOOLEAN, ConnectCli(connects)
    PROVE  IInv'
<1> USE DEF IInv
<1> DEFINE s == [state EXCEPT !.status = IF connects THEN "CONNECTED" ELSE "DISCOVERED", !.model = None]
           semantic == connects /\ (state.status # "CONNECTED" \/ state.model # None)
           found == Changed(s, semantic)
<1>0. /\ Kind = "cli" /\ state \in Connection /\ state.revision + 1 < MaxRevision
      /\ state.revision \in Nat /\ MaxRevision \in Nat /\ pin = None /\ ~state.hasSecret
  BY DEF ConnectCli, TypeOK, Connection, ConnectionsAssumption
<1>1. s \in Connection /\ s.revision = state.revision /\ s.hasSecret = state.hasSecret
  BY <1>0 DEF Connection, Statuses
<1>2. semantic \in BOOLEAN
  OBVIOUS
<1>3. /\ state' = Decorated(found, Inspection(TRUE)) /\ inspected' = Inspection(TRUE)
      /\ profile' = (IF connects THEN Persisted(profile, None) ELSE profile) /\ left' = FALSE
      /\ UNCHANGED <<secret, request, cli, pin, listed>>
  BY <1>0 DEF ConnectCli, Providers
<1> HIDE DEF s, semantic
<1>4. /\ found \in Connection /\ found.hasSecret = s.hasSecret
      /\ found.revision = (IF semantic THEN s.revision + 1 ELSE s.revision)
  BY <1>0, <1>1, <1>2, ChangedConnection
<1> HIDE DEF found
<1>5. found.revision < MaxRevision
  BY <1>0, <1>1, <1>4
<1>6. state' \in Connection /\ ~state'.hasSecret
  <2>1. Inspection(TRUE) \in BOOLEAN
    BY InspectionTypes DEF TypeOK
  <2> QED  BY <1>0, <1>1, <1>3, <1>4, <1>5, <2>1, DecoratedConnection
<1>7. profile' \in Profile
  BY <1>3, PersistedProfile DEF TypeOK
<1>8. TypeOK'
  BY <1>0, <1>3, <1>6, <1>7, InspectionTypes DEF TypeOK, RequestTypeOK, Connection
<1>9. PinIsOfRevision' /\ LeftAlone'
  BY <1>0, <1>3 DEF PinIsOfRevision, LeftAlone
<1> QED  BY <1>0, <1>8, <1>9

LEMMA PinProviderKeeps ==
    ASSUME ConnectionsAssumption, IInv, PinProvider
    PROVE  IInv'
<1> USE DEF IInv
<1> DEFINE new == [model |-> profile.model, revision |-> state.revision, key |-> secret, connected |-> state.model]
<1>0. pin' = new /\ Usable /\ Kind = "hosted" /\ UNCHANGED <<secret, state, profile, request, cli, inspected, listed, left>>
  BY DEF PinProvider
<1>1. new \in Pinned
  BY DEF TypeOK, Profile, Pinned, ConnectionsAssumption
<1>2. new.revision = state.revision /\ new.key = secret /\ new.connected = state.model /\ state.revision \in Nat
  BY DEF TypeOK, ConnectionsAssumption
<1> HIDE DEF new
<1>3. TypeOK'
  BY <1>0, <1>1, ConnectionsAssumption DEF TypeOK, RequestTypeOK, ConnectionsAssumption
<1>4. PinIsOfRevision'
  BY <1>0, <1>2 DEF PinIsOfRevision, Usable
<1>5. (~Overlap => LeftAlone') /\ (~Overlap /\ Kind = "hosted" => RequestIsFresh' /\ ConnectedIsListed')
  BY <1>0 DEF LeftAlone, RequestIsFresh, ConnectedIsListed
<1> QED  BY <1>3, <1>4, <1>5

LEMMA InitIInv == ConnectionsAssumption /\ Init => IInv
<1> SUFFICES ASSUME ConnectionsAssumption, Init PROVE IInv
  OBVIOUS
<1>1. TypeOK
  <2>1. /\ secret \in Keys \cup {None} /\ profile \in Profile /\ cli \in BOOLEAN /\ inspected \in BOOLEAN \cup {None}
        /\ pin \in Pinned \cup {None} /\ listed \subseteq Keys \X Models /\ left \in BOOLEAN
    BY DEF Init, Profile
  <2>2. state \in Connection /\ ~state.hasSecret
    BY DEF Init, NoState, Connection, Statuses, ConnectionsAssumption
  <2>3. DOMAIN request = Requests /\ \A r \in Requests : request[r] = Idle
    BY DEF Init
  <2>4. \A r \in Requests : RequestTypeOK(r)
    BY <2>3 DEF RequestTypeOK, Idle
  <2>5. secret = None /\ pin = None
    BY DEF Init
  <2> QED  BY <2>1, <2>2, <2>3, <2>4, <2>5 DEF TypeOK, Connection
<1>2. PinIsOfRevision /\ LeftAlone /\ RequestIsFresh /\ ConnectedIsListed
  BY DEF Init, PinIsOfRevision, LeftAlone, RequestIsFresh, ConnectedIsListed, NoState
<1> QED  BY <1>1, <1>2 DEF IInv

LEMMA NextIInv == ConnectionsAssumption /\ IInv /\ [Next]_vars => IInv'
<1> SUFFICES ASSUME ConnectionsAssumption, IInv, [Next]_vars
             PROVE  IInv'
  OBVIOUS
<1>1. CASE UNCHANGED <<secret, state, profile, request, pin, listed, left>>
           /\ cli' \in BOOLEAN /\ inspected' \in BOOLEAN \cup {None}
  BY <1>1 DEF IInv, TypeOK, RequestTypeOK, PinIsOfRevision, LeftAlone, RequestIsFresh, ConnectedIsListed
<1>2. CASE UNCHANGED vars \/ CliChanges \/ InspectionExpires
  BY <1>1, <1>2 DEF vars, CliChanges, InspectionExpires, IInv, TypeOK
<1>3. ASSUME NEW force \in BOOLEAN, ListProviders(force) PROVE IInv'
  BY <1>3, ListingKeeps
<1>4. CASE Disconnect
  BY <1>4, DisconnectKeeps
<1>5. CASE PinProvider
  BY <1>5, PinProviderKeeps
<1>6. ASSUME NEW connects \in BOOLEAN, ConnectCli(connects) PROVE IInv'
  BY <1>6, ConnectCliKeeps
<1>7. ASSUME NEW r \in Requests, NEW k \in Keys, NEW op \in {"discover", "autodetect"}, DiscoverBegins(r, op, k)
      PROVE  IInv'
  <2> DEFINE new == [op |-> op, key |-> k, profile |-> profile]
  <2>1. new.op = op /\ new.key = k /\ new.profile = profile
    OBVIOUS
  <2>2. /\ Kind = "hosted" /\ MayBegin(r) /\ request' = [request EXCEPT ![r] = new] /\ left' = FALSE
        /\ UNCHANGED <<secret, state, profile, cli, inspected, pin, listed>>
    BY <1>7 DEF DiscoverBegins
  <2> HIDE DEF new
  <2> QED  BY <1>7, <2>1, <2>2, BeginsKeeps
<1>8. ASSUME NEW r \in Requests, NEW m \in Models, ConnectBegins(r, m) PROVE IInv'
  <2> DEFINE new == [op |-> "connect", key |-> secret, model |-> m, profile |-> profile]
  <2>1. new.op = "connect" /\ new.key = secret /\ new.model = m /\ new.profile = profile
    OBVIOUS
  <2>2. /\ Kind = "hosted" /\ MayBegin(r) /\ request' = [request EXCEPT ![r] = new] /\ left' = FALSE
        /\ UNCHANGED <<secret, state, profile, cli, inspected, pin, listed>> /\ secret \in Keys
    BY <1>8 DEF ConnectBegins, IInv, TypeOK
  <2> HIDE DEF new
  <2> QED  BY <1>8, <2>1, <2>2, BeginsKeeps
<1>9. ASSUME NEW r \in Requests, PutBegins(r) PROVE IInv'
  <2> DEFINE new == [op |-> "put", profile |-> profile]
  <2>1. new.op = "put" /\ new.profile = profile
    OBVIOUS
  <2>2. /\ MayBegin(r) /\ request' = [request EXCEPT ![r] = new] /\ left' = FALSE
        /\ UNCHANGED <<secret, state, profile, cli, inspected, pin, listed>>
    BY <1>9 DEF PutBegins
  <2> HIDE DEF new
  <2> QED  BY <1>9, <2>1, <2>2, BeginsKeeps
<1>10. ASSUME NEW r \in Requests, NEW models \in SUBSET Models, Discovered(r, models) PROVE IInv'
  BY <1>10, DiscoveredKeeps
<1>11. ASSUME NEW r \in Requests, NEW new \in Profile, Put(r, new) PROVE IInv'
  BY <1>11, PutKeeps
<1>12. ASSUME NEW r \in Requests, Connected(r) \/ Fails(r) PROVE IInv'
  BY <1>12, ConnectedKeeps, FailsKeeps
<1> QED  BY <1>2, <1>3, <1>4, <1>5, <1>6, <1>7, <1>8, <1>9, <1>10, <1>11, <1>12 DEF Next

\* What a plan pins is what it runs with, for any requests that overlap.
LEMMA PinsHold == ASSUME ConnectionsAssumption, IInv PROVE PinHolds
  BY DEF IInv, PinIsOfRevision, PinHolds

\* With requests one at a time, a provider that was left stays left, and a profile that
\* can be used was verified with the key that is kept.
LEMMA AloneShows ==
    ASSUME ConnectionsAssumption, IInv
    PROVE  ~Overlap => LeftStaysLeft /\ UsableIsVerified
  BY DEF IInv, LeftAlone, ConnectedIsListed, LeftStaysLeft, UsableIsVerified, Usable

LEMMA InspectedStep ==
    ConnectionsAssumption /\ IInv /\ [Next]_vars => ReadyIsInspectedStep
<1> SUFFICES ASSUME ConnectionsAssumption, IInv, [Next]_vars,
                    Kind = "cli", inspected' = FALSE, inspected' # inspected
             PROVE  state'.status # "CONNECTED"
  BY DEF ReadyIsInspectedStep
<1>1. ASSUME NEW s, NEW force, Providers(s, force) PROVE state'.status # "CONNECTED"
  BY <1>1 DEF Providers, Decorated
<1>2. ~InspectionExpires
  BY DEF InspectionExpires, ConnectionsAssumption
<1>3. ASSUME NEW enabled, Disconnects(enabled) PROVE state'.status # "CONNECTED"
  BY <1>1, <1>3 DEF Disconnects
<1>4. ASSUME NEW force \in BOOLEAN, ListProviders(force) PROVE state'.status # "CONNECTED"
  BY <1>1, <1>4 DEF ListProviders
<1>5. ASSUME NEW connects \in BOOLEAN, ConnectCli(connects) PROVE state'.status # "CONNECTED"
  BY <1>1, <1>5 DEF ConnectCli
<1>6. CASE Disconnect
  BY <1>3, <1>6 DEF Disconnect
<1>7. ASSUME NEW r \in Requests, NEW new \in Profile, Put(r, new) PROVE state'.status # "CONNECTED"
  BY <1>1, <1>3, <1>7 DEF Put
<1>8. ASSUME NEW r \in Requests,
             \/ \E k \in Keys, op \in {"discover", "autodetect"} : DiscoverBegins(r, op, k)
             \/ \E m \in Models : ConnectBegins(r, m)
             \/ \E models \in SUBSET Models : Discovered(r, models)
             \/ Connected(r) \/ PutBegins(r) \/ Fails(r)
      PROVE  FALSE
  BY <1>8 DEF DiscoverBegins, ConnectBegins, Discovered, Connected, PutBegins, Fails
<1>9. ~CliChanges /\ ~PinProvider /\ ~UNCHANGED vars
  BY DEF CliChanges, PinProvider, vars
<1> QED  BY <1>2, <1>4, <1>5, <1>6, <1>7, <1>8, <1>9 DEF Next

\* "Provider connection and selected model are verified for chat and AI planning": what a
\* plan pins is what it runs with, whatever was discovered, disconnected and connected in
\* between, and a listing never leaves a connection its own inspection of the command denies.
\* As long as no request begins while another one waits, a provider that was disconnected
\* stays so until somebody asks for it again, and a profile that can be used names a model
\* its provider listed for the key in use.
THEOREM ConnectionsAreVerified ==
    ASSUME ConnectionsAssumption
    PROVE  Spec => []PinHolds /\ ReadyIsInspected /\ [](~Overlap => LeftStaysLeft /\ UsableIsVerified)
  BY InitIInv, NextIInv, PinsHold, AloneShows, InspectedStep, PTL DEF Spec, ReadyIsInspected

------------------------------------------------------------------------------
(***************************************************************************)
(* Autodetect                                                              *)
(***************************************************************************)
ConnRow ==
    [status : {"NOT_CHECKED", "DISCOVERED", "CONNECTED", "DISCONNECTED"},
     key : {"env", "user", Unset}, model : DetectModels \cup {Unset}]

\* The candidates are numbered from 1, each is a provider.
LEMMA Candidates ==
    ASSUME AutodetectAssumption
    PROVE  /\ DOMAIN Order = 1 .. Len(Order) /\ Len(Order) \in Nat
           /\ \A i \in DOMAIN Order : Order[i] \in Provider
           /\ \A p \in Provider : \E i \in DOMAIN Order : Order[i] = p
           /\ \A i, j \in DOMAIN Order : Order[i] = Order[j] => i = j
           /\ Unset \notin DetectModels /\ Unset \notin Results /\ Unset \notin ProfileRow
           /\ Unset # "env" /\ Unset # "user"
           /\ \A p \in Provider : Offers[p] \subseteq DetectModels /\ KindOf[p] \in {"hosted", "local", "cli"}
           /\ \A p \in WithKey : KindOf[p] = "hosted"
<1>1. Order \in Seq(Provider)
  BY DEF AutodetectAssumption
<1>2. DOMAIN Order = 1 .. Len(Order) /\ Len(Order) \in Nat /\ \A i \in DOMAIN Order : Order[i] \in Provider
  BY <1>1
<1>3. \A p \in Provider : \E i \in DOMAIN Order : Order[i] = p
  BY DEF Provider
<1> QED  BY <1>2, <1>3 DEF AutodetectAssumption

\* A candidate that has its result leaves those before it as they were.
LEMMA CandidateAnswers ==
    ASSUME AutodetectAssumption, DetectTypeOK, AnsweredSoFar, NEW p \in Provider, NEW result \in Results,
           Asks(p), Answers(p, result),
           \A q \in Provider \ {p} :
               conn'[q] = conn[q] /\ detectProfile'[q] = detectProfile[q] /\ (q \in failed' <=> q \in failed),
           p \in Registered \ failed' /\ (KindOf[p] = "hosted" => p \in WithKey) => result = "connected"
    PROVE  /\ at' \in 0 .. Len(Order) + 1 /\ phase' = "next"
           /\ results' \in [Provider -> Results \cup {Unset}] /\ AnsweredSoFar'
           /\ InUseSoFar /\ (result = "connected" => InUse(p)') => InUseSoFar'
<1>0. at \in 1 .. Len(Order) /\ Order[at] = p /\ at' = at + 1 /\ phase' = "next" /\ at \in DOMAIN Order
  BY Candidates DEF Asks, Answers
<1>1. results' = [results EXCEPT ![p] = result] /\ results \in [Provider -> Results \cup {Unset}]
  BY DEF Answers, DetectTypeOK
<1>2. /\ results' \in [Provider -> Results \cup {Unset}] /\ results'[p] = result
      /\ \A q \in Provider \ {p} : results'[q] = results[q]
  BY <1>1
<1>3. ASSUME NEW i \in DOMAIN Order, i < at'
      PROVE  i = at \/ (i < at /\ Order[i] \in Provider \ {p})
  BY <1>0, <1>3, Candidates
<1>4. Answered(p)'
  BY <1>2, Candidates DEF Answered
<1>5. ASSUME NEW i \in DOMAIN Order, i < at' PROVE Answered(Order[i])'
  <2>1. CASE i = at
    BY <1>0, <1>4, <2>1
  <2>2. CASE i < at /\ Order[i] \in Provider \ {p}
    <3>1. Answered(Order[i])
      BY <2>2 DEF AnsweredSoFar
    <3> QED  BY <1>2, <2>2, <3>1 DEF Answered
  <2> QED  BY <1>3, <1>5, <2>1, <2>2
<1>6. ASSUME InUseSoFar, result = "connected" => InUse(p)',
             NEW i \in DOMAIN Order, i < at', results'[Order[i]] = "connected"
      PROVE  InUse(Order[i])'
  <2>1. CASE i = at
    BY <1>0, <1>2, <1>6, <2>1
  <2>2. CASE i < at /\ Order[i] \in Provider \ {p}
    <3>1. InUse(Order[i])
      BY <1>2, <1>6, <2>2 DEF InUseSoFar
    <3> QED  BY <2>2, <3>1 DEF InUse
  <2> QED  BY <1>3, <1>6, <2>1, <2>2
<1> QED  BY <1>0, <1>2, <1>5, <1>6, Candidates DEF AnsweredSoFar, InUseSoFar

\* The round before and between the questions.
LEMMA RoundKeeps ==
    ASSUME AutodetectAssumption, DetectIInv, Begins \/ Returns
    PROVE  DetectIInv'
<1> USE DEF DetectIInv
<1>1. /\ at' \in {0, 1} /\ phase' = "next" /\ UNCHANGED <<conn, detectProfile>>
  BY Candidates DEF Begins, Returns, DetectTypeOK, Ended
<1>2. /\ results' \in [Provider -> Results \cup {Unset}] /\ failed' \subseteq Provider /\ rounds' \in 0 .. MaxRounds
  BY DEF Begins, Returns, DetectTypeOK, AutodetectAssumption
<1>3. DetectTypeOK'
  BY <1>1, <1>2, Candidates DEF DetectTypeOK
<1>4. AnsweredSoFar' /\ InUseSoFar' /\ AskedIsFresh'
  BY <1>1, Candidates DEF AnsweredSoFar, InUseSoFar, AskedIsFresh
<1> QED  BY <1>3, <1>4

\* A provider with nothing to ask, or that fails, has its result.
LEMMA SkippedKeeps ==
    ASSUME AutodetectAssumption, DetectIInv, NEW p \in Provider, Skips(p) \/ DetectFails(p) \/ SkipsCli(p)
    PROVE  DetectIInv'
<1> USE DEF DetectIInv
<1>1. PICK result \in {"unavailable", "skipped", "failed"} :
         /\ Asks(p) /\ Answers(p, result) /\ UNCHANGED <<conn, detectProfile, rounds>>
         /\ failed' = failed \/ failed' = failed \cup {p}
         /\ p \in Registered \ failed' => KindOf[p] = "hosted" /\ p \notin WithKey
  BY DEF Skips, DetectFails, SkipsCli, AnswersFailure
<1>2. result \in Results /\ result # "connected"
  BY DEF Results
<1>3. \A q \in Provider \ {p} :
          conn'[q] = conn[q] /\ detectProfile'[q] = detectProfile[q] /\ (q \in failed' <=> q \in failed)
  BY <1>1
<1>4. /\ at' \in 0 .. Len(Order) + 1 /\ phase' = "next"
      /\ results' \in [Provider -> Results \cup {Unset}] /\ AnsweredSoFar'
      /\ InUseSoFar => InUseSoFar'
  BY <1>1, <1>2, <1>3, CandidateAnswers
<1>5. DetectTypeOK'
  BY <1>1, <1>4 DEF DetectTypeOK
<1> QED  BY <1>4, <1>5 DEF AskedIsFresh

\* A provider is asked for its models: its profile is read.
LEMMA AskedKeeps ==
    ASSUME AutodetectAssumption, DetectIInv, NEW p \in Provider, AsksModels(p)
    PROVE  DetectIInv'
<1> USE DEF DetectIInv
<1>1. /\ at \in 1 .. Len(Order) /\ Order[at] = p /\ p \in Registered /\ KindOf[p] # "cli"
      /\ phase' = "discover" /\ existing' = detectProfile[p]
      /\ UNCHANGED <<at, chosen, conn, detectProfile, results, failed, rounds>>
  BY Candidates DEF AsksModels, Asks
<1>2. detectProfile[p] \in ProfileRow
  BY DEF DetectTypeOK
<1>3. DetectTypeOK'
  BY <1>1, <1>2 DEF DetectTypeOK
<1>4. AnsweredSoFar' /\ (InUseSoFar => InUseSoFar')
  BY <1>1 DEF AnsweredSoFar, InUseSoFar, Answered, InUse
<1>5. AskedIsFresh'
  BY <1>1 DEF AskedIsFresh
<1> QED  BY <1>3, <1>4, <1>5

\* The models arrive.
LEMMA DiscoversKeeps ==
    ASSUME AutodetectAssumption, DetectIInv, NEW p \in Provider, Discovers(p)
    PROVE  DetectIInv'
<1> USE DEF DetectIInv
<1> DEFINE row == IF KindOf[p] = "hosted" /\ DetectKeepsConnected(p) THEN conn[p]
                  ELSE [status |-> "DISCOVERED", key |-> IF KindOf[p] = "hosted" THEN "env" ELSE Unset, model |-> Unset]
<1>1. /\ at \in 1 .. Len(Order) /\ Order[at] = p /\ phase = "discover" /\ phase' = "connect"
      /\ conn' = [conn EXCEPT ![p] = row] /\ chosen' \in Selected(p) /\ at \in DOMAIN Order
      /\ UNCHANGED <<at, existing, detectProfile, results, failed, rounds>>
  BY Candidates DEF Discovers, Asks
<1>2. /\ conn \in [Provider -> ConnRow] /\ p \in Registered /\ existing \in ProfileRow /\ KindOf[p] # "cli"
  BY <1>1 DEF DetectTypeOK, ConnRow
<1>3. row \in ConnRow /\ (KindOf[p] = "hosted" => row.key = "env") /\ (KindOf[p] # "hosted" => row.key = Unset)
  BY <1>2 DEF ConnRow, DetectKeepsConnected
<1> HIDE DEF row
<1>4. conn' \in [Provider -> ConnRow] /\ conn'[p] = row /\ \A q \in Provider \ {p} : conn'[q] = conn[q]
  BY <1>1, <1>2, <1>3
<1>5. chosen' \in Offers[p] /\ (existing.model \in Offers[p] => chosen' = existing.model)
  BY <1>1 DEF Selected
<1>6. DetectTypeOK'
  BY <1>1, <1>2, <1>3, <1>4, <1>5 DEF DetectTypeOK, ConnRow
<1>7. AnsweredSoFar'
  BY <1>1 DEF AnsweredSoFar, Answered
<1>8. InUseSoFar => InUseSoFar'
  <2> SUFFICES ASSUME InUseSoFar, NEW i \in DOMAIN Order, i < at, results[Order[i]] = "connected"
               PROVE  InUse(Order[i])'
    BY <1>1 DEF InUseSoFar
  <2>1. InUse(Order[i])
    BY DEF InUseSoFar
  <2>2. Order[i] \in Provider \ {p}
    BY <1>1, Candidates
  <2> QED  BY <1>1, <1>4, <2>1, <2>2 DEF InUse
<1>9. AskedIsFresh => AskedIsFresh'
  BY <1>1, <1>3, <1>4, <1>5 DEF AskedIsFresh
<1> QED  BY <1>6, <1>7, <1>8, <1>9

\* What connects is written to the profile, which has not moved when the user waited.
LEMMA DetectedKeeps ==
    ASSUME AutodetectAssumption, DetectIInv, NEW p \in Provider, Connects(p)
    PROVE  DetectIInv'
<1> USE DEF DetectIInv
<1> DEFINE row == [conn[p] EXCEPT !.status = "CONNECTED", !.model = chosen]
           new == DetectPersisted(p, chosen)
<1>1. /\ at \in 1 .. Len(Order) /\ Order[at] = p /\ phase = "connect" /\ Asks(p) /\ Answers(p, "connected")
      /\ conn' = [conn EXCEPT ![p] = row] /\ detectProfile' = [detectProfile EXCEPT ![p] = new]
      /\ UNCHANGED <<failed, rounds>>
  BY DEF Connects, Asks
<1>2. /\ conn \in [Provider -> ConnRow] /\ detectProfile \in [Provider -> ProfileRow] /\ existing \in ProfileRow
      /\ chosen \in Offers[p] /\ chosen \in DetectModels /\ chosen # Unset /\ conn[p] \in ConnRow
  BY <1>1, Candidates DEF DetectTypeOK, ConnRow
<1>3. row \in ConnRow /\ row.status = "CONNECTED" /\ row.model = chosen /\ row.key = conn[p].key
  BY <1>2 DEF ConnRow
<1>4. /\ new \in ProfileRow
      /\ existing = detectProfile[p] => new.enabled /\ new.model = chosen
  BY <1>2 DEF DetectPersisted, ProfileRow
<1> HIDE DEF row, new
<1>5. /\ conn' \in [Provider -> ConnRow] /\ conn'[p] = row
      /\ detectProfile' \in [Provider -> ProfileRow] /\ detectProfile'[p] = new
      /\ \A q \in Provider \ {p} : conn'[q] = conn[q] /\ detectProfile'[q] = detectProfile[q]
  BY <1>1, <1>2, <1>3, <1>4
<1>6. AskedIsFresh => InUse(p)'
  BY <1>1, <1>2, <1>3, <1>4, <1>5 DEF AskedIsFresh, InUse
<1>7. "connected" \in Results
  BY DEF Results
<1>8. /\ at' \in 0 .. Len(Order) + 1 /\ phase' = "next"
      /\ results' \in [Provider -> Results \cup {Unset}] /\ AnsweredSoFar'
      /\ InUseSoFar /\ InUse(p)' => InUseSoFar'
  BY <1>1, <1>5, <1>7, CandidateAnswers
<1>9. DetectTypeOK'
  BY <1>1, <1>3, <1>5, <1>8 DEF DetectTypeOK, ConnRow
<1> QED  BY <1>6, <1>8, <1>9 DEF AskedIsFresh

\* The command that is logged in.
LEMMA CommandKeeps ==
    ASSUME AutodetectAssumption, DetectIInv, NEW p \in Provider, ConnectsCli(p)
    PROVE  DetectIInv'
<1> USE DEF DetectIInv
<1> DEFINE row == [conn[p] EXCEPT !.status = "CONNECTED", !.model = Unset]
           new == [detectProfile[p] EXCEPT !.enabled = TRUE]
<1>1. /\ Asks(p) /\ Answers(p, "connected") /\ KindOf[p] = "cli"
      /\ conn' = [conn EXCEPT ![p] = row] /\ detectProfile' = [detectProfile EXCEPT ![p] = new]
      /\ UNCHANGED <<failed, rounds>>
  BY DEF ConnectsCli
<1>2. /\ conn \in [Provider -> ConnRow] /\ detectProfile \in [Provider -> ProfileRow] /\ conn[p] \in ConnRow
      /\ detectProfile[p] \in ProfileRow
  BY DEF DetectTypeOK, ConnRow
<1>3. row \in ConnRow /\ row.status = "CONNECTED" /\ row.key = conn[p].key
  BY <1>2 DEF ConnRow
<1>4. new \in ProfileRow /\ new.enabled
  BY <1>2 DEF ProfileRow
<1> HIDE DEF row, new
<1>5. /\ conn' \in [Provider -> ConnRow] /\ conn'[p] = row
      /\ detectProfile' \in [Provider -> ProfileRow] /\ detectProfile'[p] = new
      /\ \A q \in Provider \ {p} : conn'[q] = conn[q] /\ detectProfile'[q] = detectProfile[q]
  BY <1>1, <1>2, <1>3, <1>4
<1>6. InUse(p)'
  BY <1>1, <1>3, <1>4, <1>5 DEF InUse
<1>7. "connected" \in Results
  BY DEF Results
<1>8. /\ at' \in 0 .. Len(Order) + 1 /\ phase' = "next"
      /\ results' \in [Provider -> Results \cup {Unset}] /\ AnsweredSoFar'
      /\ InUseSoFar => InUseSoFar'
  BY <1>1, <1>5, <1>6, <1>7, CandidateAnswers
<1>9. DetectTypeOK'
  BY <1>1, <1>3, <1>5, <1>8 DEF DetectTypeOK, ConnRow
<1> QED  BY <1>8, <1>9 DEF AskedIsFresh

\* What the user does between a question and its answer leaves the answers; when the user
\* waits there is no candidate yet.
LEMMA UserKeeps ==
    ASSUME AutodetectAssumption, DetectIInv, User
    PROVE  DetectIInv'
<1> USE DEF DetectIInv
<1>1. PICK p \in Provider : DetectDisconnects(p) \/ GivesKey(p) \/ \E m \in Offers[p] : ChoosesModel(p, m)
  BY DEF User
<1>2. UserMay /\ UNCHANGED <<at, phase, existing, chosen, results, failed, rounds>>
  BY <1>1 DEF DetectDisconnects, GivesKey, ChoosesModel
<1>3. conn \in [Provider -> ConnRow] /\ detectProfile \in [Provider -> ProfileRow] /\ detectProfile[p] \in ProfileRow
  BY DEF DetectTypeOK, ConnRow
<1>4. PICK row \in ConnRow : conn' = [conn EXCEPT ![p] = row] /\ (KindOf[p] # "hosted" => row.key = Unset)
  <2>1. Off \in ConnRow /\ Off.key = Unset
    BY DEF Off, ConnRow
  <2>2. [status |-> "DISCOVERED", key |-> "user", model |-> Unset] \in ConnRow
    BY DEF ConnRow
  <2> QED  BY <1>1, <2>1, <2>2 DEF DetectDisconnects, GivesKey, ChoosesModel
<1>5. PICK new \in ProfileRow : detectProfile' = [detectProfile EXCEPT ![p] = new]
  <2>1. CASE DetectDisconnects(p)
    <3>1. [detectProfile[p] EXCEPT !.enabled = FALSE] \in ProfileRow
      BY <1>3 DEF ProfileRow
    <3> QED  BY <1>3, <2>1, <3>1 DEF DetectDisconnects
  <2>2. CASE GivesKey(p)
    BY <1>3, <2>2 DEF GivesKey
  <2>3. ASSUME NEW m \in Offers[p], ChoosesModel(p, m)
        PROVE  \E new \in ProfileRow : detectProfile' = [detectProfile EXCEPT ![p] = new]
    <3>1. [detectProfile[p] EXCEPT !.model = m] \in ProfileRow
      BY <1>3, Candidates DEF ProfileRow
    <3> QED  BY <1>3, <2>3, <3>1 DEF ChoosesModel
  <2> QED  BY <1>1, <2>1, <2>2, <2>3
<1>6. DetectTypeOK'
  BY <1>2, <1>3, <1>4, <1>5 DEF DetectTypeOK, ConnRow
<1>7. AnsweredSoFar'
  BY <1>2 DEF AnsweredSoFar, Answered
<1>8. ~DetectOverlap => InUseSoFar' /\ AskedIsFresh'
  BY <1>2, Candidates DEF UserMay, InUseSoFar, AskedIsFresh, DetectTypeOK
<1> QED  BY <1>6, <1>7, <1>8

LEMMA DetectInitIInv == AutodetectAssumption /\ DetectInit => DetectIInv
<1> SUFFICES ASSUME AutodetectAssumption, DetectInit PROVE DetectIInv
  OBVIOUS
<1>1. at = 0 /\ phase = "next"
  BY DEF DetectInit
<1>2. DetectTypeOK
  BY Candidates DEF DetectInit, DetectTypeOK, ProfileRow, AutodetectAssumption
<1> QED  BY <1>1, <1>2, Candidates DEF DetectIInv, AnsweredSoFar, InUseSoFar, AskedIsFresh

LEMMA DetectNextIInv == AutodetectAssumption /\ DetectIInv /\ [DetectNext]_detectVars => DetectIInv'
<1> SUFFICES ASSUME AutodetectAssumption, DetectIInv, [DetectNext]_detectVars
             PROVE  DetectIInv'
  OBVIOUS
<1>1. CASE UNCHANGED detectVars
  BY <1>1 DEF detectVars, DetectIInv, DetectTypeOK, AnsweredSoFar, InUseSoFar, AskedIsFresh, Answered, InUse
<1>2. CASE Begins \/ Returns
  BY <1>2, RoundKeeps
<1>3. CASE User
  BY <1>3, UserKeeps
<1>4. CASE Attempt
  BY <1>4, SkippedKeeps, AskedKeeps, DiscoversKeeps, DetectedKeeps, CommandKeeps DEF Attempt
<1> QED  BY <1>1, <1>2, <1>3, <1>4 DEF DetectNext

\* When the round has ended, what holds of the candidates before the one that is asked
\* holds of all of them.
LEMMA RoundShows ==
    ASSUME AutodetectAssumption, DetectIInv
    PROVE  OthersAreConnected /\ (~DetectOverlap => ReportedIsUsable)
<1>1. ASSUME Ended, NEW p \in Provider
      PROVE  \E i \in DOMAIN Order : i < at /\ Order[i] = p
  BY <1>1, Candidates DEF Ended
<1> QED  BY <1>1 DEF DetectIInv, AnsweredSoFar, InUseSoFar, OthersAreConnected, ReportedIsUsable

LEMMA ModelIsKeptByStep ==
    ASSUME ~DetectOverlap
    PROVE  AutodetectAssumption /\ DetectIInv /\ [DetectNext]_detectVars => ModelIsKeptStep
<1> SUFFICES ASSUME AutodetectAssumption, DetectIInv, Attempt, NEW q \in Provider,
                    KindOf[q] # "cli", detectProfile[q].model \in Offers[q]
             PROVE  detectProfile'[q].model = detectProfile[q].model
  BY DEF ModelIsKeptStep
<1>1. PICK p \in Provider :
        Skips(p) \/ AsksModels(p) \/ Discovers(p) \/ Connects(p) \/ DetectFails(p) \/ ConnectsCli(p) \/ SkipsCli(p)
  BY DEF Attempt
<1>2. detectProfile \in [Provider -> ProfileRow] /\ detectProfile[q] \in ProfileRow
  BY DEF DetectIInv, DetectTypeOK
<1>3. CASE ~Connects(p) /\ ~ConnectsCli(p)
  BY <1>1, <1>3 DEF Skips, AsksModels, Discovers, DetectFails, SkipsCli
<1>4. CASE ConnectsCli(p)
  BY <1>2, <1>4 DEF ConnectsCli
<1>5. CASE Connects(p)
  <2>1. CASE p # q
    BY <1>2, <1>5, <2>1 DEF Connects
  <2>2. CASE p = q
    <3>1. existing = detectProfile[q] /\ chosen = existing.model /\ chosen \in Offers[q]
      BY <1>5, <2>2 DEF Connects, Asks, DetectIInv, AskedIsFresh, DetectTypeOK
    <3>2. detectProfile'[q] = DetectPersisted(q, chosen) /\ chosen # Unset
      BY <1>2, <1>5, <2>2, <3>1, Candidates DEF Connects
    <3> QED  BY <3>1, <3>2 DEF DetectPersisted
  <2> QED  BY <2>1, <2>2
<1> QED  BY <1>3, <1>4, <1>5

LEMMA WorkingStaysStep ==
    AutodetectAssumption /\ DetectIInv /\ [DetectNext]_detectVars => WorkingStaysConnectedStep
<1> SUFFICES ASSUME AutodetectAssumption, DetectIInv, Attempt, NEW q \in WithKey,
                    conn[q].status = "CONNECTED", conn[q].key = "env"
             PROVE  conn'[q].status = "CONNECTED"
  BY DEF WorkingStaysConnectedStep
<1>1. PICK p \in Provider :
        Skips(p) \/ AsksModels(p) \/ Discovers(p) \/ Connects(p) \/ DetectFails(p) \/ ConnectsCli(p) \/ SkipsCli(p)
  BY DEF Attempt
<1>2. conn \in [Provider -> ConnRow] /\ q \in Provider /\ conn[q] \in ConnRow /\ KindOf[q] = "hosted"
  BY Candidates DEF DetectIInv, DetectTypeOK, ConnRow, AutodetectAssumption
<1>3. CASE Skips(p) \/ AsksModels(p) \/ DetectFails(p) \/ SkipsCli(p)
  BY <1>3 DEF Skips, AsksModels, DetectFails, SkipsCli
<1>4. CASE Connects(p)
  BY <1>2, <1>4 DEF Connects, ConnRow
<1>5. CASE ConnectsCli(p)
  BY <1>2, <1>5 DEF ConnectsCli, ConnRow
<1>6. CASE Discovers(p)
  BY <1>2, <1>6 DEF Discovers, DetectKeepsConnected
<1> QED  BY <1>1, <1>3, <1>4, <1>5, <1>6

\* "A failure is reported against that provider only": at the end of a round every provider
\* has its result, and one that could be asked and did not fail is reported connected.  Asking
\* again takes no working hosted connection down.  When the user waits, what is reported
\* connected can be used, and "autodetect must not quietly move a user off a model they chose".
THEOREM RoundsAreComplete ==
    ASSUME AutodetectAssumption
    PROVE  DetectSpec => /\ [](OthersAreConnected /\ (~DetectOverlap => ReportedIsUsable))
                         /\ WorkingStaysConnected /\ (~DetectOverlap => ModelIsKept)
<1>1. DetectSpec => [](OthersAreConnected /\ (~DetectOverlap => ReportedIsUsable)) /\ WorkingStaysConnected
  BY DetectInitIInv, DetectNextIInv, RoundShows, WorkingStaysStep, PTL DEF DetectSpec, WorkingStaysConnected
<1>2. ASSUME ~DetectOverlap PROVE DetectSpec => ModelIsKept
  BY <1>2, DetectInitIInv, DetectNextIInv, ModelIsKeptByStep, PTL DEF DetectSpec, ModelIsKept
<1> QED  BY <1>1, <1>2

------------------------------------------------------------------------------
(***************************************************************************)
(* Catalog                                                                 *)
(***************************************************************************)
EditOK(value) ==
    /\ value.at \in {"idle", "open", "body", "scan", "prompt"}
    /\ value.at # "idle" => value.item \in Items
    /\ value.at \in {"body", "scan", "prompt"} => value.config \in Nat /\ value.seen.data \in Fields
    /\ value.at = "open" => value.config \in Nat
    /\ value.at = "scan" => value.existing \in Nat /\ value.data \in Fields
    /\ value.at = "prompt" => value.item \in Agents /\ "post" \in Routes

PromptRows(s) ==
    /\ s \in Seq(Range(s)) /\ s # <<>>
    /\ \A n \in DOMAIN s :
          /\ s[n].version = n /\ s[n].text \in Texts
          /\ s[n].parent = IF n = 1 THEN Absent ELSE s[n - 1].digest

ConfigOK  == config \in [Items -> Seq(Revision)] /\ \A i \in Items : Len(config[i]) <= MaxItemRevision
PromptsOK == DOMAIN prompts = Agents /\ \A a \in Agents : PromptRows(prompts[a])
EditsOK   == DOMAIN edit = Clients /\ \A c \in Clients : EditOK(edit[c])

LEMMA CatalogTypes == CatalogTypeOK <=> ConfigOK /\ PromptsOK /\ EditsOK
  BY DEF CatalogTypeOK, ConfigOK, PromptsOK, EditsOK, EditTypeOK, EditOK, PromptRows

\* What a sequence becomes by one more element.
LEMMA OneMore ==
    ASSUME NEW s, s \in Seq(Range(s)), s # <<>>, NEW row
    PROVE  /\ Append(s, row) \in Seq(Range(Append(s, row))) /\ Append(s, row) # <<>>
           /\ Len(s) \in Nat \ {0} /\ DOMAIN s = 1 .. Len(s)
           /\ DOMAIN Append(s, row) = 1 .. Len(s) + 1
           /\ \A n \in 1 .. Len(s) : Append(s, row)[n] = s[n]
           /\ Append(s, row)[Len(s) + 1] = row
           /\ Last(Append(s, row)) = row /\ Last(s) = s[Len(s)]
<1> DEFINE S == Range(s) \cup {row}
           t == Append(s, row)
<1>1. s \in Seq(S) /\ row \in S
  OBVIOUS
<1> HIDE DEF S
<1>2. /\ t \in Seq(S) /\ Len(t) = Len(s) + 1 /\ Len(s) \in Nat \ {0} /\ DOMAIN s = 1 .. Len(s)
      /\ DOMAIN t = 1 .. Len(s) + 1 /\ t[Len(s) + 1] = row /\ \A n \in 1 .. Len(s) : t[n] = s[n]
  BY <1>1
<1> HIDE DEF t
<1>3. t = [n \in 1 .. Len(t) |-> t[n]]
  BY <1>2
<1>4. \A n \in 1 .. Len(t) : t[n] \in Range(t)
  BY <1>2 DEF Range
<1>5. t \in Seq(Range(t)) /\ t # <<>>
  BY <1>2, <1>3, <1>4
<1>6. Last(t) = row /\ Last(s) = s[Len(s)]
  BY <1>2 DEF Last
<1> QED  BY <1>2, <1>5, <1>6 DEF t

\* A prompt's next revision names the one it follows.
LEMMA OneMorePrompt ==
    ASSUME NEW s, PromptRows(s), NEW row,
           row.version = Len(s) + 1, row.text \in Texts, row.parent = Last(s).digest
    PROVE  PromptRows(Append(s, row))
<1> DEFINE t == Append(s, row)
<1>1. /\ t \in Seq(Range(t)) /\ t # <<>> /\ Len(s) \in Nat \ {0} /\ DOMAIN s = 1 .. Len(s)
      /\ DOMAIN t = 1 .. Len(s) + 1 /\ t[Len(s) + 1] = row /\ Last(s) = s[Len(s)]
      /\ \A n \in 1 .. Len(s) : t[n] = s[n]
  BY OneMore DEF PromptRows
<1> HIDE DEF t
<1>2. ASSUME NEW n \in DOMAIN t
      PROVE  /\ t[n].version = n /\ t[n].text \in Texts
             /\ t[n].parent = IF n = 1 THEN Absent ELSE t[n - 1].digest
  <2>1. CASE n = Len(s) + 1
    <3>1. n # 1 /\ n - 1 = Len(s) /\ t[n - 1] = s[Len(s)]
      BY <1>1, <2>1
    <3> QED  BY <1>1, <2>1, <3>1
  <2>2. CASE n \in 1 .. Len(s)
    <3>1. t[n] = s[n] /\ (n # 1 => t[n - 1] = s[n - 1])
      BY <1>1, <2>2
    <3> QED  BY <1>1, <2>2, <3>1 DEF PromptRows
  <2> QED  BY <1>1, <1>2, <2>1, <2>2
<1> QED  BY <1>1, <1>2 DEF PromptRows, t

\* An editor's step that saves nothing.
LEMMA EditKeeps ==
    ASSUME CatalogIInv, NEW c \in Clients, NEW value, edit' = [edit EXCEPT ![c] = value],
           UNCHANGED <<config, prompts>>, EditOK(value),
           value.at = "scan" /\ value.item \in Others => value.config = value.existing
    PROVE  CatalogIInv'
<1>1. ConfigOK' /\ PromptsOK'
  BY CatalogTypes DEF CatalogIInv, ConfigOK, PromptsOK, PromptRows
<1>2. EditsOK' /\ edit'[c] = value /\ \A q \in Clients \ {c} : edit'[q] = edit[q]
  BY CatalogTypes DEF CatalogIInv, EditsOK
<1>3. CatalogTypeOK'
  BY <1>1, <1>2 DEF CatalogTypeOK, ConfigOK, PromptsOK, EditsOK, EditTypeOK, EditOK, PromptRows
<1>4. ScanIsOfRevision'
  BY <1>2 DEF CatalogIInv, ScanIsOfRevision
<1>5. OthersFollow' /\ PromptNotOverwritten' /\ PromptsAreValid'
  BY DEF CatalogIInv, OthersFollow, PromptNotOverwritten, PromptsAreValid
<1> QED  BY <1>3, <1>4, <1>5 DEF CatalogIInv

LEMMA NoEditOK == EditOK(NoEdit) /\ NoEdit.at # "scan"
  BY DEF EditOK, NoEdit

LEMMA DataOK == ASSUME CatalogAssumption, CatalogTypeOK, NEW i \in Items PROVE Data(i) \in Fields
<1>1. config[i] \in Seq(Revision)
  BY DEF CatalogTypeOK
<1>2. \E d \in Fields : TRUE
  <2>1. PICK value : value \in Values
    BY DEF CatalogAssumption
  <2>2. [name |-> value, model |-> value] \in Fields
    BY <2>1 DEF Fields
  <2> QED  BY <2>2
<1>3. CASE config[i] # <<>>
  <2>1. config[i][Len(config[i])] \in Revision
    BY <1>1, <1>3
  <2> QED  BY <1>3, <2>1 DEF Data, Last, Revision
<1>4. CASE config[i] = <<>>
  <2>1. (CHOOSE d \in Fields : TRUE) \in Fields
    BY <1>2
  <2> QED  BY <1>4, <2>1 DEF Data
<1> QED  BY <1>3, <1>4

\* An item is opened, the edit is sent, given up or refused.
LEMMA OpensKeeps ==
    ASSUME CatalogAssumption, CatalogIInv, NEW c \in Clients,
           (\E i \in Items : Opens(c, i)) \/ Closes(c) \/ Sends(c) \/ Refused(c)
    PROVE  CatalogIInv'
<1>1. ASSUME NEW i \in Items, Opens(c, i) PROVE CatalogIInv'
  <2> DEFINE value == [at |-> "open", item |-> i, config |-> Len(config[i]), prompt |-> Prompt(i)]
  <2>1. config[i] \in Seq(Revision) /\ Len(config[i]) \in Nat
    BY DEF CatalogIInv, CatalogTypeOK
  <2>2. EditOK(value) /\ value.at # "scan"
    BY <2>1 DEF EditOK
  <2>3. edit' = [edit EXCEPT ![c] = value] /\ UNCHANGED <<config, prompts>>
    BY <1>1 DEF Opens, Set
  <2> HIDE DEF value
  <2> QED  BY <2>2, <2>3, EditKeeps
<1>2. CASE Closes(c) \/ Refused(c)
  <2>1. edit' = [edit EXCEPT ![c] = NoEdit] /\ UNCHANGED <<config, prompts>>
    BY <1>2 DEF Closes, Refused, Set
  <2> QED  BY <2>1, NoEditOK, EditKeeps
<1>3. CASE Sends(c)
  <2> DEFINE i == edit[c].item
             read == [number |-> Len(config[i]), data |-> Data(i), prompt |-> Prompt(i)]
             value(to) == [at |-> to, item |-> i, config |-> edit[c].config, prompt |-> edit[c].prompt, seen |-> read]
  <2>1. i \in Items /\ edit[c].config \in Nat
    BY <1>3, CatalogTypes DEF Sends, CatalogIInv, EditsOK, EditOK
  <2>2. Data(i) \in Fields
    BY <2>1, DataOK DEF CatalogIInv
  <2>3. read.data \in Fields
    BY <2>2
  <2>4. PICK to \in {"body", "prompt"} :
           /\ edit' = [edit EXCEPT ![c] = value(to)]
           /\ to = "prompt" => "post" \in Routes /\ i \in Agents
    BY <1>3 DEF Sends, Set
  <2>5. UNCHANGED <<config, prompts>>
    BY <1>3 DEF Sends
  <2> HIDE DEF read
  <2>6. EditOK(value(to)) /\ value(to).at # "scan"
    BY <2>1, <2>3, <2>4 DEF EditOK
  <2> HIDE DEF value
  <2> QED  BY <2>4, <2>5, <2>6, EditKeeps
<1> QED  BY <1>1, <1>2, <1>3

\* The body of an item that is no agent was edited from the revision that is there.
LEMMA BodyKeeps ==
    ASSUME CatalogAssumption, CatalogIInv, NEW c \in Clients,
           NEW fields \in [name : Values \cup {Absent}, model : Values \cup {Absent}], BodyArrives(c, fields)
    PROVE  CatalogIInv'
<1> DEFINE i == edit[c].item
           previous == IF i \in Agents THEN edit[c].seen.data ELSE Data(i)
           value == [at |-> "scan", item |-> i, config |-> edit[c].config, prompt |-> edit[c].prompt,
                     seen |-> edit[c].seen, existing |-> Len(config[i]), data |-> Merged(previous, fields)]
<1>1. i \in Items /\ edit[c].config \in Nat /\ edit[c].seen.data \in Fields /\ Expected(c)
  BY CatalogTypes DEF BodyArrives, CatalogIInv, EditsOK, EditOK
<1>2. edit' = [edit EXCEPT ![c] = value] /\ UNCHANGED <<config, prompts>>
  BY DEF BodyArrives, Set
<1>3. config[i] \in Seq(Revision) /\ Len(config[i]) \in Nat
  BY <1>1 DEF CatalogIInv, CatalogTypeOK
<1>4. previous \in Fields
  BY <1>1, DataOK DEF CatalogIInv
<1> HIDE DEF previous
<1>5. Merged(previous, fields) \in Fields
  BY <1>4 DEF Merged, Fields
<1>6. value.item \in Others => value.config = value.existing
  BY <1>1 DEF Expected, CatalogAssumption
<1>7. EditOK(value)
  BY <1>1, <1>3, <1>5 DEF EditOK
<1> HIDE DEF value
<1> QED  BY <1>2, <1>6, <1>7, EditKeeps

\* One revision of a prompt: it is of the revision it was edited from, and when the route
\* has compared the one that it read, its digest is of its content.
LEMMA RevisedKeeps ==
    ASSUME CatalogIInv, NEW c \in Clients, NEW a \in Agents, NEW text \in Texts,
           NEW expected, Revised(c, a, text, expected), edit[c].prompt.digest = expected,
           OneBuildOnly => edit[c].seen.prompt.digest = expected
    PROVE  /\ PromptsOK' /\ PromptNotOverwritten' /\ PromptsAreValid'
           /\ Last(prompts'[a]).edited # {} /\ \A b \in Agents \ {a} : prompts'[b] = prompts[b]
<1> DEFINE read == edit[c].seen.prompt
           s == prompts[a]
           row == [text |-> text, digest |-> RevisionDigest(read, text), parent |-> Last(s).digest,
                   version |-> Len(s) + 1, edited |-> {edit[c].prompt.digest}]
           t == Append(s, row)
<1>1. DOMAIN prompts = Agents /\ \A b \in Agents : PromptRows(prompts[b])
  BY CatalogTypes DEF CatalogIInv, PromptsOK
<1>2. prompts' = [prompts EXCEPT ![a] = t] /\ Valid(read) /\ Last(s).digest = expected
  BY DEF Revised, PromptIs
<1>3. /\ row.version = Len(s) + 1 /\ row.text = text /\ row.parent = Last(s).digest
      /\ row.edited = {row.parent} /\ row.digest = RevisionDigest(read, text)
  BY <1>2
<1> HIDE DEF row
<1>4. /\ Len(s) \in Nat \ {0} /\ DOMAIN s = 1 .. Len(s) /\ DOMAIN t = 1 .. Len(s) + 1
      /\ \A n \in 1 .. Len(s) : t[n] = s[n]
      /\ t[Len(s) + 1] = row /\ Last(t) = row /\ Last(s) = s[Len(s)]
  BY <1>1, OneMore DEF PromptRows
<1>5. PromptRows(t)
  BY <1>1, <1>3, OneMorePrompt
<1> HIDE DEF t
<1>6. DOMAIN prompts' = Agents /\ prompts'[a] = t /\ \A b \in Agents \ {a} : prompts'[b] = prompts[b]
  BY <1>1, <1>2
<1>7. PromptsOK'
  <2>1. \A b \in Agents : PromptRows(prompts'[b])
    BY <1>1, <1>5, <1>6
  <2> QED  BY <1>6, <2>1 DEF PromptsOK, PromptRows
<1>8. PromptNotOverwritten'
  <2> SUFFICES ASSUME NEW b \in Agents, NEW n \in DOMAIN prompts'[b], prompts'[b][n].edited # {}
               PROVE  prompts'[b][n].edited = {prompts'[b][n].parent}
    BY DEF PromptNotOverwritten
  <2>1. CASE b # a \/ n \in 1 .. Len(s)
    <3>1. prompts'[b][n] = prompts[b][n] /\ n \in DOMAIN prompts[b]
      BY <1>4, <1>6, <2>1
    <3> QED  BY <3>1 DEF CatalogIInv, PromptNotOverwritten
  <2>2. CASE b = a /\ n = Len(s) + 1
    BY <1>3, <1>4, <1>6, <2>2
  <2> QED  BY <1>4, <1>6, <2>1, <2>2
<1>9. ASSUME OneBuildOnly PROVE Valid(row)
  <2>1. Valid(s[Len(s)]) /\ s[Len(s)].version = Len(s)
    BY <1>1, <1>4, <1>9 DEF CatalogIInv, PromptsAreValid, PromptRows
  <2>2. read.digest = s[Len(s)].digest
    BY <1>2, <1>4, <1>9
  <2>3. <<read.version, read.parent, read.text>> = <<Len(s), s[Len(s)].parent, s[Len(s)].text>>
    BY <1>2, <2>1, <2>2 DEF Valid, PromptDigest
  <2>4. read.version = Len(s)
    BY <2>3
  <2> QED  BY <1>3, <1>4, <2>2, <2>4 DEF Valid, RevisionDigest, PromptDigest
<1>10. PromptsAreValid'
  <2> SUFFICES ASSUME OneBuildOnly, NEW b \in Agents
               PROVE  /\ \A n \in DOMAIN prompts'[b] : Valid(prompts'[b][n])
                      /\ \E first \in Seeds : prompts'[b][1].digest = PromptDigest(1, Absent, first)
    BY DEF PromptsAreValid, OneBuildOnly, Valid
  <2>1. /\ \A n \in DOMAIN prompts[b] : Valid(prompts[b][n])
        /\ \E first \in Seeds : prompts[b][1].digest = PromptDigest(1, Absent, first)
    BY DEF CatalogIInv, PromptsAreValid
  <2>2. CASE b # a
    BY <1>6, <2>1, <2>2
  <2>3. CASE b = a
    <3>1. prompts'[b][1] = prompts[b][1]
      BY <1>4, <1>6, <2>3
    <3>2. ASSUME NEW n \in DOMAIN prompts'[b] PROVE Valid(prompts'[b][n])
      BY <1>4, <1>6, <1>9, <2>1, <2>3, <3>2
    <3> QED  BY <2>1, <3>1, <3>2
  <2> QED  BY <2>2, <2>3
<1>11. Last(prompts'[a]).edited # {}
  BY <1>3, <1>4, <1>6
<1> QED  BY <1>6, <1>7, <1>8, <1>10, <1>11

\* The route for a prompt alone.
LEMMA PostsKeeps ==
    ASSUME CatalogIInv, NEW c \in Clients, NEW text \in Texts, PostsPrompt(c, text)
    PROVE  /\ CatalogIInv' /\ edit[c].item \in Agents /\ Last(prompts'[edit[c].item]).edited # {}
           /\ \A b \in Agents \ {edit[c].item} : prompts'[b] = prompts[b]
<1> DEFINE a == edit[c].item
<1>1. a \in Agents /\ ~OneBuildOnly
  BY CatalogTypes DEF PostsPrompt, CatalogIInv, EditsOK, EditOK, OneBuildOnly
<1>2. /\ PromptsOK' /\ PromptNotOverwritten' /\ PromptsAreValid'
      /\ Last(prompts'[a]).edited # {} /\ \A b \in Agents \ {a} : prompts'[b] = prompts[b]
  BY <1>1, RevisedKeeps DEF PostsPrompt
<1>3. edit' = [edit EXCEPT ![c] = NoEdit] /\ config' = config
  BY DEF PostsPrompt, Set
<1>4. EditsOK' /\ edit'[c] = NoEdit /\ \A q \in Clients \ {c} : edit'[q] = edit[q]
  BY <1>3, NoEditOK, CatalogTypes DEF CatalogIInv, EditsOK
<1>5. ConfigOK'
  BY <1>3, CatalogTypes DEF CatalogIInv, ConfigOK
<1>6. CatalogTypeOK'
  BY <1>2, <1>4, <1>5 DEF CatalogTypeOK, ConfigOK, PromptsOK, EditsOK, EditTypeOK, EditOK, PromptRows
<1>7. ScanIsOfRevision' /\ OthersFollow'
  BY <1>3, <1>4, NoEditOK DEF CatalogIInv, ScanIsOfRevision, OthersFollow
<1> QED  BY <1>1, <1>2, <1>6, <1>7 DEF CatalogIInv

\* A configuration is saved, and the prompt when it changed.
LEMMA SavesKeeps ==
    ASSUME CatalogAssumption, CatalogIInv, NEW c \in Clients, NEW text \in Texts, Saves(c, text)
    PROVE  /\ CatalogIInv'
           /\ \A b \in Agents : prompts'[b] # prompts[b] => Last(prompts'[b]).edited # {}
<1> DEFINE i == edit[c].item
           row == [data |-> edit[c].data, edited |-> edit[c].config]
<1>1. /\ i \in Items /\ edit[c].at = "scan" /\ Len(config[i]) = edit[c].existing
      /\ Len(config[i]) < MaxItemRevision /\ edit[c].data \in Fields /\ edit[c].config \in Nat
  BY CatalogTypes DEF Saves, SavedOnto, CatalogIInv, EditsOK, EditOK
<1>2. config' = [config EXCEPT ![i] = Append(@, row)] /\ edit' = [edit EXCEPT ![c] = NoEdit]
  BY DEF Saves, Set
<1>3. /\ PromptsOK' /\ PromptNotOverwritten' /\ PromptsAreValid'
      /\ \A b \in Agents : prompts'[b] # prompts[b] => Last(prompts'[b]).edited # {}
  <2>1. CASE UNCHANGED prompts
    BY <2>1, CatalogTypes DEF CatalogIInv, PromptsOK, PromptRows, PromptNotOverwritten, PromptsAreValid, OneBuildOnly,
                              Valid
  <2>2. CASE i \in Agents /\ Revised(c, i, text, edit[c].seen.prompt.digest)
    <3>1. edit[c].prompt.digest = edit[c].seen.prompt.digest
      BY <2>2 DEF Saves
    <3>2. /\ PromptsOK' /\ PromptNotOverwritten' /\ PromptsAreValid'
          /\ Last(prompts'[i]).edited # {} /\ \A b \in Agents \ {i} : prompts'[b] = prompts[b]
      BY <2>2, <3>1, RevisedKeeps
    <3> QED  BY <3>2
  <2> QED  BY <2>1, <2>2 DEF Saves
<1>4. row \in Revision /\ row.edited = edit[c].config
  BY <1>1 DEF Revision
<1> HIDE DEF row
<1>5. config \in [Items -> Seq(Revision)] /\ \A j \in Items : Len(config[j]) <= MaxItemRevision
  BY CatalogTypes DEF CatalogIInv, ConfigOK
<1>6. /\ config' \in [Items -> Seq(Revision)] /\ config'[i] = Append(config[i], row)
      /\ \A j \in Items \ {i} : config'[j] = config[j]
  BY <1>1, <1>2, <1>4, <1>5
<1>7. /\ Len(config[i]) \in Nat /\ Len(config'[i]) = Len(config[i]) + 1
      /\ DOMAIN config'[i] = 1 .. Len(config[i]) + 1 /\ DOMAIN config[i] = 1 .. Len(config[i])
      /\ config'[i][Len(config[i]) + 1] = row
      /\ \A n \in 1 .. Len(config[i]) : config'[i][n] = config[i][n]
  BY <1>1, <1>4, <1>5, <1>6
<1>8. ConfigOK'
  <2>1. Len(config'[i]) <= MaxItemRevision
    BY <1>1, <1>7 DEF CatalogAssumption
  <2> QED  BY <1>5, <1>6, <2>1 DEF ConfigOK
<1>9. EditsOK' /\ edit'[c] = NoEdit /\ \A q \in Clients \ {c} : edit'[q] = edit[q]
  BY <1>2, NoEditOK, CatalogTypes DEF CatalogIInv, EditsOK
<1>10. CatalogTypeOK'
  BY <1>3, <1>8, <1>9 DEF CatalogTypeOK, ConfigOK, PromptsOK, EditsOK, EditTypeOK, EditOK, PromptRows
<1>11. ScanIsOfRevision'
  BY <1>9, NoEditOK DEF CatalogIInv, ScanIsOfRevision
<1>12. OthersFollow'
  <2> SUFFICES ASSUME NEW j \in Others, NEW n \in DOMAIN config'[j] PROVE config'[j][n].edited = n - 1
    BY DEF OthersFollow
  <2>1. j \in Items /\ \A m \in DOMAIN config[j] : config[j][m].edited = m - 1
    BY DEF CatalogIInv, OthersFollow, Items
  <2>2. CASE j # i
    BY <1>6, <2>1, <2>2
  <2>3. CASE j = i /\ n = Len(config[i]) + 1
    <3>1. edit[c].config = edit[c].existing
      BY <1>1, <2>3 DEF CatalogIInv, ScanIsOfRevision
    <3> QED  BY <1>1, <1>4, <1>7, <2>3, <3>1
  <2>4. CASE j = i /\ n \in 1 .. Len(config[i])
    BY <1>7, <2>1, <2>4
  <2> QED  BY <1>7, <2>2, <2>3, <2>4
<1> QED  BY <1>3, <1>10, <1>11, <1>12 DEF CatalogIInv

\* A build starts: it adds to the prompts that nobody has edited.
LEMMA StartsKeeps ==
    ASSUME CatalogAssumption, CatalogIInv, NEW text \in Seeds, Starts(text)
    PROVE  /\ CatalogIInv'
           /\ \A a \in Agents : prompts'[a] # prompts[a] => Untouched(a)
<1> DEFINE row(a) == SeedRow(Len(prompts[a]) + 1, Last(prompts[a]).digest, text)
           t(a) == Append(prompts[a], row(a))
<1>1. DOMAIN prompts = Agents /\ \A a \in Agents : PromptRows(prompts[a])
  BY CatalogTypes DEF CatalogIInv, PromptsOK
<1>2. /\ DOMAIN prompts' = Agents
      /\ \A a \in Agents :
            \/ prompts'[a] = prompts[a]
            \/ /\ prompts'[a] = t(a) /\ Untouched(a)
               /\ \A n \in DOMAIN prompts[a] : prompts[a][n].digest # PromptDigest(1, Absent, text)
  BY DEF Starts
<1>3. config' = config /\ edit' = [c \in Clients |-> IF edit[c].at = "open" THEN edit[c] ELSE NoEdit]
  BY DEF Starts
<1>4. ASSUME NEW a \in Agents
      PROVE  /\ row(a).version = Len(prompts[a]) + 1 /\ row(a).text = text
             /\ row(a).parent = Last(prompts[a]).digest /\ row(a).edited = {}
  BY DEF SeedRow
<1> HIDE DEF row
<1>5. ASSUME NEW a \in Agents
      PROVE  /\ PromptRows(t(a)) /\ Len(prompts[a]) \in Nat \ {0}
             /\ DOMAIN t(a) = 1 .. Len(prompts[a]) + 1 /\ DOMAIN prompts[a] = 1 .. Len(prompts[a])
             /\ t(a)[Len(prompts[a]) + 1] = row(a)
             /\ \A n \in 1 .. Len(prompts[a]) : t(a)[n] = prompts[a][n]
  <2>1. PromptRows(t(a))
    BY <1>1, <1>4, OneMorePrompt DEF CatalogAssumption
  <2> QED  BY <1>1, <2>1, OneMore DEF PromptRows
<1> HIDE DEF t
<1>6. PromptsOK'
  <2>1. \A a \in Agents : PromptRows(prompts'[a])
    BY <1>1, <1>2, <1>5
  <2> QED  BY <1>2, <2>1 DEF PromptsOK, PromptRows
<1>7. EditsOK' /\ \A c \in Clients : edit'[c].at # "scan"
  BY <1>3, NoEditOK, CatalogTypes DEF CatalogIInv, EditsOK
<1>8. ConfigOK'
  BY <1>3, CatalogTypes DEF CatalogIInv, ConfigOK
<1>9. CatalogTypeOK'
  BY <1>6, <1>7, <1>8 DEF CatalogTypeOK, ConfigOK, PromptsOK, EditsOK, EditTypeOK, EditOK, PromptRows
<1>10. ScanIsOfRevision' /\ OthersFollow'
  BY <1>3, <1>7 DEF CatalogIInv, ScanIsOfRevision, OthersFollow
<1>11. PromptNotOverwritten'
  <2> SUFFICES ASSUME NEW a \in Agents, NEW n \in DOMAIN prompts'[a], prompts'[a][n].edited # {}
               PROVE  prompts'[a][n].edited = {prompts'[a][n].parent}
    BY DEF PromptNotOverwritten
  <2>1. prompts'[a][n] = prompts[a][n] /\ n \in DOMAIN prompts[a]
    BY <1>2, <1>4, <1>5
  <2> QED  BY <2>1 DEF CatalogIInv, PromptNotOverwritten
<1>12. PromptsAreValid'
  <2> SUFFICES ASSUME OneBuildOnly
               PROVE  \A a \in Agents :
                        /\ \A n \in DOMAIN prompts'[a] : Valid(prompts'[a][n])
                        /\ \E first \in Seeds : prompts'[a][1].digest = PromptDigest(1, Absent, first)
    BY DEF PromptsAreValid, OneBuildOnly, Valid
  <2>1. \A a \in Agents :
            /\ \A n \in DOMAIN prompts[a] : Valid(prompts[a][n])
            /\ \E first \in Seeds : prompts[a][1].digest = PromptDigest(1, Absent, first)
    BY DEF CatalogIInv, PromptsAreValid
  <2>2. \A first \in Seeds : first = text
    BY DEF OneBuildOnly
  <2>3. \A a \in Agents : 1 \in DOMAIN prompts[a]
    BY <1>5
  <2>4. \A a \in Agents : prompts'[a] = prompts[a]
    BY <1>2, <2>1, <2>2, <2>3
  <2> QED  BY <2>1, <2>4
<1> QED  BY <1>2, <1>9, <1>10, <1>11, <1>12 DEF CatalogIInv

LEMMA CatalogInitIInv == CatalogAssumption /\ CatalogInit => CatalogIInv
<1> SUFFICES ASSUME CatalogAssumption, CatalogInit PROVE CatalogIInv
  OBVIOUS
<1>1. config = [i \in Items |-> <<>>] /\ edit = [c \in Clients |-> NoEdit]
  BY DEF CatalogInit
<1>2. PICK text \in Seeds : prompts = [a \in Agents |-> <<SeedRow(1, Absent, text)>>]
  BY DEF CatalogInit
<1> DEFINE row == SeedRow(1, Absent, text)
<1>3. /\ row.version = 1 /\ row.text \in Texts /\ row.parent = Absent /\ row.edited = {}
      /\ row.digest = PromptDigest(1, Absent, text) /\ Valid(row)
  BY <1>2 DEF SeedRow, Valid, CatalogAssumption
<1> HIDE DEF row
<1>4. <<row>> \in Seq({row}) /\ <<row>> # <<>> /\ DOMAIN <<row>> = {1} /\ <<row>>[1] = row
  OBVIOUS
<1>5. Range(<<row>>) = {row}
  BY <1>4 DEF Range
<1>6. PromptRows(<<row>>)
  BY <1>3, <1>4, <1>5 DEF PromptRows
<1>7. \A a \in Agents : prompts[a] = <<row>>
  BY <1>2 DEF row
<1>8. PromptsOK
  BY <1>2, <1>6, <1>7 DEF PromptsOK
<1>9. ConfigOK /\ \A i \in Items : DOMAIN config[i] = {}
  BY <1>1 DEF ConfigOK, CatalogAssumption
<1>10. EditsOK
  BY <1>1, NoEditOK DEF EditsOK
<1>11. ScanIsOfRevision /\ OthersFollow
  BY <1>1, <1>9, NoEditOK DEF ScanIsOfRevision, OthersFollow, Items
<1>12. PromptNotOverwritten /\ PromptsAreValid
  BY <1>2, <1>3, <1>4, <1>7 DEF PromptNotOverwritten, PromptsAreValid
<1> QED  BY <1>8, <1>9, <1>10, <1>11, <1>12, CatalogTypes DEF CatalogIInv

LEMMA CatalogNextIInv == CatalogAssumption /\ CatalogIInv /\ [CatalogNext]_catalogVars => CatalogIInv'
<1> SUFFICES ASSUME CatalogAssumption, CatalogIInv, [CatalogNext]_catalogVars
             PROVE  CatalogIInv'
  OBVIOUS
<1>1. CASE UNCHANGED catalogVars
  BY <1>1 DEF catalogVars, CatalogIInv, CatalogTypeOK, EditTypeOK, ScanIsOfRevision, OthersFollow, PromptNotOverwritten,
              PromptsAreValid, OneBuildOnly, Valid
<1>2. ASSUME NEW c \in Clients, (\E i \in Items : Opens(c, i)) \/ Closes(c) \/ Sends(c) \/ Refused(c)
      PROVE  CatalogIInv'
  BY <1>2, OpensKeeps
<1>3. ASSUME NEW c \in Clients,
             \E fields \in [name : Values \cup {Absent}, model : Values \cup {Absent}] : BodyArrives(c, fields)
      PROVE  CatalogIInv'
  BY <1>3, BodyKeeps
<1>4. ASSUME NEW c \in Clients, NEW text \in Texts, Saves(c, text) \/ PostsPrompt(c, text)
      PROVE  CatalogIInv'
  BY <1>4, SavesKeeps, PostsKeeps
<1>5. ASSUME NEW text \in Seeds, Starts(text) PROVE CatalogIInv'
  BY <1>5, StartsKeeps
<1> QED  BY <1>1, <1>2, <1>3, <1>4, <1>5 DEF CatalogNext

LEMMA CatalogShows ==
    ASSUME CatalogAssumption, CatalogIInv
    PROVE  /\ PromptNotOverwritten /\ OthersFollow /\ (Agents = {} => NothingOverwritten)
           /\ OneBuildOnly => PromptStaysEditable
<1>1. ASSUME OneBuildOnly, NEW a \in Agents PROVE Valid(Last(prompts[a]))
  <2>1. PromptRows(prompts[a])
    BY CatalogTypes DEF CatalogIInv, PromptsOK
  <2>2. Last(prompts[a]) = prompts[a][Len(prompts[a])] /\ Len(prompts[a]) \in DOMAIN prompts[a]
    BY <2>1 DEF PromptRows, Last
  <2> QED  BY <1>1, <2>2 DEF CatalogIInv, PromptsAreValid
<1> QED  BY <1>1 DEF CatalogIInv, OthersFollow, NothingOverwritten, Items, PromptStaysEditable

LEMMA OverridesStep == CatalogAssumption /\ CatalogIInv /\ [CatalogNext]_catalogVars => OverridesSurviveStep
<1> SUFFICES ASSUME CatalogAssumption, CatalogIInv, [CatalogNext]_catalogVars, NEW a \in Agents,
                    prompts'[a] # prompts[a], Last(prompts'[a]).edited = {}
             PROVE  Untouched(a)
  BY DEF OverridesSurviveStep, Untouched
<1>1. ASSUME NEW text \in Seeds, Starts(text) PROVE Untouched(a)
  BY <1>1, StartsKeeps
<1>2. ASSUME NEW c \in Clients, NEW text \in Texts, Saves(c, text) \/ PostsPrompt(c, text) PROVE FALSE
  BY <1>2, SavesKeeps, PostsKeeps
<1>3. ASSUME NEW c \in Clients,
             \/ \E i \in Items : Opens(c, i)
             \/ \E fields \in [name : Values \cup {Absent}, model : Values \cup {Absent}] : BodyArrives(c, fields)
             \/ Sends(c) \/ Closes(c) \/ Refused(c)
      PROVE  FALSE
  BY <1>3 DEF Opens, BodyArrives, Sends, Closes, Refused
<1> QED  BY <1>1, <1>2, <1>3 DEF CatalogNext, catalogVars

\* "Updates require the configuration expectedDigest ...; stale edits return a conflict
\* instead of overwriting newer work": of items other than agents, and of every prompt.
\* "Overrides survive startup seeding": no build puts its prompt on top of one, or of a
\* configuration, that somebody saved.  As long as one build is started and prompts are saved
\* with their configuration, the prompt an agent has is one that revisePrompt accepts.
THEOREM EditsFollow ==
    ASSUME CatalogAssumption
    PROVE  CatalogSpec => /\ [](OthersFollow /\ PromptNotOverwritten /\ (Agents = {} => NothingOverwritten))
                          /\ OverridesSurvive /\ [](OneBuildOnly => PromptStaysEditable)
  BY CatalogInitIInv, CatalogNextIInv, CatalogShows, OverridesStep, PTL DEF CatalogSpec, OverridesSurvive

==============================================================================
