------------------------- MODULE ProviderConnections -------------------------
(***************************************************************************)
(* The session's connection to one agent provider: ProviderConnectionManager, *)
(* the routes that use it, and the provider's stored profile.              *)
(*                                                                         *)
(* A hosted provider is asked for its models over the network, a command-  *)
(* line one is inspected at once and the inspection is kept for a while.   *)
(* A request reads the profile when it begins and writes it when its       *)
(* answer arrives.  A local endpoint (Ollama) goes the hosted way without  *)
(* a key and is not modelled apart; "profile" leaves out the fields that   *)
(* no route changes.                                                       *)
(***************************************************************************)
EXTENDS Naturals

CONSTANTS Kind,            \* "hosted" or "cli"
          Keys, Models, Requests, None,
          Overlap,         \* whether a request may begin while another one waits
          MaxRevision      \* bound of the connection's revision

Profile == [enabled : BOOLEAN, model : Models \cup {None}]
Pinned  == [model : Models \cup {None}, revision : Nat, key : Keys \cup {None}, connected : Models \cup {None}]

ConnectionsAssumption ==
    /\ Kind \in {"hosted", "cli"} /\ Overlap \in BOOLEAN /\ MaxRevision \in Nat
    /\ None \notin Keys \cup Models \cup BOOLEAN \cup Pinned

VARIABLES
    secret,      \* #secrets
    state,       \* #states: status, model, hasSecret, revision
    profile,     \* provider_profiles: enabled, model
    request,     \* what each request in flight has read
    cli,         \* whether the command is installed and logged in
    inspected,   \* cliInventory: the inspection that is kept, or None
    pin,         \* the plan: the provider as it was pinned, and what it then was
    listed,      \* observer: the keys and models the provider was seen to list
    left         \* observer: the provider was disconnected, nobody asked for it since

vars == <<secret, state, profile, request, cli, inspected, pin, listed, left>>

Idle     == [op |-> "idle"]
NoState  == [status |-> "NOT_CHECKED", model |-> None, hasSecret |-> FALSE, revision |-> 0]
Statuses == {"NOT_CHECKED", "DISCOVERED", "CONNECTED", "DISCONNECTED"}

RequestTypeOK(r) ==
    /\ request[r].op \in {"idle", "discover", "autodetect", "connect", "put"}
    /\ request[r].op = "idle" => request[r] = Idle
    /\ request[r].op # "idle" => request[r].profile \in Profile
    /\ request[r].op \in {"discover", "autodetect", "connect"} => Kind = "hosted" /\ request[r].key \in Keys
    /\ request[r].op = "connect" => request[r].model \in Models

TypeOK ==
    /\ secret \in Keys \cup {None} /\ profile \in Profile
    /\ state \in [status : Statuses, model : Models \cup {None}, hasSecret : BOOLEAN, revision : 0 .. MaxRevision]
    /\ cli \in BOOLEAN /\ inspected \in BOOLEAN \cup {None}
    /\ DOMAIN request = Requests /\ \A r \in Requests : RequestTypeOK(r)
    /\ pin \in Pinned \cup {None} /\ listed \subseteq Keys \X Models /\ left \in BOOLEAN
    /\ Kind = "cli" => secret = None /\ ~state.hasSecret /\ pin = None

Init ==
    /\ secret = None /\ state = NoState
    /\ profile \in [enabled : BOOLEAN, model : Models]
    /\ request = [r \in Requests |-> Idle]
    /\ cli \in BOOLEAN /\ inspected = None
    /\ pin = None /\ listed = {} /\ left = FALSE

------------------------------------------------------------------------------
\* Mutant: the revision moves with the status only.
ChangedOnlyByStatus(new, semantic) == [new EXCEPT !.revision = IF new.status = state.status THEN @ ELSE @ + 1]

\* #setState: a semantic change draws a new opaque revision.
Changed(new, semantic) == [new EXCEPT !.revision = IF semantic THEN @ + 1 ELSE @]

MayBegin(r) ==
    /\ request[r] = Idle
    /\ Overlap \/ \A q \in Requests : request[q] = Idle

\* cachedCliInspection
Inspection(force) == IF inspected # None /\ ~force THEN inspected ELSE cli

\* Mutant: a command that is logged in is connected whenever providers are listed.
DecoratedAlways(s, available) ==
    IF Kind = "cli" /\ s.status # "CONNECTED" /\ available THEN [s EXCEPT !.status = "CONNECTED", !.model = None] ELSE s

\* Mutant: a command that is logged out stays connected.
DecoratedOnce(s, available) ==
    IF Kind = "cli" /\ s.status = "NOT_CHECKED" /\ available THEN [s EXCEPT !.status = "CONNECTED"] ELSE s

\* decorate: a command that is logged in is connected once without being asked for,
\* and one that no longer is is disconnected.
Decorated(s, available) ==
    CASE Kind = "cli" /\ s.status = "NOT_CHECKED" /\ available -> [s EXCEPT !.status = "CONNECTED"]
      [] Kind = "cli" /\ s.status = "CONNECTED" /\ ~available ->
            [s EXCEPT !.status = "DISCONNECTED", !.model = None, !.revision = @ + 1]
      [] OTHER -> s

\* currentProviders: the inspection is kept, the connection is decorated with it.
Providers(s, force) ==
    /\ inspected' = IF Kind = "cli" THEN Inspection(force) ELSE inspected
    /\ state' = Decorated(s, Inspection(force))

ListProviders(force) ==
    /\ state.revision < MaxRevision
    /\ Providers(state, force)
    /\ UNCHANGED <<secret, profile, request, cli, pin, listed, left>>

CliChanges ==
    /\ Kind = "cli" /\ cli' = ~cli
    /\ UNCHANGED <<secret, state, profile, request, inspected, pin, listed, left>>

InspectionExpires ==
    /\ inspected # None /\ inspected' = None
    /\ UNCHANGED <<secret, state, profile, request, cli, pin, listed, left>>

------------------------------------------------------------------------------
\* POST discover, and POST autodetect, which connects what it discovered.
DiscoverBegins(r, op, k) ==
    /\ Kind = "hosted" /\ MayBegin(r) /\ op \in {"discover", "autodetect"}
    /\ request' = [request EXCEPT ![r] = [op |-> op, key |-> k, profile |-> profile]]
    /\ left' = FALSE
    /\ UNCHANGED <<secret, state, profile, cli, inspected, pin, listed>>

\* POST connect: the key is the one that was discovered.
ConnectBegins(r, m) ==
    /\ Kind = "hosted" /\ MayBegin(r) /\ secret # None
    /\ request' = [request EXCEPT ![r] = [op |-> "connect", key |-> secret, model |-> m, profile |-> profile]]
    /\ left' = FALSE
    /\ UNCHANGED <<secret, state, profile, cli, inspected, pin, listed>>

\* The provider refuses the key, does not list the model, or does not answer.
Fails(r) ==
    /\ request[r].op \in {"discover", "autodetect", "connect", "put"}
    /\ request' = [request EXCEPT ![r] = Idle]
    /\ UNCHANGED <<secret, state, profile, cli, inspected, pin, listed, left>>

\* Mutant: a verified connection survives another key.
KeepsConnectedAny(k) == state.status = "CONNECTED"

KeepsConnected(k) == secret = k /\ state.status = "CONNECTED"

\* The models arrive: the key is kept for the session.  A key that is known leaves
\* the connection; with any other, a model has to be selected again.
Discovered(r, models) ==
    LET k == request[r].key
        keeps == KeepsConnected(k)
        choice == IF request[r].profile.model \in models THEN {request[r].profile.model} ELSE models
    IN /\ request[r].op \in {"discover", "autodetect"} /\ state.revision < MaxRevision
       /\ secret' = k
       /\ state' = Changed([status |-> IF keeps THEN "CONNECTED" ELSE "DISCOVERED", hasSecret |-> TRUE,
                            model |-> IF keeps THEN state.model ELSE None, revision |-> state.revision],
                           secret # k)
       /\ listed' = listed \cup ({k} \X models)
       /\ IF request[r].op = "autodetect" /\ models # {}
          THEN \E m \in choice : request' = [request EXCEPT ![r] =
                   [op |-> "connect", key |-> k, model |-> m, profile |-> request[r].profile]]
          ELSE request' = [request EXCEPT ![r] = Idle]
       /\ UNCHANGED <<profile, cli, inspected, pin, left>>

\* connectAndPersist: the profile is written when it differs from the one that was
\* read before the provider was asked.
Persisted(existing, m) ==
    LET next == [enabled |-> TRUE, model |-> IF m = None THEN existing.model ELSE m]
    IN IF next # existing THEN next ELSE profile

\* The models arrive, the selected one among them.
Connected(r) ==
    /\ request[r].op = "connect" /\ state.revision < MaxRevision
    /\ LET m == request[r].model IN
       /\ state' = Changed([status |-> "CONNECTED", hasSecret |-> TRUE, model |-> m, revision |-> state.revision],
                           state.status # "CONNECTED" \/ state.model # m)
       /\ profile' = Persisted(request[r].profile, m)
       /\ listed' = listed \cup {<<request[r].key, m>>}
       /\ request' = [request EXCEPT ![r] = Idle]
    /\ UNCHANGED <<secret, cli, inspected, pin, left>>

\* The same routes for a command: it is inspected now, and providers are listed.
ConnectCli(connects) ==
    /\ Kind = "cli" /\ cli /\ state.revision + 1 < MaxRevision
    /\ LET found == Changed([state EXCEPT !.status = IF connects THEN "CONNECTED" ELSE "DISCOVERED", !.model = None],
                            connects /\ (state.status # "CONNECTED" \/ state.model # None))
       IN Providers(found, TRUE)
    /\ profile' = IF connects THEN Persisted(profile, None) ELSE profile
    /\ left' = FALSE
    /\ UNCHANGED <<secret, request, cli, pin, listed>>

------------------------------------------------------------------------------
\* Mutant: the key outlives the connection.
DroppedSecretKept == secret

\* Mutant: the key is wiped and its entry stays.
DroppedSecretWiped == ""

DroppedSecret == None

\* disconnect
Disconnects(enabled) ==
    /\ secret' = DroppedSecret
    /\ Providers(Changed([status |-> "DISCONNECTED", hasSecret |-> FALSE, model |-> None, revision |-> state.revision],
                         state.status # "DISCONNECTED" \/ state.hasSecret \/ enabled), FALSE)

\* DELETE /api/provider-connections/:providerId
Disconnect ==
    /\ \/ Overlap
       \/ \A q \in Requests : request[q] = Idle
    /\ state.revision + 1 < MaxRevision
    /\ Disconnects(profile.enabled)
    /\ profile' = [profile EXCEPT !.enabled = FALSE]
    /\ left' = TRUE
    /\ UNCHANGED <<request, cli, pin, listed>>

\* PUT /api/provider-profiles/:id reads the profile, waits for the body, ...
PutBegins(r) ==
    /\ MayBegin(r)
    /\ request' = [request EXCEPT ![r] = [op |-> "put", profile |-> profile]]
    /\ left' = FALSE
    /\ UNCHANGED <<secret, state, profile, cli, inspected, pin, listed>>

\* Mutant: a change of the model leaves the connection.
EndsConnectionWhenDisabled(existing, new) == ~new.enabled

EndsConnection(existing, new) == ~new.enabled \/ new.model # existing.model

\* ... and writes it; the connection ends with what it was made for.
Put(r, new) ==
    /\ request[r].op = "put" /\ state.revision + 1 < MaxRevision
    /\ profile' = IF new # request[r].profile THEN new ELSE profile
    /\ IF EndsConnection(request[r].profile, profile')
       THEN Disconnects(profile'.enabled)
       ELSE Providers(state, FALSE) /\ secret' = secret
    /\ request' = [request EXCEPT ![r] = Idle]
    /\ UNCHANGED <<cli, pin, listed, left>>

\* planningProviderStatus
Usable == profile.enabled /\ state.status = "CONNECTED"

\* plannerProviderPin of a plan; what the pin stands for is kept beside it.
PinProvider ==
    /\ Usable /\ pin = None /\ Kind = "hosted"
    /\ pin' = [model |-> profile.model, revision |-> state.revision, key |-> secret, connected |-> state.model]
    /\ UNCHANGED <<secret, state, profile, request, cli, inspected, listed, left>>

Next ==
    \/ \E force \in BOOLEAN : ListProviders(force)
    \/ CliChanges \/ InspectionExpires \/ Disconnect \/ PinProvider
    \/ \E connects \in BOOLEAN : ConnectCli(connects)
    \/ \E r \in Requests :
          \/ \E k \in Keys, op \in {"discover", "autodetect"} : DiscoverBegins(r, op, k)
          \/ \E m \in Models : ConnectBegins(r, m)
          \/ \E models \in SUBSET Models : Discovered(r, models)
          \/ \E new \in Profile : Put(r, new)
          \/ Connected(r) \/ PutBegins(r) \/ Fails(r)

Spec == Init /\ [][Next]_vars

------------------------------------------------------------------------------
\* What a plan pins is what it runs with: while samePlannerProviderPin finds the
\* plan's pin in place, the key and the connected model are those of the plan,
\* whatever was discovered, disconnected and connected in between.
PinHolds ==
    pin # None /\ Usable /\ pin.model = profile.model /\ pin.revision = state.revision =>
        secret = pin.key /\ state.model = pin.connected

\* "Disconnect, clear the session credential, and disable the profile": it stays
\* that way until somebody asks for the provider again.
LeftStaysLeft == left => secret = None /\ ~profile.enabled /\ state.status # "CONNECTED"

\* "Provider connection and selected model are verified for chat and AI planning":
\* the model a usable profile names was listed for the key that is now used.
UsableIsVerified ==
    Kind = "hosted" /\ Usable => <<secret, profile.model>> \in listed

ReadyIsInspectedStep ==
    Kind = "cli" /\ inspected' = FALSE /\ inspected' # inspected => state'.status # "CONNECTED"

\* A command that was answered to be ready is ready by an inspection that is kept:
\* a listing never leaves a connection its own inspection denies.
ReadyIsInspected == [][ReadyIsInspectedStep]_vars

------------------------------------------------------------------------------
(***************************************************************************)
(* The inductive invariants behind the safety properties.                  *)
(***************************************************************************)

\* As long as the connection has the revision of the pin, it is the connection that
\* was pinned.
PinIsOfRevision ==
    pin # None =>
        /\ pin.revision <= state.revision
        /\ pin.revision = state.revision =>
              secret = pin.key /\ state.model = pin.connected /\ state.status = "CONNECTED"

\* A provider that was left has no request that could bring it back.
LeftAlone ==
    left => /\ secret = None /\ ~profile.enabled /\ state.status = "DISCONNECTED"
            /\ \A r \in Requests : request[r] = Idle

\* The one request in flight at a hosted provider has read what is still there, and a
\* connection is of the key that is kept and of the profile's model.
RequestIsFresh ==
    /\ \A r, q \in Requests : request[r] # Idle /\ request[q] # Idle => r = q
    /\ \A r \in Requests : request[r] # Idle =>
          /\ request[r].profile = profile
          /\ request[r].op = "connect" => request[r].key = secret

ConnectedIsListed ==
    state.status = "CONNECTED" => <<secret, state.model>> \in listed /\ state.model = profile.model

IInv ==
    /\ TypeOK /\ PinIsOfRevision
    /\ ~Overlap => LeftAlone
    /\ ~Overlap /\ Kind = "hosted" => RequestIsFresh /\ ConnectedIsListed
==============================================================================
