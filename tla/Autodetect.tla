------------------------------ MODULE Autodetect ------------------------------
(***************************************************************************)
(* POST /api/provider-connections/autodetect: one request that asks the    *)
(* providers of this machine, one after another, and connects each that    *)
(* answers.  Between a question and its answer the user may disconnect a   *)
(* provider, give it another key, or choose another model.                 *)
(*                                                                         *)
(* A provider's answer is its list of models; a list that is empty is      *)
(* refused by normalizeModels, so it is one of the failures.  The command  *)
(* is inspected without waiting.  Requests of its own a provider has       *)
(* beside this one are in ProviderConnections.                             *)
(***************************************************************************)
EXTENDS Naturals, Sequences

CONSTANTS Order,       \* AUTODETECT_CANDIDATES, in their order
          KindOf,      \* "hosted", "local" or "cli", by provider
          Registered,  \* the providers that have a profile
          WithKey,     \* the hosted providers whose key is in the environment
          Offers,      \* the models each provider lists
          DetectModels, Unset,
          DetectOverlap, \* whether the user acts while autodetection waits
          MaxRounds    \* bound of the autodetections

Provider == {Order[i] : i \in DOMAIN Order}

ProfileRow == [enabled : BOOLEAN, model : DetectModels \cup {Unset}]
Results    == {"unavailable", "skipped", "failed", "connected"}

AutodetectAssumption ==
    /\ Order \in Seq(Provider) /\ \A i, j \in DOMAIN Order : Order[i] = Order[j] => i = j
    /\ Unset \notin DetectModels \cup Results \cup {"env", "user"} \cup ProfileRow
    /\ KindOf \in [Provider -> {"hosted", "local", "cli"}]
    /\ Registered \subseteq Provider /\ WithKey \subseteq {p \in Provider : KindOf[p] = "hosted"}
    /\ Offers \in [Provider -> SUBSET DetectModels]
    /\ DetectOverlap \in BOOLEAN /\ MaxRounds \in Nat

VARIABLES
    at,       \* the candidate that is asked: 0 before and Len(Order) + 1 after a round
    phase,    \* "next", or what is waited for: "discover" or "connect"
    existing, \* the candidate's profile as it was read before it was asked
    chosen,   \* the model that is being connected
    conn,     \* #states and #secrets, by provider
    detectProfile, \* provider_profiles, by provider
    results,  \* the answer so far
    failed,   \* observer: the candidates that did not answer in this round
    rounds

detectVars == <<at, phase, existing, chosen, conn, detectProfile, results, failed, rounds>>

Ended == at = Len(Order) + 1

\* Mutant: the key is wiped and its entry stays.
OffWiped == [status |-> "DISCONNECTED", key |-> "", model |-> Unset]

Off == [status |-> "DISCONNECTED", key |-> Unset, model |-> Unset]

DetectTypeOK ==
    /\ at \in 0 .. Len(Order) + 1 /\ phase \in {"next", "discover", "connect"}
    /\ conn \in [Provider -> [status : {"NOT_CHECKED", "DISCOVERED", "CONNECTED", "DISCONNECTED"},
                              key : {"env", "user", Unset}, model : DetectModels \cup {Unset}]]
    /\ detectProfile \in [Provider -> ProfileRow] /\ results \in [Provider -> Results \cup {Unset}]
    /\ phase # "next" =>
          /\ at \in 1 .. Len(Order) /\ existing \in ProfileRow /\ Order[at] \in Registered
          /\ KindOf[Order[at]] # "cli"
    /\ phase = "connect" => chosen \in Offers[Order[at]]
    /\ failed \subseteq Provider /\ rounds \in 0 .. MaxRounds
    /\ \A p \in Provider : KindOf[p] # "hosted" => conn[p].key = Unset

DetectInit ==
    /\ at = 0 /\ phase = "next" /\ existing = Unset /\ chosen = Unset
    /\ conn = [p \in Provider |-> [status |-> "NOT_CHECKED", key |-> Unset, model |-> Unset]]
    /\ detectProfile \in [Provider -> [enabled : BOOLEAN, model : DetectModels]]
    /\ results = [p \in Provider |-> Unset] /\ failed = {} /\ rounds = 0

------------------------------------------------------------------------------
Begins ==
    /\ at = 0 /\ rounds < MaxRounds
    /\ at' = 1 /\ rounds' = rounds + 1
    /\ results' = [p \in Provider |-> Unset] /\ failed' = {}
    /\ UNCHANGED <<phase, existing, chosen, conn, detectProfile>>

\* The answer is read, the dialog is open for another round.
Returns ==
    /\ Ended /\ at' = 0
    /\ UNCHANGED <<phase, existing, chosen, conn, detectProfile, results, failed, rounds>>

Asks(p) == at \in 1 .. Len(Order) /\ Order[at] = p

\* The loop's continue: the candidate's result, and the next one.
Answers(p, result) ==
    /\ results' = [results EXCEPT ![p] = result]
    /\ at' = at + 1 /\ phase' = "next" /\ existing' = Unset /\ chosen' = Unset

\* Without a profile, or without a key, there is nothing to ask.
Skips(p) ==
    /\ Asks(p) /\ phase = "next"
    /\ \/ p \notin Registered /\ Answers(p, "unavailable")
       \/ p \in Registered /\ KindOf[p] = "hosted" /\ p \notin WithKey /\ Answers(p, "skipped")
    /\ UNCHANGED <<conn, detectProfile, failed, rounds>>

AsksModels(p) ==
    /\ Asks(p) /\ phase = "next" /\ p \in Registered
    /\ KindOf[p] = "local" \/ p \in WithKey
    /\ phase' = "discover" /\ existing' = detectProfile[p]
    /\ UNCHANGED <<at, chosen, conn, detectProfile, results, failed, rounds>>

\* Mutant: a verified key starts over.
KeepsConnectedNever(p) == FALSE

DetectKeepsConnected(p) == conn[p].key = "env" /\ conn[p].status = "CONNECTED"

\* Mutant: any listed model is selected.
SelectedAny(p) == Offers[p]

\* The model of the profile when the provider has it, and else the first one.
Selected(p) == IF existing.model \in Offers[p] THEN {existing.model} ELSE Offers[p]

\* discover answers; the connection is asked for with the key that was just kept.
Discovers(p) ==
    /\ Asks(p) /\ phase = "discover" /\ Offers[p] # {}
    /\ conn' = [conn EXCEPT ![p] =
          IF KindOf[p] = "hosted" /\ DetectKeepsConnected(p) THEN @
          ELSE [status |-> "DISCOVERED", key |-> IF KindOf[p] = "hosted" THEN "env" ELSE Unset, model |-> Unset]]
    /\ chosen' \in Selected(p) /\ phase' = "connect"
    /\ UNCHANGED <<at, existing, detectProfile, results, failed, rounds>>

\* Mutant: the profile that was read is written back as it was.
PersistedOff(p, m) == [enabled |-> existing.enabled, model |-> IF m = Unset THEN existing.model ELSE m]

\* connectAndPersist: the profile as it was read, with what was connected.
DetectPersisted(p, m) ==
    LET next == [enabled |-> TRUE, model |-> IF m = Unset THEN existing.model ELSE m]
    IN IF next # existing THEN next ELSE detectProfile[p]

\* connect answers: hasSecret is claimed whatever became of the key.
Connects(p) ==
    /\ Asks(p) /\ phase = "connect"
    /\ conn' = [conn EXCEPT ![p] = [@ EXCEPT !.status = "CONNECTED", !.model = chosen]]
    /\ detectProfile' = [detectProfile EXCEPT ![p] = DetectPersisted(p, chosen)]
    /\ Answers(p, "connected")
    /\ UNCHANGED <<failed, rounds>>

\* Mutant: a failure ends the request.
AnswersFailureLast(p, result) ==
    /\ results' = [results EXCEPT ![p] = result]
    /\ at' = Len(Order) + 1 /\ phase' = "next" /\ existing' = Unset /\ chosen' = Unset

\* Mutant: a provider that failed is asked again.
AnswersFailureAgain(p, result) == phase' = "next" /\ UNCHANGED <<at, existing, chosen, results>>

AnswersFailure(p, result) == Answers(p, result)

\* The provider refuses, is unreachable, lists nothing, or no longer has the model.
DetectFails(p) ==
    /\ Asks(p) /\ phase \in {"discover", "connect"}
    /\ failed' = failed \cup {p}
    /\ AnswersFailure(p, "failed")
    /\ UNCHANGED <<conn, detectProfile, rounds>>

\* The command is inspected twice in a row, without a wait.
ConnectsCli(p) ==
    /\ Asks(p) /\ phase = "next" /\ p \in Registered /\ KindOf[p] = "cli"
    /\ conn' = [conn EXCEPT ![p] = [@ EXCEPT !.status = "CONNECTED", !.model = Unset]]
    /\ detectProfile' = [detectProfile EXCEPT ![p].enabled = TRUE]
    /\ Answers(p, "connected")
    /\ UNCHANGED <<failed, rounds>>

\* It is not installed or not logged in.
SkipsCli(p) ==
    /\ Asks(p) /\ phase = "next" /\ p \in Registered /\ KindOf[p] = "cli"
    /\ failed' = failed \cup {p}
    /\ AnswersFailure(p, "skipped")
    /\ UNCHANGED <<conn, detectProfile, rounds>>

------------------------------------------------------------------------------
UserMay == DetectOverlap \/ at = 0

\* DELETE /api/provider-connections/:id
DetectDisconnects(p) ==
    /\ UserMay
    /\ conn' = [conn EXCEPT ![p] = Off] /\ detectProfile' = [detectProfile EXCEPT ![p].enabled = FALSE]
    /\ UNCHANGED <<at, phase, existing, chosen, results, failed, rounds>>

\* POST discover with a key of the user's; any other key ends the connection.
GivesKey(p) ==
    /\ UserMay /\ KindOf[p] = "hosted" /\ conn[p].key # "user"
    /\ conn' = [conn EXCEPT ![p] = [status |-> "DISCOVERED", key |-> "user", model |-> Unset]]
    /\ UNCHANGED <<at, phase, existing, chosen, detectProfile, results, failed, rounds>>

\* PUT /api/provider-profiles/:id with another model ends the connection.
ChoosesModel(p, m) ==
    /\ UserMay /\ m # detectProfile[p].model
    /\ detectProfile' = [detectProfile EXCEPT ![p].model = m]
    /\ conn' = [conn EXCEPT ![p] = Off]
    /\ UNCHANGED <<at, phase, existing, chosen, results, failed, rounds>>

Attempt ==
    \E p \in Provider :
        Skips(p) \/ AsksModels(p) \/ Discovers(p) \/ Connects(p) \/ DetectFails(p) \/ ConnectsCli(p) \/ SkipsCli(p)

User ==
    \E p \in Provider : DetectDisconnects(p) \/ GivesKey(p) \/ \E m \in Offers[p] : ChoosesModel(p, m)

DetectNext == Begins \/ Returns \/ Attempt \/ User

\* Every question is answered or times out; the loop itself does not wait.
DetectSpec == DetectInit /\ [][DetectNext]_detectVars /\ WF_detectVars(Attempt)

------------------------------------------------------------------------------
Answered(p) ==
    /\ results[p] # Unset
    /\ p \in Registered \ failed /\ (KindOf[p] = "hosted" => p \in WithKey) => results[p] = "connected"

\* "A failure is reported against that provider only -- a missing key must never
\* stop an installed CLI from being connected": at the end every provider has its
\* result, and one that could be asked and did not fail is reported connected.
OthersAreConnected ==
    Ended => \A p \in Provider : Answered(p)

InUse(p) ==
    /\ conn[p].status = "CONNECTED" /\ detectProfile[p].enabled
    /\ KindOf[p] # "cli" => conn[p].model = detectProfile[p].model /\ conn[p].model \in Offers[p]
    /\ KindOf[p] = "hosted" => conn[p].key = "env"

\* What is reported connected can be used when the answer arrives: enabled, on a
\* model that its provider lists, and with the key of the environment.
ReportedIsUsable == Ended => \A p \in Provider : results[p] = "connected" => InUse(p)

ModelIsKeptStep ==
    Attempt => \A p \in Provider :
     KindOf[p] # "cli" /\ detectProfile[p].model \in Offers[p] => detectProfile'[p].model = detectProfile[p].model

\* "Autodetect must not quietly move a user off a model they chose": a profile whose
\* model its provider lists keeps it.
ModelIsKept == [][ModelIsKeptStep]_detectVars

WorkingStaysConnectedStep ==
    Attempt => \A p \in WithKey :
     conn[p].status = "CONNECTED" /\ conn[p].key = "env" => conn'[p].status = "CONNECTED"

\* Asking again does not take a working hosted connection down, whether or not its
\* provider answers this time.
WorkingStaysConnected == [][WorkingStaysConnectedStep]_detectVars

\* A round ends, whatever the user does meanwhile and however many providers fail.
RoundEnds == at = 1 ~> Ended

------------------------------------------------------------------------------
(***************************************************************************)
(* The inductive invariant behind the safety properties.                   *)
(***************************************************************************)

\* The candidates before the one that is asked.
AnsweredSoFar == \A i \in DOMAIN Order : i < at => Answered(Order[i])
InUseSoFar    == \A i \in DOMAIN Order : i < at /\ results[Order[i]] = "connected" => InUse(Order[i])

\* What was read of the candidate's profile is still there, and its model is chosen when
\* the provider has it.
AskedIsFresh ==
    /\ phase # "next" => existing = detectProfile[Order[at]]
    /\ phase = "connect" =>
          /\ existing.model \in Offers[Order[at]] => chosen = existing.model
          /\ KindOf[Order[at]] = "hosted" => conn[Order[at]].key = "env"

DetectIInv ==
    /\ DetectTypeOK /\ AnsweredSoFar
    /\ ~DetectOverlap => InUseSoFar /\ AskedIsFresh
==============================================================================
