------------------------------- MODULE Catalog -------------------------------
(***************************************************************************)
(* The editable catalog: configuration revisions of agents, skills, action *)
(* prompts and domains, the prompt revisions of agents, and the builtin    *)
(* catalog each start seeds.                                               *)
(*                                                                         *)
(* A client loads an item, edits it and sends the digests it edited.  The  *)
(* route looks at the item, waits for the body and, for agents and skills, *)
(* for a scan of the skills, and saves under a comparison of digests.  The *)
(* revisions of an item form one line, so their digests are their numbers; *)
(* a prompt's digest is what it is computed from.  Validation of names,    *)
(* domains, providers and prompt wording is left out.                      *)
(***************************************************************************)
EXTENDS Naturals, Sequences, SequencesExt

CONSTANTS Agents, Others,    \* catalog items: agents, and items of the other kinds
          Clients, Values,   \* editors, and the values of a configuration's fields
          Texts,             \* prompt texts
          Seeds,             \* the texts the builds of this program ship with
          Routes,            \* the routes that are used: "patch", "post"
          Absent,
          MaxItemRevision    \* bound of the revisions of an item

CatalogAssumption ==
    /\ Agents \cap Others = {} /\ Values # {} /\ Seeds \subseteq Texts
    /\ Routes \subseteq {"patch", "post"} /\ MaxItemRevision \in Nat \ {0}

Items == Agents \cup Others

VARIABLES
    config,    \* catalog_revisions: item -> its revisions
    prompts,   \* agent_prompt_revisions: agent -> its revisions
    edit       \* client -> the item it edits and how far its request has come

catalogVars == <<config, prompts, edit>>

NoEdit   == [at |-> "idle"]
Fields == [name : Values, model : Values]

\* createContentDigest of a prompt revision
PromptDigest(version, parent, text) == <<version, parent, text>>

\* "edited" is the digest a user edited; a seed is nobody's edit.
SeedRow(version, parent, text) ==
    [text |-> text, digest |-> PromptDigest(1, Absent, text), parent |-> parent, version |-> version,
     edited |-> {}]

Revision == [data : Fields, edited : Nat]

EditTypeOK(c) ==
    /\ edit[c].at \in {"idle", "open", "body", "scan", "prompt"}
    /\ edit[c].at # "idle" => edit[c].item \in Items
    /\ edit[c].at \in {"body", "scan", "prompt"} => edit[c].config \in Nat /\ edit[c].seen.data \in Fields
    /\ edit[c].at = "open" => edit[c].config \in Nat
    /\ edit[c].at = "scan" => edit[c].existing \in Nat /\ edit[c].data \in Fields
    /\ edit[c].at = "prompt" => edit[c].item \in Agents /\ "post" \in Routes

CatalogTypeOK ==
    /\ config \in [Items -> Seq(Revision)] /\ \A i \in Items : Len(config[i]) <= MaxItemRevision
    /\ DOMAIN prompts = Agents
    /\ \A a \in Agents :
          /\ prompts[a] \in Seq(Range(prompts[a])) /\ prompts[a] # <<>>
          /\ \A n \in DOMAIN prompts[a] :
                /\ prompts[a][n].version = n /\ prompts[a][n].text \in Texts
                /\ prompts[a][n].parent = IF n = 1 THEN Absent ELSE prompts[a][n - 1].digest
    /\ DOMAIN edit = Clients /\ \A c \in Clients : EditTypeOK(c)

CatalogInit ==
    /\ config = [i \in Items |-> <<>>]
    /\ \E text \in Seeds : prompts = [a \in Agents |-> <<SeedRow(1, Absent, text)>>]
    /\ edit = [c \in Clients |-> NoEdit]

------------------------------------------------------------------------------
\* The configuration of an item: its last revision, or what it was seeded with.
Data(i) == IF config[i] = <<>> THEN CHOOSE d \in Fields : TRUE ELSE Last(config[i]).data

\* The prompt a route reads, with nothing for items that have none.
Prompt(i) == IF i \in Agents THEN Last(prompts[i]) ELSE Absent

Set(c, value) == edit' = [edit EXCEPT ![c] = value]

Opens(c, i) ==
    /\ edit[c] = NoEdit
    /\ Set(c, [at |-> "open", item |-> i, config |-> Len(config[i]), prompt |-> Prompt(i)])
    /\ UNCHANGED <<config, prompts>>

Closes(c) ==
    /\ edit[c].at = "open" /\ Set(c, NoEdit)
    /\ UNCHANGED <<config, prompts>>

\* PATCH /api/catalog/:kind/:id, and POST /api/agents/:id/prompts: the item is read,
\* the body is awaited.
Sends(c) ==
    /\ edit[c].at = "open"
    /\ LET seen == [number |-> Len(config[edit[c].item]), data |-> Data(edit[c].item), prompt |-> Prompt(edit[c].item)]
           sent(at) == Set(c, [at |-> at, item |-> edit[c].item, config |-> edit[c].config,
                               prompt |-> edit[c].prompt, seen |-> seen])
       IN \/ "patch" \in Routes /\ sent("body")
          \/ "post" \in Routes /\ edit[c].item \in Agents /\ sent("prompt")
    /\ UNCHANGED <<config, prompts>>

\* expected: for agents the client's digest is compared with the one that was read
\* before the body, for the other kinds with the one that is read now.
Expected(c) ==
    LET i == edit[c].item IN
    IF i \in Agents THEN edit[c].config = edit[c].seen.number ELSE edit[c].config = Len(config[i])

\* Mutant: a field the body leaves out is cleared.
MergedAsSent(previous, fields) == fields

Merged(previous, fields) ==
    [name  |-> IF fields.name = Absent THEN previous.name ELSE fields.name,
     model |-> IF fields.model = Absent THEN previous.model ELSE fields.model]

\* The body: a field it leaves out stays what it was.  The item's last revision is
\* read, and for some kinds the skills are scanned.
BodyArrives(c, fields) ==
    /\ edit[c].at = "body" /\ Expected(c)
    /\ LET i == edit[c].item
           previous == IF i \in Agents THEN edit[c].seen.data ELSE Data(i)
       IN Set(c, [at |-> "scan", item |-> i, config |-> edit[c].config, prompt |-> edit[c].prompt,
                  seen |-> edit[c].seen, existing |-> Len(config[i]), data |-> Merged(previous, fields)])
    /\ UNCHANGED <<config, prompts>>

\* validatePromptRevision: the digest of a revision is that of its content.
Valid(row) == row.digest = PromptDigest(row.version, row.parent, row.text)

\* Mutant: a revision is added whatever was edited.
PromptUnchanged(a, digest) == TRUE

PromptIs(a, digest) == Last(prompts[a]).digest = digest

\* Mutant: a revision is a first one of its own.
RevisionDigestAlone(seen, text) == PromptDigest(1, Absent, text)

\* revisePrompt
RevisionDigest(seen, text) == PromptDigest(seen.version + 1, seen.digest, text)

\* createAgentPromptRevision: revisePrompt of the row that was read, under a
\* comparison with the row that is there.
Revised(c, a, text, expected) ==
    LET seen == edit[c].seen.prompt IN
    /\ Valid(seen) /\ PromptIs(a, expected) /\ Len(prompts[a]) < MaxItemRevision
    /\ prompts' = [prompts EXCEPT ![a] = Append(@,
          [text |-> text, digest |-> RevisionDigest(seen, text),
           parent |-> Last(@).digest, version |-> Len(@) + 1, edited |-> {edit[c].prompt.digest}])]

\* Mutant: the revision that is there is not compared.
SavedOver(c) == TRUE

\* saveCatalogRevision compares with the revision that was read with the body.
SavedOnto(c) == Len(config[edit[c].item]) = edit[c].existing

\* The transaction: the prompt, when it changed, and the configuration.
Saves(c, text) ==
    LET i == edit[c].item IN
    /\ edit[c].at = "scan" /\ SavedOnto(c) /\ Len(config[i]) < MaxItemRevision
    /\ IF i \in Agents
       THEN /\ edit[c].prompt.digest = edit[c].seen.prompt.digest
            /\ \/ text = edit[c].seen.prompt.text /\ UNCHANGED prompts
               \/ text # edit[c].seen.prompt.text /\ Revised(c, i, text, edit[c].seen.prompt.digest)
       ELSE UNCHANGED prompts
    /\ config' = [config EXCEPT ![i] = Append(@, [data |-> edit[c].data, edited |-> edit[c].config])]
    /\ Set(c, NoEdit)

\* The body of POST /api/agents/:id/prompts names the digest that was edited.
PostsPrompt(c, text) ==
    /\ edit[c].at = "prompt"
    /\ Revised(c, edit[c].item, text, edit[c].prompt.digest)
    /\ Set(c, NoEdit) /\ UNCHANGED config

\* 409 and 422; the editor keeps what it loaded or closes.
Refused(c) ==
    /\ edit[c].at \in {"body", "scan", "prompt"} /\ Set(c, NoEdit)
    /\ UNCHANGED <<config, prompts>>

------------------------------------------------------------------------------
\* Mutant: every prompt that differs from the builtin one is upgraded.
UntouchedAny(a) == TRUE

\* untouchedBuiltinSeed
Untouched(a) == config[a] = <<>> /\ \A n \in DOMAIN prompts[a] : prompts[a][n].edited = {}

\* Another build starts: syncAgentCatalog upgrades the prompts nobody touched to a
\* text they never had.
Starts(text) ==
    /\ prompts' = [a \in Agents |->
          IF /\ Untouched(a) /\ Len(prompts[a]) < MaxItemRevision
             /\ \A n \in DOMAIN prompts[a] : prompts[a][n].digest # PromptDigest(1, Absent, text)
          THEN Append(prompts[a], SeedRow(Len(prompts[a]) + 1, Last(prompts[a]).digest, text))
          ELSE prompts[a]]
    /\ edit' = [c \in Clients |-> IF edit[c].at = "open" THEN edit[c] ELSE NoEdit]
    /\ UNCHANGED config

CatalogNext ==
    \/ \E c \in Clients :
          \/ \E i \in Items : Opens(c, i)
          \/ \E fields \in [name : Values \cup {Absent}, model : Values \cup {Absent}] : BodyArrives(c, fields)
          \/ \E text \in Texts : Saves(c, text) \/ PostsPrompt(c, text)
          \/ Sends(c) \/ Closes(c) \/ Refused(c)
    \/ \E text \in Seeds : Starts(text)

CatalogSpec == CatalogInit /\ [][CatalogNext]_catalogVars

------------------------------------------------------------------------------
\* "Updates require the configuration expectedDigest ...; stale edits return a
\* conflict instead of overwriting newer work": a revision was edited from the one
\* that it follows, however long its body and the scan took.
NothingOverwritten ==
    \A i \in Items : \A n \in DOMAIN config[i] : config[i][n].edited = n - 1

\* "... and the prompt's expectedPromptDigest": the same of what users make of prompts,
\* by either route.
PromptNotOverwritten ==
    \A a \in Agents : \A n \in DOMAIN prompts[a] :
        prompts[a][n].edited # {} => prompts[a][n].edited = {prompts[a][n].parent}

OverridesSurviveStep ==
    \A a \in Agents : prompts'[a] # prompts[a] /\ Last(prompts'[a]).edited = {} =>
       config[a] = <<>> /\ \A n \in DOMAIN prompts[a] : prompts[a][n].edited = {}

\* "Overrides survive startup seeding": no build puts its prompt on top of a prompt
\* or a configuration somebody saved.
OverridesSurvive == [][OverridesSurviveStep]_catalogVars

\* The editor supports prompt text: the prompt an agent has is a revision that
\* revisePrompt accepts, else no later prompt can be saved.
PromptStaysEditable == \A a \in Agents : Valid(Last(prompts[a]))

------------------------------------------------------------------------------
(***************************************************************************)
(* The inductive invariant behind the safety properties.                   *)
(***************************************************************************)

\* What is about to be saved of an item that is no agent was edited from the revision
\* that SavedOnto compares with.
ScanIsOfRevision ==
    \A c \in Clients : edit[c].at = "scan" /\ edit[c].item \in Others => edit[c].config = edit[c].existing

OthersFollow == \A i \in Others : \A n \in DOMAIN config[i] : config[i][n].edited = n - 1

\* As long as one build is started and prompts are saved with their configuration.
OneBuildOnly == Routes = {"patch"} /\ \E text \in Texts : Seeds = {text}

PromptsAreValid ==
    OneBuildOnly => \A a \in Agents :
        /\ \A n \in DOMAIN prompts[a] : Valid(prompts[a][n])
        /\ \E text \in Seeds : prompts[a][1].digest = PromptDigest(1, Absent, text)

CatalogIInv ==
    CatalogTypeOK /\ ScanIsOfRevision /\ OthersFollow /\ PromptNotOverwritten /\ PromptsAreValid
==============================================================================
