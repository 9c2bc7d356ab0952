-------------------------- MODULE EvidenceSources --------------------------
(***************************************************************************)
(* Uploaded evidence: LocalObjectStore, and over it the source routes,     *)
(* EvidenceService.ingest and the sources of the database.                 *)
(*                                                                         *)
(* Objects are content-addressed files, published by a hard link.  A       *)
(* content stands for its bytes and its digest.  Writers of the same       *)
(* content race over one name.  The file system keeps what it was told in  *)
(* memory: file data until the file is synced, a directory's new entries   *)
(* until the directory is.  A process crash leaves that memory, a power    *)
(* failure loses any of it.  Objects are never removed.                    *)
(*                                                                         *)
(* An upload looks at the draft for its node, waits for the bytes, stores  *)
(* them, parses them, stores the manifest and writes one row with its      *)
(* chunks.                                                                 *)
(***************************************************************************)
EXTENDS Naturals, FiniteSets

CONSTANTS Writers, Contents,
          DirectorySync,    \* whether the file system can sync directories
          NoContent

StoreAssumption == DirectorySync \in BOOLEAN

VARIABLES
    put,        \* writer -> how far its put has come
    file,       \* writer -> its temporary file: none, or what of it is written and synced
    object,     \* content -> none, or the state of the published file
    published,  \* observer: content -> the puts that returned a publication of their own
    cut      \* observer: whether the process or the power has failed

storeVars == <<put, file, object, published, cut>>

Idle    == [at |-> "idle", content |-> NoContent]
NoFile  == "none"
Whole   == {"written", "synced"}

Turns ==
    {"idle", "look", "create", "write", "sync", "link", "syncdir", "exists", "unlink", "done"}

StoreTypeOK ==
    /\ put \in [Writers -> [at : Turns, content : Contents \cup {NoContent}]]
    /\ file \in [Writers -> {NoFile, "empty", "written", "synced"}]
    /\ object \in [Contents -> [data : {NoFile, "written", "synced", "torn"}, entry : {"none", "cached", "stored"}]]
    /\ published \in [Contents -> Nat] /\ cut \in BOOLEAN

StoreInit ==
    /\ put = [w \in Writers |-> Idle] /\ file = [w \in Writers |-> NoFile]
    /\ object = [c \in Contents |-> [data |-> NoFile, entry |-> "none"]]
    /\ published = [c \in Contents |-> 0] /\ cut = FALSE

PutGoes(w, at) == put' = [put EXCEPT ![w].at = at]
Exists(c)   == object[c].entry # "none"

------------------------------------------------------------------------------
PutBegins(w, c) ==
    /\ put[w].at = "idle"
    /\ put' = [put EXCEPT ![w] = [at |-> "look", content |-> c]]
    /\ UNCHANGED <<file, object, published, cut>>

\* readVerified: what is there is returned if it has the digest, and refused if not.
Looks(w) ==
    /\ put[w].at = "look"
    /\ LET c == put[w].content IN
       CASE ~Exists(c)                             -> PutGoes(w, "create")
         [] Exists(c) /\ object[c].data \in Whole  -> PutGoes(w, "done")
         [] OTHER                                  -> PutGoes(w, "idle")
    /\ UNCHANGED <<file, object, published, cut>>

Creates(w) ==
    /\ put[w].at = "create" /\ PutGoes(w, "write")
    /\ file' = [file EXCEPT ![w] = "empty"]
    /\ UNCHANGED <<object, published, cut>>

WritesFile(w) ==
    /\ put[w].at = "write" /\ PutGoes(w, "sync")
    /\ file' = [file EXCEPT ![w] = "written"]
    /\ UNCHANGED <<object, published, cut>>

\* Mutant: the file is published before its data is on the disk.
SyncsNothing(w) ==
    /\ put[w].at = "sync" /\ PutGoes(w, "link")
    /\ UNCHANGED <<file, object, published, cut>>

Syncs(w) ==
    /\ put[w].at = "sync" /\ PutGoes(w, "link")
    /\ file' = [file EXCEPT ![w] = "synced"]
    /\ UNCHANGED <<object, published, cut>>

\* Mutant: publication replaces what is there.
LinksOver(w) ==
    /\ put[w].at = "link" /\ PutGoes(w, "syncdir")
    /\ object' = [object EXCEPT ![put[w].content] = [data |-> file[w], entry |-> "cached"]]
    /\ UNCHANGED <<file, published, cut>>

\* link: "an atomic, no-overwrite publication primitive".
Links(w) ==
    /\ put[w].at = "link"
    /\ LET c == put[w].content IN
       IF Exists(c) THEN PutGoes(w, "exists") /\ UNCHANGED object
       ELSE /\ PutGoes(w, "syncdir")
            /\ object' = [object EXCEPT ![c] = [data |-> file[w], entry |-> "cached"]]
    /\ UNCHANGED <<file, published, cut>>

\* Mutant: a writer that lost waits until the other's entry is on the disk.
LosesWhenStored(w) ==
    /\ put[w].at = "exists" /\ PutGoes(w, "unlink")
    /\ object[put[w].content].entry = "stored"
    /\ UNCHANGED <<file, object, published, cut>>

\* Another writer was first: its object is read and verified.
Loses(w) ==
    /\ put[w].at = "exists" /\ PutGoes(w, "unlink")
    /\ object[put[w].content].data \in Whole
    /\ UNCHANGED <<file, object, published, cut>>

\* Mutant: the directory is not synced.
SyncsNoDirectory(w) ==
    /\ put[w].at = "syncdir" /\ PutGoes(w, "unlink")
    /\ published' = [published EXCEPT ![put[w].content] = @ + 1]
    /\ UNCHANGED <<file, object, cut>>

SyncsDirectory(w) ==
    /\ put[w].at = "syncdir" /\ PutGoes(w, "unlink")
    /\ object' = IF DirectorySync /\ Exists(put[w].content) THEN [object EXCEPT ![put[w].content].entry = "stored"] ELSE object
    /\ published' = [published EXCEPT ![put[w].content] = @ + 1]
    /\ UNCHANGED <<file, cut>>

\* The temporary name goes, also when a step failed.
Unlinks(w) ==
    /\ put[w].at = "unlink" /\ PutGoes(w, "done")
    /\ file' = [file EXCEPT ![w] = NoFile]
    /\ UNCHANGED <<object, published, cut>>

\* The disk is full, or the file system refuses.
PutFails(w) ==
    /\ put[w].at \in {"create", "write", "sync", "link", "syncdir"}
    /\ put' = [put EXCEPT ![w] = Idle] /\ file' = [file EXCEPT ![w] = NoFile]
    /\ UNCHANGED <<object, published, cut>>

PutReturns(w) ==
    /\ put[w].at = "done" /\ put' = [put EXCEPT ![w] = Idle]
    /\ UNCHANGED <<file, object, published, cut>>

\* The process ends: temporary files stay, under names no later process uses.
StoreCrash ==
    /\ put' = [w \in Writers |-> Idle] /\ file' = [w \in Writers |-> NoFile] /\ cut' = TRUE
    /\ UNCHANGED <<object, published>>

\* What was not synced may be lost: an entry, or the data behind a stored one.
PowerFailure ==
    /\ put' = [w \in Writers |-> Idle] /\ file' = [w \in Writers |-> NoFile] /\ cut' = TRUE
    /\ \E lost \in SUBSET {c \in Contents : object[c].entry = "cached"} :
          object' = [c \in Contents |->
              CASE c \in lost                      -> [data |-> NoFile, entry |-> "none"]
                [] c \notin lost /\ Exists(c)      ->
                      [data |-> IF object[c].data = "written" THEN "torn" ELSE object[c].data, entry |-> "stored"]
                [] OTHER                           -> object[c]]
    /\ UNCHANGED published

PutStep(w) ==
    \/ Looks(w) \/ Creates(w) \/ WritesFile(w) \/ Syncs(w) \/ Links(w) \/ Loses(w)
    \/ SyncsDirectory(w) \/ Unlinks(w) \/ PutFails(w)

StoreNext ==
    \/ \E w \in Writers : (\E c \in Contents : PutBegins(w, c)) \/ PutStep(w) \/ PutReturns(w)
    \/ StoreCrash \/ PowerFailure

StoreSpec == StoreInit /\ [][StoreNext]_storeVars

------------------------------------------------------------------------------
\* What has a digest's name has its bytes: not half a file that a crash left behind.
PublishedIsWhole == \A c \in Contents : Exists(c) => object[c].data \in Whole

\* "Concurrent writers of identical content race safely and converge on one object":
\* of all puts of a content, one reports that it published.
PublishedOnce == ~cut => \A c \in Contents : published[c] <= 1

\* A publication that was returned survives the power, where directories can be synced.
PublicationSurvives ==
    DirectorySync => \A c \in Contents : published[c] > 0 => object[c].entry = "stored"

------------------------------------------------------------------------------
\* A file is linked when its data is on the disk, so that what has a name is whole.
LinksWhole ==
    /\ \A w \in Writers : put[w].at = "link" => file[w] = "synced"
    /\ \A c \in Contents : object[c].data = IF Exists(c) THEN "synced" ELSE NoFile

\* Who has linked an object, or met another's, finds it as long as the process runs.
Met == {"syncdir", "exists", "unlink", "done"}
MetIsThere ==
    \A w \in Writers : /\ put[w].at # "idle" => put[w].content \in Contents
                       /\ put[w].at \in Met => Exists(put[w].content)

\* One writer has linked an object that is there, and has reported it or is about to.
OneLinks ==
    /\ \A v, w \in Writers :
          put[v].at = "syncdir" /\ put[w].at = "syncdir" /\ put[v].content = put[w].content => v = w
    /\ ~cut => \A c \in Contents :
          published[c] > 0 => Exists(c) /\ \A w \in Writers : put[w].at = "syncdir" => put[w].content # c

\* What makes a publication whole, single and lasting: inductive.
StoreIInv ==
    /\ StoreTypeOK /\ LinksWhole /\ MetIsThere /\ OneLinks
    /\ PublishedOnce /\ PublicationSurvives

------------------------------------------------------------------------------
(***************************************************************************)
(* The sources                                                             *)
(***************************************************************************)
CONSTANTS Bytes,          \* the uploads; Contents holds them and their manifests
          Parseable,      \* those a parser accepts
          Supported,      \* those of a format that has a parser
          ManifestOf(_)   \* the manifest an upload's parse yields

SourcesAssumption ==
    /\ Parseable \subseteq Supported /\ Supported \subseteq Bytes /\ Bytes \subseteq Contents
    /\ \A b \in Bytes : ManifestOf(b) \in Contents
    /\ \A a, b \in Bytes : ManifestOf(a) = ManifestOf(b) => a = b   \* a manifest names its source's digest

VARIABLES
    graph,      \* whether the graph is there
    upload,     \* request -> what it is about to do
    sources     \* the rows: upload, status, and whether it has chunks

sourcesVars == <<put, file, object, published, cut, graph, upload, sources>>

Statuses == {"OPAQUE", "PARSED", "FAILED"}

SourcesTypeOK ==
    /\ StoreTypeOK
    /\ graph \in BOOLEAN
    /\ upload \in [Writers -> {"none", "body", "source", "manifest", "row"}]
    /\ sources \subseteq [bytes : Bytes, status : Statuses, chunks : BOOLEAN]

SourcesInit == StoreInit /\ graph = TRUE /\ upload = [w \in Writers |-> "none"] /\ sources = {}

------------------------------------------------------------------------------
\* POST sources: the graph and the node are looked at, the bytes are awaited.
UploadBegins(w) ==
    /\ graph /\ upload[w] = "none" /\ put[w] = Idle
    /\ upload' = [upload EXCEPT ![w] = "body"]
    /\ UNCHANGED <<storeVars, graph, sources>>

BytesArrive(w, b) ==
    /\ upload[w] = "body" /\ PutBegins(w, b)
    /\ upload' = [upload EXCEPT ![w] = "source"]
    /\ UNCHANGED <<graph, sources>>

\* Mutant: an upload that cannot be parsed has no manifest.
ManifestWhenParsed(b) == IF b \in Parseable THEN ManifestOf(b) ELSE b

\* The manifest names the source, its format, and what the parser made of it.
Manifest(b) == ManifestOf(b)

\* The first put returned: the bytes are parsed, the manifest is put.
Parses(w) ==
    /\ upload[w] = "source" /\ put[w].at = "done"
    /\ put' = [put EXCEPT ![w] = [at |-> "look", content |-> Manifest(put[w].content)]]
    /\ upload' = [upload EXCEPT ![w] = "manifest"]
    /\ UNCHANGED <<file, object, published, cut, graph, sources>>

\* Mutant: the row keeps the parser's word for the outcome.
StatusAsParsed(b) == IF b \in Parseable THEN "parsed" ELSE "failed"

\* Mutant: an opaque upload counts as parsed.
StatusOfBytes(b) == IF b \in Supported \ Parseable THEN "FAILED" ELSE "PARSED"

Status(b) ==
    CASE b \in Parseable              -> "PARSED"
      [] b \in Supported \ Parseable  -> "FAILED"
      [] OTHER                        -> "OPAQUE"

\* Mutant: the row does not need its graph.
GraphNotNeeded == TRUE

\* sources.graph_id references graphs.
GraphIsThere == graph

\* createSource: the row and its chunks in one transaction.
CreatesSource(w) ==
    /\ upload[w] = "manifest" /\ put[w].at = "done" /\ GraphIsThere
    /\ \E b \in {x \in Bytes : Manifest(x) = put[w].content} :
          sources' = sources \cup {[bytes |-> b, status |-> Status(b), chunks |-> b \in Parseable]}
    /\ put' = [put EXCEPT ![w] = Idle] /\ upload' = [upload EXCEPT ![w] = "none"]
    /\ UNCHANGED <<file, object, published, cut, graph>>

\* The store failed, or the graph is gone.
UploadFails(w) ==
    /\ upload[w] # "none"
    /\ \/ upload[w] = "body"
       \/ put[w].at = "idle"
       \/ put[w].at = "done" /\ ~graph
    /\ put' = [put EXCEPT ![w] = Idle] /\ upload' = [upload EXCEPT ![w] = "none"]
    /\ UNCHANGED <<file, object, published, cut, graph, sources>>

\* DELETE: the row goes, the object is retained.
DeleteSource(s) ==
    /\ s \in sources /\ sources' = sources \ {s}
    /\ UNCHANGED <<storeVars, graph, upload>>

DeleteGraph ==
    /\ graph /\ graph' = FALSE /\ sources' = {}
    /\ UNCHANGED <<storeVars, upload>>

Restart ==
    /\ StoreCrash
    /\ upload' = [w \in Writers |-> "none"]
    /\ UNCHANGED <<graph, sources>>

SourcesNext ==
    \/ \E w \in Writers :
          \/ UploadBegins(w) \/ Parses(w) \/ CreatesSource(w) \/ UploadFails(w)
          \/ \E b \in Bytes : BytesArrive(w, b)
          \/ PutStep(w) /\ UNCHANGED <<graph, upload, sources>>
    \/ \E s \in sources : DeleteSource(s)
    \/ DeleteGraph \/ Restart

SourcesFairness ==
    \A w \in Writers :
        /\ WF_sourcesVars((Looks(w) \/ Creates(w) \/ WritesFile(w) \/ Syncs(w) \/ Links(w) \/ Loses(w) \/ SyncsDirectory(w)
                    \/ Unlinks(w)) /\ UNCHANGED <<graph, upload, sources>>)
        /\ WF_sourcesVars(Parses(w) \/ CreatesSource(w) \/ UploadFails(w))

SourcesSpec == SourcesInit /\ [][SourcesNext]_sourcesVars /\ SourcesFairness

------------------------------------------------------------------------------
\* A row's bytes and its manifest can be read: GET content never meets a missing
\* object, whichever upload of the same bytes wrote it, failed or was cut off.
SourcesAreStored ==
    \A s \in sources : \A c \in {s.bytes, ManifestOf(s.bytes)} : Exists(c) /\ object[c].data \in Whole

\* "Unsupported evidence is retained with an explicit opaque status": retrieval finds
\* the chunks of what was parsed and of nothing else, and no row outlives its graph.
RowsAreComplete ==
    /\ \A s \in sources : s.chunks <=> s.status = "PARSED"
    /\ ~graph => sources = {}

\* An upload ends: no lost race between writers leaves a request behind.
UploadsEnd == \A w \in Writers : upload[w] \notin {"none", "body"} ~> upload[w] = "none"

------------------------------------------------------------------------------
\* An upload that stores its manifest has stored its bytes before; they stay, because
\* objects are never removed.
BytesAreStored ==
    \A w \in Writers :
        /\ upload[w] = "source" /\ put[w].at # "idle" => put[w].content \in Bytes
        /\ upload[w] = "manifest" /\ put[w].at # "idle" =>
              \E b \in Bytes : Exists(b) /\ put[w].content = ManifestOf(b)

\* What makes a row's objects readable: inductive.
SourcesIInv ==
    /\ StoreIInv /\ SourcesTypeOK /\ BytesAreStored
    /\ SourcesAreStored /\ RowsAreComplete
============================================================================
