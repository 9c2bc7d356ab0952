------------------------------- MODULE Skills -------------------------------
(***************************************************************************)
(* The skill catalog: packages on the disk, edits that are saved over      *)
(* them, scans, and the plan, its approval and its node that use them.     *)
(*                                                                         *)
(* A package is its SKILL.md and its other files, a digest is what it was  *)
(* computed of.  Each file is read by itself: whatever runs in between may *)
(* change the disk.  A scan empties the catalog, fills it again file by    *)
(* file and lays the saved edits over it at its end; who asks for a scan   *)
(* while one runs waits for that one.                                      *)
(***************************************************************************)
EXTENDS Naturals, Sequences, FiniteSetsExt, Functions

CONSTANTS Ids,                  \* of skills, in the order of their paths
          Versions, None,
          MaxInstalls, MaxSkillSaves, MaxScans   \* bounds: changes of the disk, edits that are
                                                 \* saved, scans nobody waits for

VARIABLES
    disk,       \* id -> None or the package
    saved,      \* id -> None or the latest revision of the user's edit
    catalog,    \* byId: a function from some ids to items
    items,      \* the items of the last scan that ended
    scan,       \* None, or what is left to find and to read
    plan,       \* its state and, for some ids, the item it pins
    node,       \* its state, what is left to read, what it reads and what it was given
    since,      \* observer: what was on the disk, and off throughout, since plan or node asked
    steps       \* of the bounds

skillVars == <<disk, saved, catalog, items, scan, plan, node, since, steps>>

Packages == [doc : Versions, asset : Versions]
Edits    == [doc : Versions, enabled : BOOLEAN, base : Packages \cup {None}]
Scans    == [todo : (SUBSET Ids) \cup {None}, parts : Seq(Versions \cup {None})]
Found    == [docs : SUBSET Versions, assets : SUBSET Versions]

SkillsAssumption == Ids \subseteq Nat /\ None \notin Versions \cup Edits \cup Scans

NoItems == [x \in {} |-> None]

OnDisk(d) ==
    [s \in Ids |-> IF d[s] = None THEN [docs |-> {}, assets |-> {}]
                   ELSE [docs |-> {d[s].doc}, assets |-> {d[s].asset}]]
Off(e)    == {s \in Ids : e[s] # None /\ ~e[s].enabled}
Now       == [files |-> OnDisk(disk), off |-> Off(saved)]

SkillsInit ==
    /\ \E v \in Versions : disk = [s \in Ids |-> [doc |-> v, asset |-> v]]
    /\ saved = [s \in Ids |-> None]
    /\ catalog = NoItems /\ items = None
    /\ scan = [todo |-> None, parts |-> <<>>]        \* ensureScanned
    /\ plan = [state |-> "none", pins |-> NoItems]
    /\ node = [state |-> "none", todo |-> {}, item |-> None, parts |-> <<>>, given |-> NoItems]
    /\ since = Now /\ steps = [edits |-> 0, saves |-> 0, scans |-> 0]

------------------------------------------------------------------------------
\* Another process edits, removes or installs files of a package.
DiskChanges ==
    /\ steps.edits < MaxInstalls /\ steps' = [steps EXCEPT !.edits = @ + 1]
    /\ \E s \in Ids : \E new \in Packages \cup {None} :
          /\ disk' = [disk EXCEPT ![s] = new] /\ new # disk[s]
          /\ since' = [since EXCEPT !.files[s] = [docs |-> @.docs \cup OnDisk(disk')[s].docs,
                                                  assets |-> @.assets \cup OnDisk(disk')[s].assets]]
    /\ UNCHANGED <<saved, catalog, items, scan, plan, node>>

\* The next file of a package that is read: what is known then, or None without it.
Read(parts, s, file) == IF disk[s] = None THEN Append(parts, None) ELSE Append(parts, disk[s][file])

Scanning == [todo |-> None, parts |-> <<>>]
Joined   == IF scan = None THEN Scanning ELSE scan

\* GET skills, and any request that lists the catalog
AsksForScan ==
    /\ scan = None /\ steps.scans < MaxScans /\ steps' = [steps EXCEPT !.scans = @ + 1]
    /\ scan' = Joined
    /\ UNCHANGED <<disk, saved, catalog, items, plan, node, since>>

\* Mutant: what the last scan found stays until it is read again.
ClearedNot == catalog

Cleared == NoItems

Finds ==
    /\ scan # None /\ scan.todo = None
    /\ scan' = [scan EXCEPT !.todo = {s \in Ids : disk[s] # None}]
    /\ catalog' = Cleared
    /\ UNCHANGED <<disk, saved, items, plan, node, since, steps>>

\* The text, then the package file by file.  A file that is gone leaves no item, or
\* one without a package, which is not valid.
Scanned(parts) ==
    LET whole == parts[2] # None /\ parts[3] # None
    IN [doc |-> parts[1], package |-> IF whole THEN [doc |-> parts[2], asset |-> parts[3]] ELSE None,
        valid |-> whole, enabled |-> TRUE, base |-> None, edited |-> FALSE]

ScanReads ==
    /\ scan # None /\ scan.todo # None /\ scan.todo # {}
    /\ LET s     == Min(scan.todo)
           parts == Read(scan.parts, s, IF Len(scan.parts) < 2 THEN "doc" ELSE "asset")
           over  == parts[1] = None \/ Len(parts) = 3
       IN /\ scan' = IF over THEN [todo |-> scan.todo \ {s}, parts |-> <<>>] ELSE [scan EXCEPT !.parts = parts]
          /\ catalog' = IF over /\ parts[1] # None
                        THEN [t \in DOMAIN catalog \cup {s} |-> IF t = s THEN Scanned(parts) ELSE catalog[t]]
                        ELSE catalog
    /\ UNCHANGED <<disk, saved, items, plan, node, since, steps>>

\* An edit of a package holds for the package that was edited.
OnItsBase(s) == saved[s].base = None \/ (s \in DOMAIN catalog /\ catalog[s].package = saved[s].base)

Edited(s) ==
    [doc |-> saved[s].doc,
     package |-> [doc |-> saved[s].doc, asset |-> IF saved[s].base = None THEN None ELSE saved[s].base.asset],
     valid |-> OnItsBase(s), enabled |-> saved[s].enabled, base |-> saved[s].base, edited |-> TRUE]

\* Mutant: a skill that was edited is taken as it is installed.
AppliedNot == catalog

\* applyOverrides
Applied ==
    [s \in DOMAIN catalog \cup {t \in Ids : saved[t] # None} |->
        IF saved[s] # None THEN Edited(s) ELSE catalog[s]]

Usable(item) == item.valid /\ item.enabled

\* ensurePlanContextFresh, without an await after the scan
StillPinned(c, pins) ==
    \A s \in DOMAIN pins : s \in DOMAIN c /\ Usable(c[s]) /\ c[s].doc = pins[s].doc /\ c[s].package = pins[s].package

ScanEnds ==
    /\ scan # None /\ scan.todo = {}
    /\ scan' = None /\ catalog' = Applied /\ items' = Applied
    /\ plan' = IF plan.state # "approving" THEN plan
               ELSE [plan EXCEPT !.state = IF StillPinned(Applied, plan.pins) THEN "approved" ELSE "stale"]
    /\ node' = IF node.state # "scanning" THEN node ELSE [node EXCEPT !.state = "reading", !.todo = DOMAIN plan.pins]
    /\ UNCHANGED <<disk, saved, since, steps>>

------------------------------------------------------------------------------
\* PATCH skills: the first edit remembers the package it was made for.
Saves ==
    /\ items # None /\ steps.saves < MaxSkillSaves /\ steps' = [steps EXCEPT !.saves = @ + 1]
    /\ \E s \in DOMAIN items, doc \in Versions, enabled \in BOOLEAN :
          saved' = [saved EXCEPT ![s] = [doc |-> doc, enabled |-> enabled,
                                         base |-> IF @ # None THEN @.base ELSE items[s].package]]
    /\ since' = [since EXCEPT !.off = @ \cap Off(saved')]
    /\ scan' = Joined
    /\ UNCHANGED <<disk, catalog, items, plan, node>>

\* A plan is made of the catalog as it is: only the first waits for a scan.
Plans ==
    /\ plan.state = "none" /\ items # None
    /\ \E pinned \in SUBSET {s \in DOMAIN catalog : Usable(catalog[s])} :
          plan' = [state |-> "made", pins |-> Restrict(catalog, pinned)] /\ pinned # {}
    /\ UNCHANGED <<disk, saved, catalog, items, scan, node, since, steps>>

Approves ==
    /\ plan.state = "made" /\ plan' = [plan EXCEPT !.state = "approving"]
    /\ scan' = Joined /\ since' = Now
    /\ UNCHANGED <<disk, saved, catalog, items, node, steps>>

\* A node of the plan begins.
NodeBegins ==
    /\ plan.state = "approved" /\ node.state = "none"
    /\ node' = [node EXCEPT !.state = "scanning"]
    /\ scan' = Joined /\ since' = Now
    /\ UNCHANGED <<disk, saved, catalog, items, plan, steps>>

\* readSelectedContents looks an item up, and reads the files of its package again.
\* What is not usable is passed over.
LooksUp ==
    /\ node.state = "reading" /\ node.todo # {} /\ node.item = None
    /\ LET s == Min(node.todo) IN
          node' = IF s \notin DOMAIN catalog \/ ~Usable(catalog[s]) THEN [node EXCEPT !.todo = @ \ {s}]
                  ELSE IF catalog[s].edited /\ catalog[s].base = None
                  THEN [node EXCEPT !.todo = @ \ {s},
                                    !.given = [t \in DOMAIN @ \cup {s} |-> IF t = s THEN catalog[s] ELSE @[t]]]
                  ELSE [node EXCEPT !.item = catalog[s], !.parts = <<>>]
    /\ UNCHANGED <<disk, saved, catalog, items, scan, plan, since, steps>>

\* Mutant: the package is not looked at again.
UnchangedNever(item, parts) == TRUE

\* It is the package that was scanned, or that was edited; the text is read last.
Unchanged(item, parts) ==
    /\ [doc |-> parts[1], asset |-> parts[2]] = (IF item.edited THEN item.base ELSE item.package)
    /\ item.edited \/ parts[3] = item.doc

NodeReads ==
    /\ node.item # None
    /\ LET s     == Min(node.todo)
           parts == Read(node.parts, s, IF Len(node.parts) = 1 THEN "asset" ELSE "doc")
       IN node' = IF Len(parts) < IF node.item.edited THEN 2 ELSE 3 THEN [node EXCEPT !.parts = parts]
                  ELSE IF Unchanged(node.item, parts)
                  THEN [node EXCEPT !.todo = @ \ {s}, !.item = None, !.parts = <<>>,
                                    !.given = [t \in DOMAIN @ \cup {s} |-> IF t = s THEN node.item ELSE @[t]]]
                  ELSE [node EXCEPT !.state = "failed", !.item = None, !.parts = <<>>]
    /\ UNCHANGED <<disk, saved, catalog, items, scan, plan, since, steps>>

\* Mutant: a skill that was passed over is no reason to stop.
GivenIsPinnedSome ==
    \A s \in DOMAIN node.given :
        node.given[s].doc = plan.pins[s].doc /\ node.given[s].package = plan.pins[s].package

GivenIsPinned ==
    \A s \in DOMAIN plan.pins :
        s \in DOMAIN node.given /\ node.given[s].doc = plan.pins[s].doc /\ node.given[s].package = plan.pins[s].package

NodeChecks ==
    /\ node.state = "reading" /\ node.todo = {}
    /\ node' = [node EXCEPT !.state = IF GivenIsPinned THEN "ran" ELSE "failed"]
    /\ UNCHANGED <<disk, saved, catalog, items, scan, plan, since, steps>>

SkillsNext ==
    \/ DiskChanges \/ AsksForScan \/ Finds \/ ScanReads \/ ScanEnds
    \/ Saves \/ Plans \/ Approves \/ NodeBegins \/ LooksUp \/ NodeReads \/ NodeChecks

SkillsSpec == SkillsInit /\ [][SkillsNext]_skillVars

------------------------------------------------------------------------------
\* Between scans the catalog is what the last one found.
SkillsTypeOK ==
    /\ disk \in [Ids -> Packages \cup {None}] /\ saved \in [Ids -> Edits \cup {None}]
    /\ scan \in Scans \cup {None} /\ since \in [files : [Ids -> Found], off : SUBSET Ids]
    /\ DOMAIN plan = {"state", "pins"} /\ DOMAIN node = {"state", "todo", "item", "parts", "given"}
    /\ DOMAIN catalog \subseteq Ids /\ DOMAIN plan.pins \subseteq Ids
    /\ DOMAIN node.given \subseteq DOMAIN plan.pins
    /\ node.todo \subseteq DOMAIN plan.pins /\ node.parts \in Seq(Versions \cup {None})
    /\ scan = None => catalog = items
    /\ \A s \in DOMAIN catalog : scan # None /\ scan.todo # None => s \notin scan.todo

\* "Partial activation ... is forbidden": a node that runs was given every skill its plan
\* pins, text and package, whatever was edited, removed, saved or scanned meanwhile.
GivenInFull ==
    node.state = "ran" => \A s \in DOMAIN plan.pins :
        s \in DOMAIN node.given /\ node.given[s].doc = plan.pins[s].doc /\ node.given[s].package = plan.pins[s].package

\* ... and every file of its installed package was on the disk after the node began,
\* although the scan it waited for may have read it before.
GivenIsCurrent ==
    node.state = "ran" => \A s \in DOMAIN node.given :
        LET installed == IF node.given[s].edited THEN node.given[s].base ELSE node.given[s].package
        IN installed # None =>
              installed.doc \in since.files[s].docs /\ installed.asset \in since.files[s].assets

\* An approval that succeeds found what the plan pins enabled and installed, by a scan
\* that ended after it asked.
ApprovedIsEnabled ==
    plan.state = "approved" /\ node.state = "none" => DOMAIN plan.pins \cap since.off = {}

\* README: "Disabled and archived skills are excluded."
DisabledIsExcluded == node.state = "ran" => DOMAIN node.given \cap since.off = {}

\* README: "Approval and new execution return PLAN_CONTEXT_STALE when ... skills ... changed":
\* what is approved was on the disk after the approval was asked for.
ApprovedIsCurrent ==
    plan.state = "approved" /\ node.state = "none" => \A s \in DOMAIN plan.pins :
        ~plan.pins[s].edited =>
            /\ plan.pins[s].doc \in since.files[s].docs
            /\ plan.pins[s].package.asset \in since.files[s].assets

\* "Pinned skill ... changed before node execution": a node fails for a change only.
FailsForAChange == node.state = "failed" => steps.edits + steps.saves > 0

------------------------------------------------------------------------------
\* An item whose package can be read has one: the installed, or the one that was edited.
ItemOK(item) ==
    /\ item.base \in Packages \cup {None}
    /\ ~item.edited => item.package \in Packages \cup {None} /\ (item.valid => item.package \in Packages)

\* What is edited was saved, so that the next edit is of the same package.
Of(found) ==
    /\ DOMAIN found \subseteq Ids
    /\ \A s \in DOMAIN found : ItemOK(found[s]) /\ (found[s].edited => saved[s] # None)
ItemsOK   == Of(catalog) /\ (items # None => Of(items))

\* The installed package an item is of
Installed(item) == IF item.edited THEN item.base ELSE item.package

Seen(s, package) == package.doc \in since.files[s].docs /\ package.asset \in since.files[s].assets

\* What is on the disk is known to the observer.
DiskIsSeen == \A s \in Ids : disk[s] # None => Seen(s, disk[s])

\* A node works for a plan that was approved, and looks its skills up one by one.
NodeOfPlan ==
    /\ node.state \in {"none", "scanning"} => node.given = NoItems /\ node.todo = {}
    /\ node.state # "none" => plan.state = "approved"
    /\ node.item # None => node.state = "reading" /\ node.todo # {} /\ Installed(node.item) \in Packages

\* What a node reads was there after it began, and so is what it was given.
ReadingIsSeen ==
    LET s == Min(node.todo) IN node.item # None =>
        /\ Len(node.parts) >= 1 /\ node.parts[1] # None => node.parts[1] \in since.files[s].docs
        /\ Len(node.parts) >= 2 /\ node.parts[2] # None => node.parts[2] \in since.files[s].assets

GivenIsSeen ==
    \A s \in DOMAIN node.given : Installed(node.given[s]) # None => Seen(s, Installed(node.given[s]))

\* What has been off throughout is off now.
OffIsOff == plan.state \in {"approving", "approved"} /\ node.state = "none" => since.off \subseteq Off(saved)

\* What makes a node's skills the plan's while the disk and the edits change: inductive.
SkillsIInv ==
    /\ SkillsTypeOK /\ ItemsOK /\ DiskIsSeen /\ NodeOfPlan /\ ReadingIsSeen /\ GivenIsSeen
    /\ GivenInFull /\ OffIsOff /\ ApprovedIsEnabled
==============================================================================
