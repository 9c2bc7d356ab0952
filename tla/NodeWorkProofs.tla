---------------------------- MODULE NodeWorkProofs ----------------------------
(***************************************************************************)
(* Proofs about a node's work: the skills it is given, the process that    *)
(* does it, the receipt of what it changed, and the review of its          *)
(* evidence.  Each holds for any number of skills, files, commands,        *)
(* reviewers, criteria, saves and scans, under the assumption that its     *)
(* module states and the lemmas here name.                                 *)
(*                                                                         *)
(* What they show is not inductive by itself.  SkillsIInv adds             *)
(* what the observer has seen of what is being read; ReceiptIInv that a    *)
(* save brings a content no manifest knows, so that two manifests which    *)
(* agree enclose a moment; ReviewIInv whose turn it is, and that the pins  *)
(* are compared again before a next reviewer is asked; ChildIInv that a    *)
(* stop is remembered where the outcome is decided.                        *)
(***************************************************************************)
EXTENDS Skills, CodexReceipt, NodeReview, CodexChild, WellFoundedInduction, TLAPS

------------------------------------------------------------------------------
(***************************************************************************)
(* The skills a node is given                                              *)
(***************************************************************************)
\* The numbers of skills that are left have a least one.
LEMMA SkillMin ==
  ASSUME NEW S, S \subseteq Nat, S # {}
  PROVE  Min(S) \in S
<1>1. PICK x \in S : \A y \in S : ~(<<y, x>> \in OpToRel(<, Nat))
  BY NatLessThanWellFounded, WFMin
<1>2. \A y \in S : ~(y < x)
  BY <1>1, Zenon DEF OpToRel
<1>3. \A y \in S : x =< y
  BY <1>2
<1> QED  BY <1>3 DEF Min

\* What is read next is appended, and was on the disk unless it is None.
LEMMA SkillRead ==
  ASSUME SkillsAssumption, SkillsTypeOK, NEW s \in Ids, NEW parts \in Seq(Versions \cup {None}), NEW file \in {"doc", "asset"}
  PROVE  /\ Read(parts, s, file) \in Seq(Versions \cup {None})
         /\ Len(parts) \in Nat /\ Len(Read(parts, s, file)) = Len(parts) + 1
         /\ \A i \in 1..Len(parts) : Read(parts, s, file)[i] = parts[i]
         /\ LET x == Read(parts, s, file)[Len(parts) + 1] IN x # None => disk[s] # None /\ x = disk[s][file]
<1> DEFINE x == IF disk[s] = None THEN None ELSE disk[s][file]
<1>1. x \in Versions \cup {None}
  <2>1. disk[s] \in Packages \cup {None}
    BY DEF SkillsTypeOK
  <2>2. disk[s] \in Packages => disk[s][file] \in Versions
    BY DEF Packages
  <2> QED  BY <2>1, <2>2
<1>2. Read(parts, s, file) = Append(parts, x)
  BY DEF Read
<1> HIDE DEF x
<1>3. /\ Append(parts, x) \in Seq(Versions \cup {None})
      /\ Len(parts) \in Nat /\ Len(Append(parts, x)) = Len(parts) + 1
      /\ \A i \in 1..Len(parts) : Append(parts, x)[i] = parts[i]
      /\ Append(parts, x)[Len(parts) + 1] = x
  BY <1>1
<1> QED  BY <1>2, <1>3 DEF x

\* At first nothing is found, nothing pinned and nothing given.
LEMMA SkillsInitIInv == SkillsAssumption /\ SkillsInit => SkillsIInv
<1> SUFFICES ASSUME SkillsAssumption, SkillsInit PROVE SkillsIInv
  OBVIOUS
<1> USE DEF SkillsInit
<1>1. PICK v \in Versions : disk = [s \in Ids |-> [doc |-> v, asset |-> v]]
  OBVIOUS
<1>2. \A s \in Ids : disk[s] \in Packages
  BY <1>1 DEF Packages
<1>3. saved \in [Ids -> Edits \cup {None}] /\ disk \in [Ids -> Packages \cup {None}]
  BY <1>1, <1>2
<1>4. scan \in Scans
  <2>1. <<>> \in Seq(Versions \cup {None})
    OBVIOUS
  <2> QED  BY <2>1 DEF Scans
<1>5. OnDisk(disk) \in [Ids -> Found] /\ Off(saved) \in SUBSET Ids
  BY <1>2 DEF OnDisk, Off, Found, Packages
<1>6. since \in [files : [Ids -> Found], off : SUBSET Ids]
  BY <1>5 DEF Now
<1>7. DOMAIN NoItems = {}
  BY DEF NoItems
<1>8. scan # None
  BY <1>4 DEF SkillsAssumption
<1>9. SkillsTypeOK
  BY <1>3, <1>4, <1>6, <1>7, <1>8 DEF SkillsTypeOK
<1>10. DiskIsSeen
  BY <1>2 DEF DiskIsSeen, Seen, Now, OnDisk, Packages
<1> QED  BY <1>7, <1>9, <1>10
            DEF SkillsIInv, ItemsOK, Of, NodeOfPlan, ReadingIsSeen, GivenIsSeen, GivenInFull, OffIsOff,
                ApprovedIsEnabled

\* Items are of a scan, or of an edit.
LEMMA SkillItems ==
  ASSUME SkillsAssumption, SkillsTypeOK, ItemsOK
  PROVE  Of(Applied) /\ \A s \in DOMAIN Applied \cap Off(saved) : ~Usable(Applied[s])
<1>1. DOMAIN Applied = DOMAIN catalog \cup {t \in Ids : saved[t] # None} /\ DOMAIN catalog \subseteq Ids
  BY DEF Applied, SkillsTypeOK
<1>2. ASSUME NEW s \in DOMAIN Applied, saved[s] # None
      PROVE  ItemOK(Applied[s]) /\ (s \in Off(saved) => ~Usable(Applied[s]))
  <2>1. Applied[s] = Edited(s)
    BY <1>1, <1>2 DEF Applied
  <2>2. saved[s] \in Edits
    BY <1>1, <1>2 DEF SkillsTypeOK
  <2>3. Edited(s).edited /\ Edited(s).base = saved[s].base /\ Edited(s).enabled = saved[s].enabled
    BY Zenon DEF Edited
  <2>4. saved[s].base \in Packages \cup {None}
    BY <2>2 DEF Edits
  <2>5. ItemOK(Applied[s])
    BY <2>1, <2>3, <2>4 DEF ItemOK
  <2>6. s \in Off(saved) => ~Usable(Applied[s])
    BY <2>1, <2>3 DEF Off, Usable
  <2> QED  BY <2>5, <2>6
<1>3. ASSUME NEW s \in DOMAIN Applied, saved[s] = None
      PROVE  s \in DOMAIN catalog /\ Applied[s] = catalog[s]
  BY <1>1, <1>3 DEF Applied
<1>4. ASSUME NEW s \in DOMAIN Applied
      PROVE  ItemOK(Applied[s]) /\ (Applied[s].edited => saved[s] # None)
  BY <1>2, <1>3 DEF ItemsOK, Of
<1>5. ASSUME NEW s \in DOMAIN Applied, saved[s] = None
      PROVE  s \notin Off(saved)
  BY <1>5 DEF Off
<1> QED  BY <1>1, <1>2, <1>4, <1>5 DEF Of

\* Who asks for a scan has one, which has not read what it may still read.
LEMMA SkillJoins ==
  ASSUME SkillsAssumption, SkillsTypeOK
  PROVE  /\ Joined \in Scans /\ Joined # None
         /\ \A s \in DOMAIN catalog : Joined.todo # None => s \notin Joined.todo
<1>1. Scanning \in Scans /\ Scanning.todo = None
  <2>1. <<>> \in Seq(Versions \cup {None})
    OBVIOUS
  <2> QED  BY <2>1 DEF Scanning, Scans
<1>2. \A x \in Scans : x # None
  BY DEF SkillsAssumption
<1>3. CASE scan = None
  BY <1>1, <1>2, <1>3 DEF Joined
<1>4. CASE scan # None
  BY <1>2, <1>4 DEF Joined, SkillsTypeOK
<1> QED  BY <1>3, <1>4

\* A change of the disk is seen, and nothing that was seen is forgotten.
LEMMA SkillDisk ==
  ASSUME SkillsAssumption, SkillsTypeOK, DiskIsSeen, DiskChanges
  PROVE  /\ SkillsTypeOK' /\ DiskIsSeen' /\ since'.off = since.off
         /\ \A s \in Ids : /\ since.files[s].docs \subseteq since'.files[s].docs
                          /\ since.files[s].assets \subseteq since'.files[s].assets
<1>1. PICK s \in Ids, new \in Packages \cup {None} :
        /\ disk' = [disk EXCEPT ![s] = new]
        /\ since' = [since EXCEPT !.files[s] = [docs |-> @.docs \cup OnDisk(disk')[s].docs,
                                                assets |-> @.assets \cup OnDisk(disk')[s].assets]]
  BY DEF DiskChanges
<1> DEFINE more == OnDisk(disk')[s]
           old  == since.files[s]
<1>2. disk' \in [Ids -> Packages \cup {None}] /\ disk'[s] = new /\ \A x \in Ids \ {s} : disk'[x] = disk[x]
  BY <1>1 DEF SkillsTypeOK
<1>3. more \in Found /\ (new # None => new.doc \in more.docs /\ new.asset \in more.assets)
  BY <1>2 DEF OnDisk, Packages, Found
<1>4. old \in Found /\ since.files \in [Ids -> Found] /\ since.off \in SUBSET Ids
  BY DEF SkillsTypeOK
<1> HIDE DEF more
<1> DEFINE both == [docs |-> old.docs \cup more.docs, assets |-> old.assets \cup more.assets]
<1>5. both \in Found
  BY <1>3, <1>4 DEF Found
<1> HIDE DEF both
<1>6. since' = [since EXCEPT !.files[s] = both]
  BY <1>1 DEF more, both
<1>7. since'.files = [since.files EXCEPT ![s] = both] /\ since'.off = since.off
      /\ since' \in [files : [Ids -> Found], off : SUBSET Ids]
  BY <1>4, <1>5, <1>6 DEF SkillsTypeOK
<1>8. since'.files[s] = both /\ \A x \in Ids \ {s} : since'.files[x] = since.files[x]
  BY <1>4, <1>7
<1>9. UNCHANGED <<saved, catalog, items, scan, plan, node>>
  BY DEF DiskChanges
<1>10. SkillsTypeOK'
  BY <1>2, <1>7, <1>9 DEF SkillsTypeOK
<1>11. \A x \in Ids : since.files[x].docs \subseteq since'.files[x].docs /\ since.files[x].assets \subseteq since'.files[x].assets
  BY <1>8 DEF both
<1>12. DiskIsSeen'
  BY <1>2, <1>3, <1>8, <1>11 DEF DiskIsSeen, Seen, both
<1> QED  BY <1>7, <1>10, <1>11, <1>12

\* A scan empties the catalog and fills it with items of packages that exist.
LEMMA SkillScans ==
  ASSUME SkillsAssumption, SkillsTypeOK, ItemsOK, AsksForScan \/ Finds \/ ScanReads
  PROVE  SkillsTypeOK' /\ ItemsOK'
<1>1. CASE AsksForScan
  BY <1>1, SkillJoins DEF AsksForScan, SkillsTypeOK, ItemsOK, Of
<1>2. CASE Finds
  <2>1. scan \in Scans /\ DOMAIN Cleared = {}
    BY <1>2 DEF Finds, SkillsTypeOK, Cleared, NoItems
  <2>2. scan' \in Scans
    BY <1>2, <2>1 DEF Finds, Scans
  <2>3. scan' # None
    BY <2>2 DEF SkillsAssumption
  <2> QED  BY <1>2, <2>1, <2>2, <2>3 DEF Finds, SkillsTypeOK, ItemsOK, Of
<1>3. CASE ScanReads
  <2> DEFINE s     == Min(scan.todo)
             parts == Read(scan.parts, s, IF Len(scan.parts) < 2 THEN "doc" ELSE "asset")
             last  == parts[1] = None \/ Len(parts) = 3
             whole == parts[2] # None /\ parts[3] # None
  <2>1. scan \in Scans /\ scan.todo \subseteq Ids /\ scan.todo # {} /\ scan.parts \in Seq(Versions \cup {None})
    BY <1>3 DEF ScanReads, SkillsTypeOK, Scans
  <2>2. s \in scan.todo /\ s \in Ids
    BY <2>1, SkillMin DEF SkillsAssumption
  <2>3. parts \in Seq(Versions \cup {None}) /\ Len(parts) \in Nat
    BY <2>1, <2>2, SkillRead
  <2>4. /\ scan' = IF last THEN [todo |-> scan.todo \ {s}, parts |-> <<>>] ELSE [scan EXCEPT !.parts = parts]
        /\ catalog' = IF last /\ parts[1] # None
                      THEN [t \in DOMAIN catalog \cup {s} |-> IF t = s THEN Scanned(parts) ELSE catalog[t]]
                      ELSE catalog
        /\ UNCHANGED <<disk, saved, items, plan, node, since>>
    BY <1>3 DEF ScanReads
  <2> HIDE DEF s, parts
  <2>5. scan' \in Scans /\ scan'.todo \subseteq scan.todo
        /\ (last => scan'.todo = scan.todo \ {s})
    <3>1. CASE last
      <4>1. <<>> \in Seq(Versions \cup {None})
        OBVIOUS
      <4> QED  BY <2>1, <2>4, <3>1, <4>1 DEF Scans
    <3>2. CASE ~last
      BY <2>1, <2>3, <2>4, <3>2 DEF Scans
    <3> QED  BY <3>1, <3>2
  <2>6. scan' # None
    BY <2>5 DEF SkillsAssumption
  <2>7. ASSUME last, parts[1] # None
        PROVE  ItemOK(Scanned(parts)) /\ ~Scanned(parts).edited
    <3>1. Len(parts) = 3 /\ \A i \in 1..3 : parts[i] \in Versions \cup {None}
      BY <2>3, <2>7
    <3>2. whole => [doc |-> parts[2], asset |-> parts[3]] \in Packages
      BY <3>1 DEF Packages
    <3>3. /\ ~Scanned(parts).edited /\ Scanned(parts).base = None
          /\ Scanned(parts).valid = whole
          /\ Scanned(parts).package = IF whole THEN [doc |-> parts[2], asset |-> parts[3]] ELSE None
      BY Zenon DEF Scanned
    <3> QED  BY <3>2, <3>3 DEF ItemOK
  <2>8. /\ DOMAIN catalog' \subseteq DOMAIN catalog \cup {s}
        /\ (last \/ catalog' = catalog)
        /\ \A t \in DOMAIN catalog' : \/ t \in DOMAIN catalog /\ catalog'[t] = catalog[t]
                                      \/ t = s /\ last /\ parts[1] # None /\ catalog'[t] = Scanned(parts)
    BY <2>4
  <2> HIDE DEF last
  <2>9. ItemsOK'
    BY <2>2, <2>4, <2>7, <2>8 DEF ItemsOK, Of
  <2>10. \A t \in DOMAIN catalog' : scan'.todo # None => t \notin scan'.todo
    <3>1. scan.todo # None /\ scan # None
      BY <1>3 DEF ScanReads
    <3>2. \A t \in DOMAIN catalog : t \notin scan'.todo
      BY <2>5, <3>1 DEF SkillsTypeOK
    <3> QED  BY <2>5, <2>8, <3>2
  <2>11. DOMAIN catalog' \subseteq Ids
    BY <2>2, <2>8 DEF SkillsTypeOK
  <2> QED  BY <2>4, <2>5, <2>6, <2>9, <2>10, <2>11 DEF SkillsTypeOK
<1> QED  BY <1>1, <1>2, <1>3

\* The end of a scan lays the saved edits over what was found.
LEMMA SkillScanEnds ==
  ASSUME SkillsAssumption, SkillsTypeOK, ItemsOK, ScanEnds
  PROVE  SkillsTypeOK' /\ ItemsOK'
<1>1. Of(Applied)
  BY SkillItems
<1>2. /\ scan' = None /\ catalog' = Applied /\ items' = Applied /\ UNCHANGED <<disk, saved, since>>
      /\ plan' = IF plan.state # "approving" THEN plan
                 ELSE [plan EXCEPT !.state = IF StillPinned(Applied, plan.pins) THEN "approved" ELSE "stale"]
      /\ node' = IF node.state # "scanning" THEN node ELSE [node EXCEPT !.state = "reading", !.todo = DOMAIN plan.pins]
  BY DEF ScanEnds
<1>3. DOMAIN plan' = {"state", "pins"} /\ plan'.pins = plan.pins
  BY <1>2 DEF SkillsTypeOK
<1>4. /\ DOMAIN node' = {"state", "todo", "item", "parts", "given"}
      /\ node'.given = node.given /\ node'.parts = node.parts /\ node'.todo \subseteq DOMAIN plan.pins
  BY <1>2 DEF SkillsTypeOK
<1> QED  BY <1>1, <1>2, <1>3, <1>4 DEF SkillsTypeOK, ItemsOK, Of

\* An edit keeps the package it was first made for.
LEMMA SkillSaves ==
  ASSUME SkillsAssumption, SkillsTypeOK, ItemsOK, Saves
  PROVE  SkillsTypeOK' /\ ItemsOK' /\ since'.files = since.files /\ since'.off \subseteq Off(saved')
<1>1. PICK s \in DOMAIN items, doc \in Versions, enabled \in BOOLEAN :
        saved' = [saved EXCEPT ![s] = [doc |-> doc, enabled |-> enabled,
                                       base |-> IF @ # None THEN @.base ELSE items[s].package]]
  BY DEF Saves
<1>2. /\ items # None /\ scan' = Joined /\ since' = [since EXCEPT !.off = @ \cap Off(saved')]
      /\ UNCHANGED <<disk, catalog, items, plan, node>>
  BY DEF Saves
<1> DEFINE kept == IF saved[s] # None THEN saved[s].base ELSE items[s].package
<1>3. s \in Ids
  BY <1>2 DEF ItemsOK, Of
<1>4. kept \in Packages \cup {None}
  <2>1. saved[s] \in Edits \cup {None}
    BY <1>3 DEF SkillsTypeOK
  <2>2. saved[s] \in Edits => saved[s].base \in Packages \cup {None}
    BY DEF Edits
  <2>3. saved[s] = None => items[s].package \in Packages \cup {None}
    BY <1>2 DEF ItemsOK, Of, ItemOK
  <2> QED  BY <2>1, <2>2, <2>3
<1> HIDE DEF kept
<1> DEFINE edit == [doc |-> doc, enabled |-> enabled, base |-> kept]
<1>5. edit \in Edits
  BY <1>4 DEF Edits
<1>6. edit # None
  BY <1>5 DEF SkillsAssumption
<1> HIDE DEF edit
<1>7. saved' = [saved EXCEPT ![s] = edit]
  BY <1>1 DEF edit, kept
<1>8. saved' \in [Ids -> Edits \cup {None}] /\ \A x \in Ids : saved[x] # None => saved'[x] # None
  BY <1>3, <1>5, <1>6, <1>7 DEF SkillsTypeOK
<1>9. since' \in [files : [Ids -> Found], off : SUBSET Ids] /\ since'.files = since.files /\ since'.off = since.off \cap Off(saved')
  BY <1>2 DEF SkillsTypeOK
<1>10. SkillsTypeOK'
  BY <1>2, <1>8, <1>9, SkillJoins DEF SkillsTypeOK
<1>11. ItemsOK'
  BY <1>2, <1>8 DEF ItemsOK, Of
<1> QED  BY <1>9, <1>10, <1>11

\* Whoever asks now has seen what is on the disk now.
LEMMA SkillNow ==
  ASSUME SkillsAssumption, SkillsTypeOK, since' = Now
  PROVE  /\ since' \in [files : [Ids -> Found], off : SUBSET Ids] /\ since'.off = Off(saved)
         /\ (disk' = disk => DiskIsSeen')
<1>1. OnDisk(disk) \in [Ids -> Found] /\ Off(saved) \in SUBSET Ids
  BY DEF SkillsTypeOK, OnDisk, Off, Found, Packages
<1>2. since'.files = OnDisk(disk)
  BY DEF Now
<1>3. \A s \in Ids : disk[s] # None => disk[s].doc \in OnDisk(disk)[s].docs /\ disk[s].asset \in OnDisk(disk)[s].assets
  BY DEF OnDisk
<1> QED  BY <1>1, <1>2, <1>3 DEF Now, DiskIsSeen, Seen

\* A plan pins what is in the catalog, and a node has read nothing when it begins.
LEMMA SkillPlans ==
  ASSUME SkillsAssumption, SkillsTypeOK, ItemsOK, NodeOfPlan, Plans \/ Approves \/ NodeBegins
  PROVE  SkillsTypeOK' /\ ItemsOK'
<1>1. CASE Plans
  <2>1. PICK pinned \in SUBSET DOMAIN catalog : plan' = [state |-> "made", pins |-> Restrict(catalog, pinned)]
    BY <1>1 DEF Plans
  <2>2. DOMAIN plan' = {"state", "pins"} /\ DOMAIN plan'.pins \subseteq Ids
    BY <2>1 DEF Restrict, SkillsTypeOK
  <2>3. node.todo = {} /\ DOMAIN node.given = {}
    BY <1>1 DEF Plans, NodeOfPlan, NoItems
  <2> QED  BY <1>1, <2>2, <2>3 DEF Plans, SkillsTypeOK, ItemsOK, Of
<1>2. CASE Approves
  <2>1. DOMAIN plan' = {"state", "pins"} /\ plan'.pins = plan.pins
    BY <1>2 DEF Approves, SkillsTypeOK
  <2> QED  BY <1>2, <2>1, SkillJoins, SkillNow DEF Approves, SkillsTypeOK, ItemsOK, Of
<1>3. CASE NodeBegins
  <2>1. /\ DOMAIN node' = {"state", "todo", "item", "parts", "given"}
        /\ node'.given = node.given /\ node'.parts = node.parts /\ node'.todo = node.todo
    BY <1>3 DEF NodeBegins, SkillsTypeOK
  <2> QED  BY <1>3, <2>1, SkillJoins, SkillNow DEF NodeBegins, SkillsTypeOK, ItemsOK, Of
<1> QED  BY <1>1, <1>2, <1>3

\* A node goes on with the same plan and the same observer.
LEMMA SkillNode ==
  ASSUME SkillsAssumption, SkillsIInv, LooksUp \/ NodeReads \/ NodeChecks
  PROVE  /\ UNCHANGED <<disk, saved, catalog, items, scan, plan, since>>
         /\ DOMAIN node' = {"state", "todo", "item", "parts", "given"}
         /\ node'.todo \subseteq node.todo /\ node'.parts \in Seq(Versions \cup {None})
         /\ DOMAIN node'.given \subseteq DOMAIN plan.pins
         /\ NodeOfPlan' /\ ReadingIsSeen' /\ GivenIsSeen' /\ GivenInFull'
<1> USE DEF SkillsIInv
<1>1. DOMAIN node = {"state", "todo", "item", "parts", "given"} /\ node.todo \subseteq DOMAIN plan.pins
      /\ DOMAIN plan.pins \subseteq Ids /\ DOMAIN node.given \subseteq DOMAIN plan.pins
  BY DEF SkillsTypeOK
<1>2. <<>> \in Seq(Versions \cup {None}) /\ Len(<<>>) = 0
  OBVIOUS
<1>3. CASE LooksUp
  <2> DEFINE s == Min(node.todo)
             more == [t \in DOMAIN node.given \cup {s} |-> IF t = s THEN catalog[s] ELSE node.given[t]]
  <2>1. node.state = "reading" /\ plan.state = "approved" /\ node.todo # {} /\ node.item = None
    BY <1>3 DEF LooksUp, NodeOfPlan
  <2>2. s \in node.todo
    <3>1. node.todo \subseteq Nat
      BY <1>1 DEF SkillsAssumption
    <3> QED  BY <2>1, <3>1, SkillMin
  <2>3. UNCHANGED <<disk, saved, catalog, items, scan, plan, since>>
    BY <1>3 DEF LooksUp
  <2>4. \/ node' = [node EXCEPT !.todo = @ \ {s}]
        \/ s \in DOMAIN catalog /\ catalog[s].edited /\ catalog[s].base = None
           /\ node' = [node EXCEPT !.todo = @ \ {s}, !.given = more]
        \/ s \in DOMAIN catalog /\ Usable(catalog[s]) /\ ~(catalog[s].edited /\ catalog[s].base = None)
           /\ node' = [node EXCEPT !.item = catalog[s], !.parts = <<>>]
    BY <1>3 DEF LooksUp
  <2> HIDE DEF s
  <2>5. CASE node' = [node EXCEPT !.todo = @ \ {s}]
    <3>1. /\ node'.state = node.state /\ node'.item = node.item /\ node'.parts = node.parts /\ node'.given = node.given
          /\ node'.todo = node.todo \ {s} /\ DOMAIN node' = DOMAIN node
      BY <1>1, <2>5
    <3> QED  BY <1>1, <2>1, <2>3, <3>1
                DEF SkillsTypeOK, NodeOfPlan, ReadingIsSeen, GivenIsSeen, GivenInFull, Seen, Installed
  <2>6. CASE /\ s \in DOMAIN catalog /\ catalog[s].edited /\ catalog[s].base = None
             /\ node' = [node EXCEPT !.todo = @ \ {s}, !.given = more]
    <3> HIDE DEF more
    <3>1. /\ node'.state = node.state /\ node'.item = node.item /\ node'.parts = node.parts /\ node'.given = more
          /\ node'.todo = node.todo \ {s} /\ DOMAIN node' = DOMAIN node
      BY <1>1, <2>6
    <3>2. DOMAIN more \subseteq DOMAIN plan.pins
      BY <1>1, <2>2 DEF more
    <3>3. \A t \in DOMAIN more : Installed(more[t]) # None => t \in DOMAIN node.given /\ more[t] = node.given[t]
      BY <2>6 DEF more, Installed
    <3> QED  BY <1>1, <2>1, <2>3, <3>1, <3>2, <3>3
                DEF SkillsTypeOK, NodeOfPlan, ReadingIsSeen, GivenIsSeen, GivenInFull, Seen
  <2>7. CASE /\ s \in DOMAIN catalog /\ Usable(catalog[s]) /\ ~(catalog[s].edited /\ catalog[s].base = None)
             /\ node' = [node EXCEPT !.item = catalog[s], !.parts = <<>>]
    <3>1. /\ node'.state = node.state /\ node'.item = catalog[s] /\ node'.parts = <<>> /\ node'.given = node.given
          /\ node'.todo = node.todo /\ DOMAIN node' = DOMAIN node
      BY <1>1, <2>7
    <3>2. Installed(catalog[s]) \in Packages
      BY <2>7 DEF ItemsOK, Of, ItemOK, Installed, Usable
    <3> QED  BY <1>1, <1>2, <2>1, <2>3, <3>1, <3>2
                DEF SkillsTypeOK, NodeOfPlan, ReadingIsSeen, GivenIsSeen, GivenInFull, Seen
  <2> QED  BY <2>4, <2>5, <2>6, <2>7
<1>4. CASE NodeReads
  <2> DEFINE s     == Min(node.todo)
             parts == Read(node.parts, s, IF Len(node.parts) = 1 THEN "asset" ELSE "doc")
             more  == [t \in DOMAIN node.given \cup {s} |-> IF t = s THEN node.item ELSE node.given[t]]
             now   == Installed(node.item)
  <2>1. node.item # None /\ node.state = "reading" /\ plan.state = "approved" /\ node.todo # {} /\ now \in Packages
    BY <1>4 DEF NodeReads, NodeOfPlan
  <2>2. s \in node.todo /\ s \in Ids
    <3>1. node.todo \subseteq Nat
      BY <1>1 DEF SkillsAssumption
    <3> QED  BY <1>1, <2>1, <3>1, SkillMin
  <2>3. UNCHANGED <<disk, saved, catalog, items, scan, plan, since>>
    BY <1>4 DEF NodeReads
  <2>4. /\ Len(parts) < 2 \/ (~node.item.edited /\ Len(parts) < 3) => node' = [node EXCEPT !.parts = parts]
        /\ ~(Len(parts) < 2 \/ (~node.item.edited /\ Len(parts) < 3)) =>
              \/ /\ Unchanged(node.item, parts)
                 /\ node' = [node EXCEPT !.todo = @ \ {s}, !.item = None, !.parts = <<>>, !.given = more]
              \/ node' = [node EXCEPT !.state = "failed", !.item = None, !.parts = <<>>]
    BY <1>4, SMT DEF NodeReads
  <2>5. /\ parts \in Seq(Versions \cup {None}) /\ Len(node.parts) \in Nat /\ Len(parts) = Len(node.parts) + 1
        /\ \A i \in 1..Len(node.parts) : parts[i] = node.parts[i]
        /\ (Len(node.parts) = 1 /\ parts[Len(parts)] # None => disk[s] # None /\ parts[Len(parts)] = disk[s].asset)
        /\ (Len(node.parts) # 1 /\ parts[Len(parts)] # None => disk[s] # None /\ parts[Len(parts)] = disk[s].doc)
    <3>1. node.parts \in Seq(Versions \cup {None})
      BY DEF SkillsTypeOK
    <3> HIDE DEF s
    <3> DEFINE file == IF Len(node.parts) = 1 THEN "asset" ELSE "doc"
    <3>2. file \in {"doc", "asset"}
      OBVIOUS
    <3> HIDE DEF file
    <3>3. /\ parts \in Seq(Versions \cup {None})
          /\ Len(node.parts) \in Nat /\ Len(parts) = Len(node.parts) + 1
          /\ \A i \in 1..Len(node.parts) : parts[i] = node.parts[i]
          /\ (parts[Len(node.parts) + 1] # None => disk[s] # None /\ parts[Len(node.parts) + 1] = disk[s][file])
      BY <2>2, <3>1, <3>2, SkillRead, Zenon DEF file
    <3> QED  BY <3>3 DEF file
  <2> HIDE DEF s, parts
  <2>6. disk[s] # None => disk[s].doc \in since.files[s].docs /\ disk[s].asset \in since.files[s].assets
    BY <2>2 DEF DiskIsSeen, Seen
  <2>7. /\ (Len(node.parts) >= 1 /\ node.parts[1] # None => node.parts[1] \in since.files[s].docs)
        /\ (Len(node.parts) >= 2 /\ node.parts[2] # None => node.parts[2] \in since.files[s].assets)
    BY <2>1 DEF ReadingIsSeen, s
  <2>8. /\ (Len(parts) >= 1 /\ parts[1] # None => parts[1] \in since.files[s].docs)
        /\ (Len(parts) >= 2 /\ parts[2] # None => parts[2] \in since.files[s].assets)
    <3>1. CASE Len(node.parts) = 0
      BY <2>5, <2>6, <3>1
    <3>2. CASE Len(node.parts) = 1
      <4>1. Len(parts) = 2 /\ parts[1] = node.parts[1]
        BY <2>5, <3>2
      <4> QED  BY <2>5, <2>6, <2>7, <3>2, <4>1
    <3>3. CASE Len(node.parts) > 1
      <4>1. Len(parts) > 2 /\ parts[1] = node.parts[1] /\ parts[2] = node.parts[2]
        BY <2>5, <3>3
      <4> QED  BY <2>5, <2>7, <3>3, <4>1
    <3>4. Len(node.parts) = 0 \/ Len(node.parts) = 1 \/ Len(node.parts) > 1
      <4>1. Len(node.parts) \in Nat
        BY <2>5
      <4> DEFINE n == Len(node.parts)
      <4> HIDE DEF n
      <4>2. n \in Nat
        BY <4>1 DEF n
      <4>3. n = 0 \/ n = 1 \/ n > 1
        BY <4>2
      <4> QED  BY <4>3 DEF n
    <3> QED  BY <3>1, <3>2, <3>3, <3>4
  <2>9. CASE node' = [node EXCEPT !.parts = parts]
    <3>1. /\ node'.state = node.state /\ node'.item = node.item /\ node'.parts = parts /\ node'.given = node.given
          /\ node'.todo = node.todo /\ DOMAIN node' = DOMAIN node
      BY <1>1, <2>9
    <3>2. ReadingIsSeen'
      BY <2>3, <2>8, <3>1 DEF ReadingIsSeen, s
    <3> QED  BY <1>1, <2>1, <2>3, <2>5, <3>1, <3>2 DEF NodeOfPlan, GivenIsSeen, GivenInFull, Seen, Installed
  <2>10. CASE /\ Len(parts) >= 2 /\ Unchanged(node.item, parts)
              /\ node' = [node EXCEPT !.todo = @ \ {s}, !.item = None, !.parts = <<>>, !.given = more]
    <3>1. [doc |-> parts[1], asset |-> parts[2]] = now
      BY <2>10 DEF Unchanged, Installed
    <3> DEFINE read == [doc |-> parts[1], asset |-> parts[2]]
    <3>2. read.doc = parts[1] /\ read.asset = parts[2] /\ read \in Packages
      BY <2>1, <3>1
    <3>3. parts[1] \in Versions /\ parts[2] \in Versions
      BY <3>2 DEF Packages
    <3>4. parts[1] # None /\ parts[2] # None
      BY <3>3 DEF SkillsAssumption
    <3>5. Seen(s, now)
      BY <2>8, <2>10, <3>1, <3>2, <3>4 DEF Seen
    <3> HIDE DEF more
    <3>6. /\ node'.state = node.state /\ node'.item = None /\ node'.parts = <<>> /\ node'.given = more
          /\ node'.todo = node.todo \ {s} /\ DOMAIN node' = DOMAIN node
      BY <1>1, <2>10
    <3>7. /\ DOMAIN more \subseteq DOMAIN plan.pins
          /\ \A t \in DOMAIN more : \/ (t = s /\ more[t] = node.item)
                                    \/ (t \in DOMAIN node.given /\ more[t] = node.given[t])
      <4>1. DOMAIN more = DOMAIN node.given \cup {s} /\ s \in DOMAIN plan.pins
        BY <1>1, <2>2 DEF more
      <4>2. ASSUME NEW t \in DOMAIN more
            PROVE  more[t] = IF t = s THEN node.item ELSE node.given[t]
        BY <4>1 DEF more
      <4> QED  BY <1>1, <4>1, <4>2
    <3>8. GivenIsSeen'
      BY <2>3, <3>5, <3>6, <3>7 DEF GivenIsSeen, Seen, Installed
    <3> QED  BY <1>1, <1>2, <2>1, <2>3, <3>6, <3>7, <3>8 DEF NodeOfPlan, ReadingIsSeen, GivenInFull
  <2>11. CASE node' = [node EXCEPT !.state = "failed", !.item = None, !.parts = <<>>]
    <3>1. /\ node'.state = "failed" /\ node'.item = None /\ node'.parts = <<>> /\ node'.given = node.given
          /\ node'.todo = node.todo /\ DOMAIN node' = DOMAIN node
      BY <1>1, <2>11
    <3> QED  BY <1>1, <1>2, <2>1, <2>3, <3>1
                DEF NodeOfPlan, ReadingIsSeen, GivenIsSeen, GivenInFull, Seen, Installed
  <2> QED  BY <2>4, <2>5, <2>9, <2>10, <2>11
<1>5. CASE NodeChecks
  <2>1. UNCHANGED <<disk, saved, catalog, items, scan, plan, since>> /\ node.state = "reading" /\ node.todo = {}
    BY <1>5 DEF NodeChecks
  <2>2. \/ GivenIsPinned /\ node' = [node EXCEPT !.state = "ran"]
        \/ node' = [node EXCEPT !.state = "failed"]
    BY <1>5 DEF NodeChecks
  <2>3. /\ node'.item = node.item /\ node'.parts = node.parts /\ node'.given = node.given
        /\ node'.todo = node.todo /\ DOMAIN node' = DOMAIN node
        /\ (node'.state = "failed" \/ (GivenIsPinned /\ node'.state = "ran"))
    BY <1>1, <2>2
  <2>4. node.item = None
    BY <2>1 DEF NodeOfPlan
  <2>5. GivenInFull'
    BY <2>1, <2>3 DEF GivenInFull, GivenIsPinned
  <2> QED  BY <1>1, <2>1, <2>3, <2>4, <2>5 DEF SkillsTypeOK, NodeOfPlan, ReadingIsSeen, GivenIsSeen, Seen
<1> QED  BY <1>3, <1>4, <1>5

\* What else happens leaves the node what it was given, and the approval what it found.
LEMMA SkillsNextIInv == SkillsAssumption /\ SkillsIInv /\ [SkillsNext]_skillVars => SkillsIInv'
<1> SUFFICES ASSUME SkillsAssumption, SkillsIInv, [SkillsNext]_skillVars PROVE SkillsIInv'
  OBVIOUS
<1> USE DEF SkillsIInv
<1>1. CASE DiskChanges
  <2>1. /\ SkillsTypeOK' /\ DiskIsSeen' /\ since'.off = since.off
        /\ \A s \in Ids : /\ since.files[s].docs \subseteq since'.files[s].docs
                         /\ since.files[s].assets \subseteq since'.files[s].assets
    BY <1>1, SkillDisk
  <2>2. UNCHANGED <<saved, catalog, items, scan, plan, node>>
    BY <1>1 DEF DiskChanges
  <2>3. DOMAIN node.given \subseteq Ids /\ node.todo \subseteq Ids /\ Ids \subseteq Nat
    BY DEF SkillsTypeOK, SkillsAssumption
  <2>4. ReadingIsSeen'
    <3> DEFINE s == Min(node.todo)
    <3>1. node.item # None => s \in Ids
      BY <2>3, SkillMin DEF NodeOfPlan
    <3>2. node.item # None =>
            /\ (Len(node.parts) >= 1 /\ node.parts[1] # None => node.parts[1] \in since.files[s].docs)
            /\ (Len(node.parts) >= 2 /\ node.parts[2] # None => node.parts[2] \in since.files[s].assets)
      BY DEF ReadingIsSeen
    <3> HIDE DEF s
    <3>3. node.item # None =>
            /\ (Len(node.parts) >= 1 /\ node.parts[1] # None => node.parts[1] \in since'.files[s].docs)
            /\ (Len(node.parts) >= 2 /\ node.parts[2] # None => node.parts[2] \in since'.files[s].assets)
      BY <2>1, <3>1, <3>2
    <3> QED  BY <2>2, <3>3 DEF ReadingIsSeen, s
  <2>5. GivenIsSeen'
    BY <2>1, <2>2, <2>3 DEF GivenIsSeen, Seen
  <2> QED  BY <2>1, <2>2, <2>4, <2>5 DEF ItemsOK, Of, NodeOfPlan, GivenInFull, OffIsOff, ApprovedIsEnabled
<1>2. CASE AsksForScan \/ Finds \/ ScanReads
  <2>1. SkillsTypeOK' /\ ItemsOK' /\ UNCHANGED <<disk, saved, plan, node, since>>
    BY <1>2, SkillScans DEF AsksForScan, Finds, ScanReads
  <2> QED  BY <2>1
              DEF DiskIsSeen, NodeOfPlan, ReadingIsSeen, GivenIsSeen, GivenInFull, OffIsOff,
                  ApprovedIsEnabled, Seen
<1>3. CASE ScanEnds
  <2>1. SkillsTypeOK' /\ ItemsOK' /\ UNCHANGED <<disk, saved, since>>
    BY <1>3, SkillScanEnds DEF ScanEnds
  <2>2. /\ plan' = IF plan.state # "approving" THEN plan
                   ELSE [plan EXCEPT !.state = IF StillPinned(Applied, plan.pins) THEN "approved" ELSE "stale"]
        /\ node' = IF node.state # "scanning" THEN node ELSE [node EXCEPT !.state = "reading", !.todo = DOMAIN plan.pins]
    BY <1>3 DEF ScanEnds
  <2>3. /\ plan'.pins = plan.pins
        /\ \/ plan.state # "approving" /\ plan'.state = plan.state
           \/ plan.state = "approving" /\ plan'.state = "approved" /\ StillPinned(Applied, plan.pins)
           \/ plan.state = "approving" /\ plan'.state = "stale"
    BY <2>2 DEF SkillsTypeOK
  <2>4. /\ node'.item = node.item /\ node'.parts = node.parts /\ node'.given = node.given
        /\ \/ node' = node
           \/ node.state = "scanning" /\ node'.state = "reading" /\ node'.todo = DOMAIN plan.pins
    BY <2>2 DEF SkillsTypeOK
  <2>5. NodeOfPlan'
    BY <2>3, <2>4 DEF NodeOfPlan
  <2>6. ReadingIsSeen' /\ GivenIsSeen'
    BY <2>1, <2>4 DEF ReadingIsSeen, GivenIsSeen, NodeOfPlan, Seen
  <2>7. GivenInFull' /\ OffIsOff'
    BY <2>1, <2>3, <2>4 DEF GivenInFull, OffIsOff
  <2>8. StillPinned(Applied, plan.pins) => DOMAIN plan.pins \cap Off(saved) = {}
    BY SkillItems DEF StillPinned
  <2>9. ApprovedIsEnabled'
    <3>1. CASE plan.state # "approving"
      BY <2>1, <2>3, <2>4, <3>1 DEF ApprovedIsEnabled
    <3>2. CASE plan.state = "approving"
      BY <2>1, <2>3, <2>4, <2>8, <3>2 DEF ApprovedIsEnabled, OffIsOff
    <3> QED  BY <3>1, <3>2
  <2>10. DiskIsSeen'
    BY <2>1 DEF DiskIsSeen, Seen
  <2> QED  BY <2>1, <2>5, <2>6, <2>7, <2>9, <2>10
<1>4. CASE Saves
  <2>1. SkillsTypeOK' /\ ItemsOK' /\ since'.files = since.files /\ since'.off \subseteq Off(saved') /\ since'.off \subseteq since.off
    BY <1>4, SkillSaves DEF Saves, SkillsTypeOK
  <2>2. UNCHANGED <<disk, plan, node>>
    BY <1>4 DEF Saves
  <2> QED  BY <2>1, <2>2
              DEF DiskIsSeen, NodeOfPlan, ReadingIsSeen, GivenIsSeen, GivenInFull, OffIsOff,
                  ApprovedIsEnabled, Seen
<1>5. CASE Plans
  <2>1. SkillsTypeOK' /\ ItemsOK' /\ UNCHANGED <<disk, saved, node, since>> /\ plan.state = "none" /\ plan'.state = "made"
    BY <1>5, SkillPlans DEF Plans
  <2>2. node.state = "none"
    BY <2>1 DEF NodeOfPlan
  <2> QED  BY <2>1, <2>2
              DEF DiskIsSeen, NodeOfPlan, ReadingIsSeen, GivenIsSeen, GivenInFull, OffIsOff,
                  ApprovedIsEnabled, Seen
<1>6. CASE Approves
  <2>1. SkillsTypeOK' /\ ItemsOK' /\ UNCHANGED <<disk, saved, node>> /\ plan.state = "made" /\ plan'.state = "approving"
    BY <1>6, SkillPlans DEF Approves, SkillsTypeOK
  <2>2. DiskIsSeen' /\ since'.off = Off(saved)
    BY <1>6, SkillNow DEF Approves
  <2>3. node.state = "none" /\ node.item = None /\ node.given = NoItems
    BY <2>1 DEF NodeOfPlan
  <2> QED  BY <2>1, <2>2, <2>3
              DEF NodeOfPlan, ReadingIsSeen, GivenIsSeen, GivenInFull, OffIsOff, ApprovedIsEnabled, NoItems
<1>7. CASE NodeBegins
  <2>1. SkillsTypeOK' /\ ItemsOK' /\ UNCHANGED <<disk, saved, plan>> /\ plan.state = "approved" /\ node.state = "none"
    BY <1>7, SkillPlans DEF NodeBegins
  <2>2. DiskIsSeen'
    BY <1>7, SkillNow DEF NodeBegins
  <2>3. node.item = None /\ node.given = NoItems /\ node.todo = {}
    BY <2>1 DEF NodeOfPlan
  <2>4. node'.state = "scanning" /\ node'.item = None /\ node'.given = NoItems /\ node'.todo = {}
    BY <1>7, <2>3 DEF NodeBegins, SkillsTypeOK
  <2> QED  BY <2>1, <2>2, <2>4
              DEF NodeOfPlan, ReadingIsSeen, GivenIsSeen, GivenInFull, OffIsOff, ApprovedIsEnabled, NoItems
<1>8. CASE LooksUp \/ NodeReads \/ NodeChecks
  <2>1. /\ UNCHANGED <<disk, saved, catalog, items, scan, plan, since>>
        /\ NodeOfPlan' /\ ReadingIsSeen' /\ GivenIsSeen' /\ GivenInFull'
    BY <1>8, SkillNode
  <2>2. SkillsTypeOK'
    BY <1>8, SkillNode DEF SkillsTypeOK
  <2>3. node.state # "none" /\ node'.state # "none"
    BY <1>8 DEF LooksUp, NodeReads, NodeChecks, NodeOfPlan, SkillsTypeOK
  <2> QED  BY <2>1, <2>2, <2>3 DEF ItemsOK, Of, DiskIsSeen, OffIsOff, ApprovedIsEnabled, Seen
<1>9. CASE UNCHANGED skillVars
  BY <1>9
     DEF skillVars, SkillsTypeOK, ItemsOK, Of, DiskIsSeen, NodeOfPlan, ReadingIsSeen, GivenIsSeen,
         GivenInFull, OffIsOff, ApprovedIsEnabled, Seen
<1> QED  BY <1>1, <1>2, <1>3, <1>4, <1>5, <1>6, <1>7, <1>8, <1>9 DEF SkillsNext

\* A node that runs was given what was there after it began.
LEMMA SkillsShow == SkillsAssumption /\ SkillsIInv => GivenIsCurrent
  BY DEF SkillsIInv, GivenIsCurrent, GivenIsSeen, Seen, Installed, GivenInFull

\* "Partial activation ... is forbidden": a node that runs was given every skill its plan
\* pins, as it was pinned and as it was on the disk after the node began, and an approval
\* found what it pins enabled, whatever is edited, removed, saved or scanned meanwhile.
THEOREM SkillsAreGiven ==
  ASSUME SkillsAssumption
  PROVE  SkillsSpec => [](SkillsTypeOK /\ GivenInFull /\ GivenIsCurrent /\ ApprovedIsEnabled)
<1>1. SkillsInit => SkillsIInv
  BY SkillsInitIInv
<1>2. SkillsIInv /\ [SkillsNext]_skillVars => SkillsIInv'
  BY SkillsNextIInv
<1>3. SkillsIInv => SkillsTypeOK /\ GivenInFull /\ GivenIsCurrent /\ ApprovedIsEnabled
  BY SkillsShow DEF SkillsIInv
<1> QED  BY <1>1, <1>2, <1>3, PTL DEF SkillsSpec

------------------------------------------------------------------------------
(***************************************************************************)
(* The receipt of what a node changed                                      *)
(***************************************************************************)
\* What is read of a sequence, and what is appended to it.
LEMMA SeqFacts ==
  ASSUME NEW S, NEW s \in Seq(S)
  PROVE  /\ Len(s) \in Nat /\ (\A i \in 1..Len(s) : s[i] \in S) /\ (\A i \in DOMAIN s : s[i] \in S)
         /\ \A e \in S : /\ Append(s, e) \in Seq(S) /\ Len(Append(s, e)) = Len(s) + 1
                        /\ \A i \in 1..Len(s) : Append(s, e)[i] = s[i]
                        /\ Append(s, e)[Len(s) + 1] = e
  OBVIOUS

\* The bounds are numbers, and no file that is gone has a content.
LEMMA ReceiptNumbers == ASSUME ReceiptAssumption PROVE Absent \notin Nat /\ MaxSaves \in Nat
  BY DEF ReceiptAssumption

\* The rank tells contents apart, and a file that is gone is below every content.
LEMMA RankFacts ==
  ASSUME ReceiptAssumption, NEW c \in Contents
  PROVE  /\ Rank(c) \in Nat /\ (c = Absent => Rank(c) = 0) /\ (c # Absent => c \in Nat /\ Rank(c) = c + 1)
         /\ \A d \in Contents : Rank(c) = Rank(d) => c = d
  BY ReceiptNumbers DEF Rank, Contents

\* At first the context is to be captured and nothing is listed.
LEMMA ReceiptInitIInv == ReceiptAssumption /\ ReceiptInit => ReceiptIInv
<1> SUFFICES ASSUME ReceiptAssumption, ReceiptInit PROVE ReceiptIInv
  OBVIOUS
<1> USE ReceiptNumbers
<1>1. ws \in Manifests /\ Nothing \in Manifests
  BY DEF ReceiptInit, Manifests, Contents, Nothing
<1>2. reading \in [listed : BOOLEAN, left : SUBSET Paths, seen : Manifests, file : Paths \cup {Absent}]
  BY <1>1 DEF ReceiptInit
<1>3. ReceiptTypeOK
  BY <1>1, <1>2 DEF ReceiptInit, ReceiptTypeOK
<1>4. SavesAreNew
  BY <1>1 DEF ReceiptInit, SavesAreNew, Nothing
<1>5. ~reading.listed
  BY DEF ReceiptInit
<1>6. BaseIsBetween /\ StartsFromContext /\ ChangesStay /\ VerdictIsOfReceipt
  BY <1>5 DEF ReceiptInit, BaseIsBetween, StartsFromContext, ChangesStay, VerdictIsOfReceipt
<1> QED  BY <1>3, <1>4, <1>6 DEF ReceiptIInv

\* A step of a capture.
LEMMA ReceiptLists ==
  ASSUME ReceiptAssumption, ReceiptIInv, Lists
  PROVE  /\ reading' \in [listed : BOOLEAN, left : SUBSET Paths, seen : Manifests, file : Paths \cup {Absent}]
         /\ reading'.listed /\ reading'.left = {p \in Paths : ws[p] # Absent} /\ reading'.seen = Nothing
<1>1. reading \in [listed : BOOLEAN, left : SUBSET Paths, seen : Manifests, file : Paths \cup {Absent}]
  BY DEF ReceiptIInv, ReceiptTypeOK
<1>2. Nothing \in Manifests
  BY DEF Nothing, Manifests, Contents
<1> QED  BY <1>1, <1>2 DEF Lists

\* A file is read as it is now.
LEMMA ReceiptReads ==
  ASSUME ReceiptAssumption, ReceiptIInv, NEW p \in reading.left, reading' = [reading EXCEPT !.left = @ \ {p}, !.seen[p] = ws[p]]
  PROVE  /\ reading' \in [listed : BOOLEAN, left : SUBSET Paths, seen : Manifests, file : Paths \cup {Absent}]
         /\ reading'.listed = reading.listed /\ reading'.left = reading.left \ {p} /\ reading'.seen[p] = ws[p]
         /\ p \in Paths /\ \A q \in Paths \ {p} : reading'.seen[q] = reading.seen[q]
<1>1. reading \in [listed : BOOLEAN, left : SUBSET Paths, seen : Manifests, file : Paths \cup {Absent}]
  BY DEF ReceiptIInv, ReceiptTypeOK
<1>2. p \in Paths /\ ws[p] \in Contents
  BY <1>1 DEF ReceiptIInv, ReceiptTypeOK, Manifests
<1>3. /\ reading'.listed = reading.listed /\ reading'.left = reading.left \ {p}
      /\ reading'.file = reading.file
      /\ reading'.seen = [reading.seen EXCEPT ![p] = ws[p]]
  BY <1>1
<1>4. reading'.seen \in Manifests
  BY <1>1, <1>2, <1>3 DEF Manifests
<1>5. reading' = [listed |-> reading.listed, left |-> reading.left \ {p}, seen |-> [reading.seen EXCEPT ![p] = ws[p]],
                  file |-> reading.file]
  BY <1>1
<1>6. reading' \in [listed : BOOLEAN, left : SUBSET Paths, seen : Manifests, file : Paths \cup {Absent}]
  BY <1>1, <1>3, <1>4, <1>5
<1> QED  BY <1>1, <1>2, <1>3, <1>6 DEF Manifests

\* A save or Codex writes a file: what it writes is new, or the file is gone.
LEMMA ReceiptWrites ==
  ASSUME ReceiptAssumption, ReceiptIInv, Save \/ CodexWrites
  PROVE  /\ saves' = saves + 1 /\ saves' \in 0..MaxSaves /\ ws' \in Manifests
         /\ \A p \in Paths : ws'[p] = ws[p] \/ ws'[p] = saves + 1 \/ (phase = "codex" /\ ws'[p] = Absent)
<1>1. ws \in Manifests /\ saves \in Nat /\ saves < MaxSaves /\ saves' = saves + 1
  BY DEF ReceiptIInv, ReceiptTypeOK, Save, CodexWrites
<1>2. PICK p \in Paths, c \in {saves + 1, Absent} :
        ws' = [ws EXCEPT ![p] = c] /\ (c = saves + 1 \/ phase = "codex")
  BY DEF Save, CodexWrites
<1>3. c \in Contents
  BY <1>1, <1>2 DEF Contents
<1> QED  BY <1>1, <1>2, <1>3, ReceiptNumbers DEF Manifests

\* Every step keeps the types.
LEMMA ReceiptTypes == ReceiptAssumption /\ ReceiptIInv /\ [ReceiptNext]_receiptVars => ReceiptTypeOK'
<1> SUFFICES ASSUME ReceiptAssumption, ReceiptIInv, [ReceiptNext]_receiptVars PROVE ReceiptTypeOK'
  OBVIOUS
<1> DEFINE Reading == [listed : BOOLEAN, left : SUBSET Paths, seen : Manifests, file : Paths \cup {Absent}]
<1>0. ReceiptTypeOK /\ reading \in Reading
  BY DEF ReceiptIInv, ReceiptTypeOK
<1>1. CASE Save \/ CodexWrites
  BY <1>0, <1>1, ReceiptWrites DEF ReceiptTypeOK, Save, CodexWrites, store, observers
<1>2. CASE Lists
  BY <1>0, <1>2, ReceiptLists DEF ReceiptTypeOK, Lists, store, observers
<1>3. CASE Reads
  BY <1>0, <1>3, ReceiptReads DEF ReceiptTypeOK, Reads, store, observers
<1>4. CASE ContextEnds \/ BeforeEnds
  <2>1. reading' \in Reading
    BY <1>0, <1>4 DEF ContextEnds, BeforeEnds
  <2>2. reading.seen \in Manifests
    BY <1>0
  <2> QED  BY <1>0, <1>4, <2>1, <2>2 DEF ReceiptTypeOK, ContextEnds, BeforeEnds, store, observers, Verdicts
<1>5. CASE AfterEnds
  <2>1. reading' \in Reading
    BY <1>0, <1>5 DEF AfterEnds
  <2>2. reading.seen \in Manifests
    BY <1>0
  <2> QED  BY <1>0, <1>5, <2>1, <2>2 DEF ReceiptTypeOK, AfterEnds, store, observers
<1>6. CASE Spawns \/ CodexEnds
  BY <1>0, <1>6 DEF ReceiptTypeOK, Spawns, CodexEnds, store, observers, Verdicts
<1>7. CASE CodexRuns
  <2>1. runs' \in Seq([command : Commands, succeeded : BOOLEAN])
    BY <1>0, <1>7 DEF ReceiptTypeOK, CodexRuns
  <2> QED  BY <1>0, <1>7, <2>1 DEF ReceiptTypeOK, CodexRuns, store, observers
<1>8. CASE Stats
  <2>1. reading' \in Reading
    BY <1>0, <1>8 DEF Stats
  <2> QED  BY <1>0, <1>8, <2>1 DEF ReceiptTypeOK, Stats, store, observers
<1>9. CASE ReadsArtifact
  <2>1. reading.file \in Paths /\ ws[reading.file] \in 0..MaxSaves
    BY <1>0, <1>9, ReceiptNumbers
       DEF ReadsArtifact, ReceiptIInv, VerdictIsOfReceipt, SavesAreNew, ReceiptTypeOK, Manifests, Contents
  <2>2. Size(ws[reading.file]) \in Nat
    BY <2>1 DEF ReceiptAssumption
  <2>3. total' \in Nat /\ DOMAIN artifacts' \subseteq Paths
    BY <1>0, <1>9, <2>1, <2>2 DEF ReadsArtifact, ReceiptTypeOK
  <2> QED  BY <1>0, <1>9, <2>3 DEF ReceiptTypeOK, ReadsArtifact, observers
<1>10. CASE ReceiptDecides
  BY <1>0, <1>10 DEF ReceiptTypeOK, ReceiptDecides, Accepted, Verdicts, store, observers
<1>11. CASE UNCHANGED receiptVars
  BY <1>0, <1>11 DEF ReceiptTypeOK, receiptVars
<1> QED
  BY <1>1, <1>2, <1>3, <1>4, <1>5, <1>6, <1>7, <1>8, <1>9, <1>10, <1>11 DEF ReceiptNext

\* What a manifest knows was saved.
LEMMA ReceiptSaves == ReceiptAssumption /\ ReceiptIInv /\ [ReceiptNext]_receiptVars => SavesAreNew'
<1> SUFFICES ASSUME ReceiptAssumption, ReceiptIInv, [ReceiptNext]_receiptVars PROVE SavesAreNew'
  OBVIOUS
<1> USE ReceiptNumbers
<1>0. /\ SavesAreNew /\ saves \in Nat
      /\ \A p \in Paths : ws[p] \in Contents /\ before[p] \in Contents /\ reading.seen[p] \in Contents
  BY DEF ReceiptIInv, ReceiptTypeOK, Manifests
<1>1. CASE Save \/ CodexWrites
  <2>1. UNCHANGED <<reading, before>>
    BY <1>1 DEF Save, CodexWrites
  <2> QED  BY <1>0, <1>1, <2>1, ReceiptWrites DEF SavesAreNew, Contents
<1>2. CASE Lists
  <2>1. reading'.seen = Nothing /\ UNCHANGED <<ws, before, saves>>
    BY <1>2, ReceiptLists DEF Lists
  <2> QED  BY <1>0, <2>1 DEF SavesAreNew, Nothing
<1>3. CASE Reads
  <2>1. UNCHANGED <<ws, before, saves>>
    BY <1>3 DEF Reads
  <2>2. \A q \in Paths : reading'.seen[q] \in {reading.seen[q], ws[q]}
    BY <1>3, ReceiptReads DEF Reads
  <2> QED  BY <1>0, <2>1, <2>2 DEF SavesAreNew
<1>4. CASE BeforeEnds
  <2>1. reading'.seen = reading.seen /\ before' = reading.seen /\ UNCHANGED <<ws, saves>>
    BY <1>4 DEF BeforeEnds, ReceiptIInv, ReceiptTypeOK
  <2> QED  BY <1>0, <2>1 DEF SavesAreNew
<1>5. CASE UNCHANGED <<ws, saves, before>> /\ reading'.seen = reading.seen
  BY <1>0, <1>5 DEF SavesAreNew
<1>6. CASE ContextEnds \/ AfterEnds \/ Stats
  <2>1. reading'.seen = reading.seen
    BY <1>6 DEF ContextEnds, AfterEnds, Stats, ReceiptIInv, ReceiptTypeOK
  <2> QED  BY <1>5, <1>6, <2>1 DEF ContextEnds, AfterEnds, Stats
<1> QED
  BY <1>1, <1>2, <1>3, <1>4, <1>5, <1>6
  DEF ReceiptNext, receiptVars, Spawns, CodexRuns, CodexEnds, ReadsArtifact, ReceiptDecides

\* The context is at most as new as base and the other manifest at least: if they are the
\* same, the files are those of base.
LEMMA ReceiptBase == ReceiptAssumption /\ ReceiptIInv /\ [ReceiptNext]_receiptVars => BaseIsBetween' /\ StartsFromContext'
<1> SUFFICES ASSUME ReceiptAssumption, ReceiptIInv, [ReceiptNext]_receiptVars PROVE BaseIsBetween' /\ StartsFromContext'
  OBVIOUS
<1> USE ReceiptNumbers
<1>0. /\ BaseIsBetween /\ SavesAreNew /\ StartsFromContext /\ saves \in Nat
      /\ \A p \in Paths : /\ ws[p] \in Contents /\ before[p] \in Contents /\ reading.seen[p] \in Contents
                          /\ context[p] \in Contents /\ base[p] \in Contents
  BY DEF ReceiptIInv, ReceiptTypeOK, Manifests
<1>t. /\ reading \in [listed : BOOLEAN, left : SUBSET Paths, seen : Manifests, file : Paths \cup {Absent}]
      /\ before \in Manifests /\ base \in Manifests /\ ws \in Manifests /\ context \in Manifests
  BY DEF ReceiptIInv, ReceiptTypeOK
<1>1. CASE Save \/ CodexWrites
  <2>1. UNCHANGED <<phase, reading, context, before, base>>
    BY <1>1 DEF Save, CodexWrites, observers
  <2>2. phase # "codex" => \A p \in Paths : Rank(ws[p]) <= Rank(ws'[p])
    <3> SUFFICES ASSUME phase # "codex", NEW p \in Paths PROVE Rank(ws[p]) <= Rank(ws'[p])
      OBVIOUS
    <3>1. ws'[p] = ws[p] \/ ws'[p] = saves + 1
      BY <1>1, ReceiptWrites
    <3>2. ws[p] # Absent => ws[p] <= saves
      BY <1>0 DEF SavesAreNew
    <3>3. ws[p] \in Contents
      BY <1>0
    <3> QED  BY <1>0, <3>1, <3>2, <3>3 DEF Rank, Contents
  <2>3. \A p \in Paths : Rank(ws[p]) \in Nat /\ Rank(ws'[p]) \in Nat /\ Rank(reading.seen[p]) \in Nat /\ Rank(base[p]) \in Nat
    <3>1. ws' \in Manifests
      BY <1>1, ReceiptWrites
    <3> QED  BY <1>0, <3>1, RankFacts DEF Manifests
  <2>4. BaseIsBetween'
    <3>1. CASE phase = "context"
      BY <1>0, <2>1, <2>2, <2>3, <3>1 DEF BaseIsBetween
    <3>2. CASE phase = "before"
      BY <1>0, <2>1, <2>2, <2>3, <3>2 DEF BaseIsBetween
    <3> QED  BY <2>1, <3>1, <3>2 DEF BaseIsBetween
  <2> QED  BY <1>0, <2>1, <2>4 DEF StartsFromContext
<1>2. CASE Lists
  <2>1. /\ UNCHANGED <<ws, phase, context, before, base>> /\ reading'.seen = Nothing
        /\ reading'.left = {p \in Paths : ws[p] # Absent} /\ reading'.listed
    BY <1>2, ReceiptLists DEF Lists, observers
  <2>2. \A p \in Paths : Rank(reading'.seen[p]) = 0
    BY <2>1 DEF Rank, Nothing
  <2>3. \A p \in Paths : p \notin reading'.left => Rank(ws[p]) = 0
    BY <2>1 DEF Rank
  <2>4. \A p \in Paths : Rank(ws[p]) \in Nat /\ Rank(base[p]) \in Nat
    BY <1>0, RankFacts
  <2>5. BaseIsBetween'
    <3>1. CASE phase = "context"
      BY <2>1, <2>2, <2>4, <3>1 DEF BaseIsBetween
    <3>2. CASE phase = "before"
      BY <1>0, <2>1, <2>2, <2>3, <2>4, <3>2 DEF BaseIsBetween
    <3> QED  BY <2>1, <3>1, <3>2 DEF BaseIsBetween
  <2> QED  BY <1>0, <2>1, <2>5 DEF StartsFromContext
<1>3. CASE Reads
  <2>1. UNCHANGED <<ws, phase, context, before, base>>
    BY <1>3 DEF Reads, observers
  <2>2. PICK p \in reading.left : reading' = [reading EXCEPT !.left = @ \ {p}, !.seen[p] = ws[p]]
    BY <1>3 DEF Reads
  <2>3. /\ reading'.listed = reading.listed /\ reading'.left = reading.left \ {p} /\ reading'.seen[p] = ws[p]
        /\ p \in Paths /\ \A q \in Paths \ {p} : reading'.seen[q] = reading.seen[q]
    BY <2>2, ReceiptReads
  <2>4. \A q \in Paths : Rank(ws[q]) \in Nat
    BY <1>0, RankFacts
  <2>5. BaseIsBetween'
    <3>1. CASE phase = "context"
      BY <1>0, <2>1, <2>3, <2>4, <3>1 DEF BaseIsBetween
    <3>2. CASE phase = "before"
      BY <1>0, <2>1, <2>3, <2>4, <3>2 DEF BaseIsBetween
    <3> QED  BY <2>1, <3>1, <3>2 DEF BaseIsBetween
  <2> QED  BY <1>0, <2>1, <2>5 DEF StartsFromContext
<1>4. CASE ContextEnds
  <2>1. /\ phase = "context" /\ reading.listed /\ phase' = "before" /\ context' = reading.seen /\ base' = ws
        /\ ~reading'.listed /\ UNCHANGED ws
    BY <1>4, <1>t DEF ContextEnds, Captured
  <2>2. \A p \in Paths : Rank(reading.seen[p]) <= Rank(ws[p]) /\ Rank(ws[p]) \in Nat
    BY <1>0, <2>1, RankFacts DEF BaseIsBetween
  <2> QED  BY <2>1, <2>2 DEF BaseIsBetween, StartsFromContext
<1>5. CASE BeforeEnds
  <2>1. /\ phase = "before" /\ reading.listed /\ reading.left = {} /\ before' = reading.seen /\ UNCHANGED base
        /\ phase' \in {"spawn", "WORKSPACE_CHANGED"} /\ (phase' = "spawn" => reading.seen = context)
    BY <1>5 DEF BeforeEnds, Captured, FollowsContext, observers
  <2>2. ASSUME phase' = "spawn" PROVE before' = base
    <3>1. \A p \in Paths : Rank(context[p]) <= Rank(base[p]) /\ Rank(base[p]) <= Rank(context[p])
      BY <1>0, <2>1, <2>2 DEF BaseIsBetween
    <3>2. \A p \in Paths : Rank(context[p]) = Rank(base[p])
      BY <1>0, <3>1, RankFacts
    <3>3. \A p \in Paths : context[p] = base[p]
      BY <1>0, <3>2, RankFacts
    <3> QED  BY <1>t, <2>1, <2>2, <3>3 DEF Manifests
  <2> QED  BY <2>1, <2>2 DEF BaseIsBetween, StartsFromContext
<1>6. CASE Spawns \/ CodexRuns \/ CodexEnds \/ AfterEnds \/ Stats \/ ReadsArtifact \/ ReceiptDecides
  <2>1. /\ phase \in {"spawn", "codex", "after", "artifacts", "read"} /\ phase' \notin {"context", "before"}
        /\ UNCHANGED <<before, base>>
    BY <1>6
       DEF Spawns, CodexRuns, CodexEnds, AfterEnds, Stats, ReadsArtifact, ReceiptDecides, Accepted,
           Captured, observers
  <2> QED  BY <1>0, <2>1 DEF BaseIsBetween, StartsFromContext
<1>7. CASE UNCHANGED receiptVars
  BY <1>0, <1>7 DEF BaseIsBetween, StartsFromContext, receiptVars
<1> QED
  BY <1>1, <1>2, <1>3, <1>4, <1>5, <1>6, <1>7 DEF ReceiptNext

\* What changed while Codex worked differs from the first manifest for good.
LEMMA ReceiptChanges == ReceiptAssumption /\ ReceiptIInv /\ [ReceiptNext]_receiptVars => ChangesStay'
<1> SUFFICES ASSUME ReceiptAssumption, ReceiptIInv, [ReceiptNext]_receiptVars PROVE ChangesStay'
  OBVIOUS
<1> USE ReceiptNumbers
<1>0. /\ ChangesStay /\ SavesAreNew /\ saves \in Nat
      /\ \A p \in Paths : /\ ws[p] \in Contents /\ before[p] \in Contents /\ start[p] \in Contents /\ end[p] \in Contents
  BY DEF ReceiptIInv, ReceiptTypeOK, Manifests
<1>t. reading \in [listed : BOOLEAN, left : SUBSET Paths, seen : Manifests, file : Paths \cup {Absent}]
  BY DEF ReceiptIInv, ReceiptTypeOK
<1>1. CASE Save \/ CodexWrites
  <2>1. UNCHANGED <<phase, reading, before, after, start, end>>
    BY <1>1 DEF Save, CodexWrites, observers
  <2>2. \A p \in Paths : before[p] # Absent => before[p] < saves + 1 /\ before[p] \in Nat
    BY <1>0 DEF SavesAreNew, Contents
  <2>3. \A p \in Paths : saves + 1 # before[p]
    BY <1>0, <2>2
  <2>4. CASE phase = "codex"
    <3>1. \A p \in Paths : ws'[p] = start[p] \/ ws'[p] = Absent \/ (before[p] # Absent => before[p] < ws'[p])
      BY <1>0, <1>1, <2>2, <2>4, ReceiptWrites DEF ChangesStay
    <3>2. ~reading.listed
      BY <1>0, <2>4 DEF ChangesStay
    <3> QED  BY <2>1, <2>4, <3>1, <3>2 DEF ChangesStay
  <2>5. CASE phase = "after"
    <3>1. \A p \in Paths : ws'[p] = ws[p] \/ ws'[p] = saves + 1
      BY <1>1, <2>5, ReceiptWrites
    <3>2. ByCodex' = ByCodex /\ ByCodex \subseteq Paths
      BY <2>1 DEF ByCodex
    <3>3. \A p \in ByCodex : ws'[p] # before[p] /\ (reading.listed /\ p \notin reading.left => reading.seen[p] # before[p])
      BY <1>0, <2>3, <2>5, <3>1, <3>2 DEF ChangesStay
    <3> QED  BY <2>1, <2>5, <3>2, <3>3 DEF ChangesStay
  <2>6. CASE phase \notin {"codex", "after"}
    BY <1>0, <2>1, <2>6 DEF ChangesStay, ByCodex, Changed
  <2> QED  BY <2>4, <2>5, <2>6
<1>2. CASE Lists
  <2>1. /\ UNCHANGED <<ws, phase, before, after, start, end>> /\ reading'.seen = Nothing
        /\ reading'.left = {p \in Paths : ws[p] # Absent} /\ reading'.listed /\ phase \in {"context", "before", "after"}
    BY <1>2, ReceiptLists DEF Lists, observers, Capturing
  <2>2. CASE phase = "after"
    <3>1. \A p \in ByCodex : p \in Paths /\ ws[p] # before[p]
      BY <1>0, <2>2 DEF ChangesStay, ByCodex
    <3>2. \A p \in ByCodex : p \notin reading'.left => reading'.seen[p] # before[p]
      BY <2>1, <3>1 DEF Nothing
    <3>3. ByCodex' = ByCodex
      BY <2>1 DEF ByCodex
    <3> QED  BY <2>1, <2>2, <3>1, <3>2, <3>3 DEF ChangesStay
  <2>3. CASE phase # "after"
    BY <2>1, <2>3 DEF ChangesStay
  <2> QED  BY <2>2, <2>3
<1>3. CASE Reads
  <2>1. UNCHANGED <<ws, phase, before, after, start, end>> /\ phase \in {"context", "before", "after"}
    BY <1>3 DEF Reads, observers, Capturing
  <2>2. PICK p \in reading.left : reading' = [reading EXCEPT !.left = @ \ {p}, !.seen[p] = ws[p]]
    BY <1>3 DEF Reads
  <2>3. /\ reading'.listed = reading.listed /\ reading'.left = reading.left \ {p} /\ reading'.seen[p] = ws[p]
        /\ p \in Paths /\ \A q \in Paths \ {p} : reading'.seen[q] = reading.seen[q]
    BY <2>2, ReceiptReads
  <2>4. CASE phase = "after"
    <3>1. ByCodex' = ByCodex /\ ByCodex \subseteq Paths
      BY <2>1 DEF ByCodex
    <3>2. \A q \in ByCodex :
            ws[q] # before[q] /\ (reading'.listed /\ q \notin reading'.left => reading'.seen[q] # before[q])
      BY <1>0, <2>3, <2>4, <3>1 DEF ChangesStay
    <3> QED  BY <2>1, <2>4, <3>1, <3>2 DEF ChangesStay
  <2>5. CASE phase # "after"
    BY <2>1, <2>5 DEF ChangesStay
  <2> QED  BY <2>4, <2>5
<1>4. CASE ContextEnds \/ BeforeEnds
  <2>1. phase' \in {"before", "spawn", "WORKSPACE_CHANGED"} /\ ~reading'.listed
    BY <1>4, <1>t DEF ContextEnds, BeforeEnds
  <2> QED  BY <2>1 DEF ChangesStay
<1>5. CASE Spawns
  <2>1. phase = "spawn" /\ phase' = "codex" /\ start' = ws /\ ws' = ws /\ reading' = reading
    BY <1>5 DEF Spawns
  <2> QED  BY <1>0, <2>1 DEF ChangesStay
<1>6. CASE CodexEnds
  <2>1. /\ phase = "codex" /\ end' = ws /\ UNCHANGED <<ws, before, start, reading>>
        /\ phase' \in {"INVALID_EXECUTION_RECEIPT", "after"}
    BY <1>6 DEF CodexEnds
  <2>2. \A p \in ByCodex' : ws[p] # before[p]
    BY <1>0, <2>1 DEF ByCodex, ChangesStay, Contents
  <2>3. ~reading.listed
    BY <1>0, <2>1 DEF ChangesStay
  <2> QED  BY <2>1, <2>2, <2>3 DEF ChangesStay
<1>7. CASE CodexRuns
  <2>1. phase = "codex" /\ UNCHANGED <<ws, phase, reading, before, start>>
    BY <1>7 DEF CodexRuns, observers
  <2> QED  BY <1>0, <2>1 DEF ChangesStay
<1>8. CASE AfterEnds
  <2>1. /\ phase = "after" /\ phase' = "artifacts" /\ reading.listed /\ reading.left = {} /\ after' = reading.seen
        /\ UNCHANGED <<before, start, end>>
    BY <1>8 DEF AfterEnds, Captured, observers
  <2>2. \A p \in ByCodex : p \in Paths /\ reading.seen[p] # before[p]
    BY <1>0, <2>1 DEF ChangesStay, ByCodex
  <2>3. ByCodex' \subseteq Changed'
    BY <2>1, <2>2 DEF ByCodex, Changed
  <2> QED  BY <2>1, <2>3 DEF ChangesStay
<1>9. CASE Stats \/ ReadsArtifact \/ ReceiptDecides
  <2>1. /\ phase \in {"artifacts", "read"} /\ phase' \in {"artifacts", "read", "accepted", "rejected"}
        /\ UNCHANGED <<before, after, start, end>>
    BY <1>9 DEF Stats, ReadsArtifact, ReceiptDecides, Accepted, observers
  <2>2. ByCodex' = ByCodex /\ Changed' = Changed
    BY <2>1 DEF ByCodex, Changed
  <2> QED  BY <1>0, <2>1, <2>2 DEF ChangesStay
<1>10. CASE UNCHANGED receiptVars
  <2>1. UNCHANGED <<ws, phase, reading, before, after, start, end>>
    BY <1>10 DEF receiptVars
  <2> QED  BY <1>0, <2>1 DEF ChangesStay, ByCodex, Changed
<1> QED
  BY <1>1, <1>2, <1>3, <1>4, <1>5, <1>6, <1>7, <1>8, <1>9, <1>10 DEF ReceiptNext

\* Only a verified receipt that names exactly the changes is accepted.
LEMMA ReceiptVerdict == ReceiptAssumption /\ ReceiptIInv /\ [ReceiptNext]_receiptVars => VerdictIsOfReceipt'
<1> SUFFICES ASSUME ReceiptAssumption, ReceiptIInv, [ReceiptNext]_receiptVars PROVE VerdictIsOfReceipt'
  OBVIOUS
<1> DEFINE Received == {"after", "artifacts", "read", "accepted", "rejected"}
<1>0. VerdictIsOfReceipt /\ saves \in Nat
  BY DEF ReceiptIInv, ReceiptTypeOK
<1>t. reading \in [listed : BOOLEAN, left : SUBSET Paths, seen : Manifests, file : Paths \cup {Absent}]
  BY DEF ReceiptIInv, ReceiptTypeOK
<1>1. CASE Save \/ CodexWrites
  <2>1. UNCHANGED <<phase, reading, before, after, receipt, runs>>
    BY <1>1 DEF Save, CodexWrites
  <2>2. phase = "read" => reading.file \in Paths /\ ws'[reading.file] # Absent
    BY <1>0, <1>1, ReceiptWrites, ReceiptNumbers DEF VerdictIsOfReceipt
  <2> QED  BY <1>0, <2>1, <2>2 DEF VerdictIsOfReceipt, ChangedFilesMatch, Changed, Succeeded
<1>2. CASE Lists \/ Reads
  <2>1. phase \in {"context", "before", "after"} /\ UNCHANGED <<phase, receipt>>
    BY <1>2 DEF Lists, Reads, Capturing
  <2> QED  BY <1>0, <2>1 DEF VerdictIsOfReceipt
<1>3. CASE ContextEnds \/ BeforeEnds \/ Spawns \/ CodexRuns
  <2>1. phase' \in {"before", "spawn", "WORKSPACE_CHANGED", "codex"}
    BY <1>3 DEF ContextEnds, BeforeEnds, Spawns, CodexRuns
  <2> QED  BY <2>1 DEF VerdictIsOfReceipt
<1>4. CASE CodexEnds
  <2>1. phase' = "INVALID_EXECUTION_RECEIPT" \/ (phase' = "after" /\ receipt' \in Receipts)
    BY <1>4 DEF CodexEnds
  <2>2. Receipts' = Receipts
    BY DEF Receipts
  <2> QED  BY <2>1, <2>2 DEF VerdictIsOfReceipt
<1>5. CASE AfterEnds \/ ReadsArtifact
  <2>1. phase \in {"after", "read"} /\ phase' = "artifacts" /\ UNCHANGED receipt
    BY <1>5 DEF AfterEnds, ReadsArtifact, Captured
  <2> QED  BY <1>0, <2>1 DEF VerdictIsOfReceipt
<1>6. CASE Stats
  <2>1. phase = "artifacts" /\ phase' \in {"artifacts", "read"} /\ UNCHANGED <<receipt, ws>>
    BY <1>6 DEF Stats
  <2>2. ASSUME phase' = "read" PROVE reading'.file \in Paths /\ ws'[reading'.file] # Absent
    <3>1. PICK p \in reading.left : Fits(p) /\ reading' = [reading EXCEPT !.left = @ \ {p}, !.file = p]
      BY <1>6, <2>1, <2>2 DEF Stats
    <3>2. reading'.file = p /\ p \in Paths
      BY <1>t, <3>1
    <3> QED  BY <2>1, <3>1, <3>2 DEF Fits
  <2> QED  BY <1>0, <2>1, <2>2 DEF VerdictIsOfReceipt
<1>7. CASE ReceiptDecides
  <2>1. /\ phase = "artifacts" /\ phase' = Accepted /\ UNCHANGED <<receipt, before, after, runs>>
    BY <1>7 DEF ReceiptDecides
  <2>2. /\ phase' \in {"accepted", "rejected"}
        /\ phase' = "accepted" => ChangedFilesMatch /\ receipt.verified # {} /\ \A c \in receipt.verified : Succeeded(c)
    BY <2>1 DEF Accepted
  <2> QED  BY <1>0, <2>1, <2>2 DEF VerdictIsOfReceipt, ChangedFilesMatch, Changed, Succeeded
<1>8. CASE UNCHANGED receiptVars
  <2>1. UNCHANGED <<ws, phase, reading, before, after, receipt, runs>>
    BY <1>8 DEF receiptVars
  <2> QED  BY <1>0, <2>1 DEF VerdictIsOfReceipt, ChangedFilesMatch, Changed, Succeeded
<1> QED
  BY <1>1, <1>2, <1>3, <1>4, <1>5, <1>6, <1>7, <1>8 DEF ReceiptNext

\* So the invariant is inductive.
LEMMA ReceiptNextIInv == ReceiptAssumption /\ ReceiptIInv /\ [ReceiptNext]_receiptVars => ReceiptIInv'
  BY ReceiptTypes, ReceiptSaves, ReceiptBase, ReceiptChanges, ReceiptVerdict DEF ReceiptIInv

\* ... and shows what is claimed of accepted work.
LEMMA ReceiptShows == ReceiptAssumption /\ ReceiptIInv => ChangesAreReported /\ AcceptedIsVerified
<1> SUFFICES ASSUME ReceiptAssumption, ReceiptIInv, phase = "accepted" PROVE ChangesAreReported /\ AcceptedIsVerified
  BY DEF ChangesAreReported, AcceptedIsVerified
<1>1. receipt.changed = Changed /\ receipt.verified # {} /\ \A c \in receipt.verified : Succeeded(c)
  BY DEF ReceiptIInv, VerdictIsOfReceipt, ChangedFilesMatch
<1>2. ChangesAreReported
  BY <1>1 DEF ReceiptIInv, ChangesStay, ByCodex, ChangesAreReported
<1>3. runs \in Seq([command : Commands, succeeded : BOOLEAN])
  BY DEF ReceiptIInv, ReceiptTypeOK
<1>4. ASSUME NEW c \in receipt.verified
      PROVE  [command |-> c, succeeded |-> TRUE] \in ToSet(runs)
  <2>1. PICK i \in DOMAIN runs : runs[i].command = c /\ runs[i].succeeded
    BY <1>1 DEF Succeeded
  <2>2. runs[i] \in [command : Commands, succeeded : BOOLEAN]
    BY <1>3, <2>1, SeqFacts
  <2>3. runs[i] = [command |-> c, succeeded |-> TRUE]
    BY <2>1, <2>2
  <2> QED  BY <2>1, <2>3 DEF ToSet
<1> QED  BY <1>1, <1>2, <1>4 DEF AcceptedIsVerified

\* Codex starts from the files of its context, and of accepted work every change made while
\* it worked is reported and every command that is reported succeeded, although both
\* manifests are read file by file while others save.
THEOREM ReceiptsAreTrue ==
  ASSUME ReceiptAssumption
  PROVE  ReceiptSpec => [](ReceiptTypeOK /\ StartsFromContext /\ ChangesAreReported /\ AcceptedIsVerified)
<1>1. ReceiptInit => ReceiptIInv
  BY ReceiptInitIInv
<1>2. ReceiptIInv /\ [ReceiptNext]_receiptVars => ReceiptIInv'
  BY ReceiptNextIInv
<1>3. ReceiptIInv => ReceiptTypeOK /\ StartsFromContext /\ ChangesAreReported /\ AcceptedIsVerified
  BY ReceiptShows DEF ReceiptIInv
<1> QED  BY <1>1, <1>2, <1>3, PTL DEF ReceiptSpec

------------------------------------------------------------------------------
(***************************************************************************)
(* The review of a node's evidence                                         *)
(***************************************************************************)
\* The reviewers and the criteria are counted.
LEMMA ReviewNumbers == ASSUME ReviewAssumption PROVE Reviewers \in Nat /\ Criteria \in Nat
  BY DEF ReviewAssumption

\* At first nobody has been asked.
LEMMA ReviewInitIInv == ReviewAssumption /\ ReviewInit => ReviewIInv
<1> SUFFICES ASSUME ReviewAssumption, ReviewInit PROVE ReviewIInv
  OBVIOUS
<1>1. Flags
  BY DEF ReviewInit, Flags
<1>2. ReviewTypeOK
  BY <1>1, ReviewNumbers DEF ReviewInit, ReviewTypeOK
<1>3. Asked /\ AskedUnderPins
  BY DEF ReviewInit, Asked, AskedUnderPins
<1>4. PassedBefore
  BY DEF ReviewInit, PassedBefore
<1>5. Turns
  BY ReviewNumbers DEF ReviewInit, Turns, Reviewing, ReviewPassed
<1> QED BY <1>2, <1>3, <1>4, <1>5 DEF ReviewIInv

\* Every step keeps the flags ...
LEMMA ReviewFlags == ReviewAssumption /\ ReviewIInv /\ [ReviewNext]_reviewVars => Flags'
<1> SUFFICES ASSUME ReviewAssumption, ReviewIInv, [ReviewNext]_reviewVars PROVE Flags'
  OBVIOUS
<1>1. Flags
  BY DEF ReviewIInv, ReviewTypeOK
<1>2. CASE Disconnect \/ Cancel
  BY <1>1, <1>2, Zenon DEF Flags, Disconnect, Cancel, outside
<1>3. CASE Works
  <2>1. connected' \in BOOLEAN /\ signal' \in BOOLEAN
    BY <1>1, <1>3 DEF Flags, Works, outside
  <2>2. result' \in [accepted : BOOLEAN, evidence : BOOLEAN]
    BY <1>1, <1>3 DEF Flags, Works
  <2> QED  BY <2>1, <2>2 DEF Flags
<1>4. CASE UNCHANGED <<connected, signal, result>>
  BY <1>1, <1>4 DEF Flags
<1> QED
  BY <1>2, <1>3, <1>4
     DEF ReviewNext, reviewVars, outside, Reconfigure, Edit, TakesUp, Verifies, CapturesContext,
         ReviewBegins,
     Checks, Asks, Answers, AnswerFails, GivesUp, TimeIsUp, Rechecks, Validates, Decides, Completes

\* ... and the other types.
LEMMA ReviewTypes == ReviewAssumption /\ ReviewIInv /\ [ReviewNext]_reviewVars => ReviewTypeOK'
<1> USE ReviewNumbers DEF Reviewing, Ended, outside, call, findings
<1> SUFFICES ASSUME ReviewAssumption, ReviewIInv, [ReviewNext]_reviewVars PROVE ReviewTypeOK'
  OBVIOUS
<1>0. ReviewTypeOK /\ Flags' /\ (stage = "held again" => who <= Reviewers)
  BY ReviewFlags DEF ReviewIInv, Turns
<1>1. CASE Reconfigure \/ Edit
  <2>0. config \in Nat /\ edits \in Nat
    BY <1>0 DEF ReviewTypeOK
  <2>1. config' \in Nat /\ edits' \in Nat
    BY <2>0, <1>1 DEF Reconfigure, Edit
  <2>2. UNCHANGED <<stage, who, admitted, reviewed, controller, clock>>
    BY <1>1 DEF Reconfigure, Edit
  <2> QED  BY <1>0, <2>1, <2>2 DEF ReviewTypeOK
<1>2. CASE Disconnect \/ UNCHANGED reviewVars
  BY <1>0, <1>2 DEF ReviewTypeOK, Disconnect, reviewVars
<1>3. CASE Cancel
  <2>1. /\ controller' \in {"idle", "open", "cancelled", "timeout"}
        /\ UNCHANGED <<config, edits, stage, who, admitted, reviewed, clock>>
    BY <1>0, <1>3 DEF ReviewTypeOK, Cancel
  <2> QED  BY <1>0, <2>1 DEF ReviewTypeOK
<1>4. CASE TakesUp \/ Verifies \/ CapturesContext
  BY <1>0, <1>4 DEF ReviewTypeOK, TakesUp, Verifies, CapturesContext
<1>5. CASE Works
  <2>1. /\ stage' \in {"stopped", "manifest", "decide", "failed"} /\ stage = "work"
        /\ UNCHANGED <<config, edits, who, admitted, reviewed, controller, clock>>
    BY <1>5 DEF Works
  <2> QED  BY <1>0, <2>1 DEF ReviewTypeOK
<1>6. CASE ReviewBegins
  BY <1>0, <1>6 DEF ReviewTypeOK, ReviewBegins
<1>7. CASE Checks \/ AnswerFails \/ GivesUp \/ Answers
  BY <1>0, <1>7 DEF ReviewTypeOK, Checks, AnswerFails, GivesUp, Blocked, Answers
<1>8. CASE TimeIsUp \/ Rechecks \/ Decides \/ Completes
  BY <1>0, <1>8 DEF ReviewTypeOK, TimeIsUp, Rechecks, Blocked, Decides, Completes
<1>9. CASE Asks
  <2>1. /\ (stage' = "stream" /\ UNCHANGED call) \/ Blocked
        /\ stage = "held" /\ UNCHANGED <<config, edits, who, admitted, reviewed>>
    BY <1>9 DEF Asks
  <2> QED  BY <1>0, <2>1 DEF ReviewTypeOK, Blocked
<1>10. CASE Validates
  <2>1. /\ \/ stage' = "check" /\ clock' = "armed" /\ controller' \in {"cancelled", "open"}
           \/ stage' = "decide" /\ controller' = "idle" /\ clock' = "unset"
        /\ stage = "held again" /\ (who' = who \/ who' = who + 1)
        /\ UNCHANGED <<config, edits, admitted, reviewed>>
    BY <1>10 DEF Validates, Blocked
  <2>0. who \in 1..(Reviewers + 1)
    BY <1>0 DEF ReviewTypeOK
  <2>a. who \in Nat /\ 1 <= who
    BY <2>0
  <2>b. stage = "held again"
    BY <2>1
  <2>c. who <= Reviewers
    BY <1>0, <2>b
  <2>2. who' = who \/ who' = who + 1
    BY <2>1
  <2>3. who' \in 1..(Reviewers + 1)
    BY <2>a, <2>c, <2>2
  <2> QED  BY <1>0, <2>1, <2>3 DEF ReviewTypeOK
<1> QED
  BY <1>1, <1>2, <1>3, <1>4, <1>5, <1>6, <1>7, <1>8, <1>9, <1>10 DEF ReviewNext

\* Reviewers are asked in turn, and each answers before the next is asked.
LEMMA ReviewTurns == ReviewAssumption /\ ReviewIInv /\ [ReviewNext]_reviewVars => Turns'
<1> USE ReviewNumbers DEF Reviewing, ReviewPassed
<1> SUFFICES ASSUME ReviewAssumption, ReviewIInv, [ReviewNext]_reviewVars PROVE Turns'
  OBVIOUS
<1>a. used \in Seq([config : Nat, edits : Nat]) /\ answers \in Seq([1..Criteria -> Entries] \cup {<<>>})
  BY DEF ReviewIInv, Asked, PassedBefore
<1>0. Turns /\ who \in 1..(Reviewers + 1) /\ Len(used) \in Nat /\ Len(answers) \in Nat
  BY <1>a, SeqFacts DEF ReviewIInv, ReviewTypeOK
<1>1. CASE Reconfigure \/ Edit \/ Disconnect \/ Cancel \/ TimeIsUp \/ UNCHANGED reviewVars
  <2>1. UNCHANGED <<stage, who, used, answers>>
    BY <1>1 DEF Reconfigure, Edit, Disconnect, Cancel, TimeIsUp, reviewVars, findings
  <2> QED  BY <1>0, <2>1 DEF Turns
<1>2. CASE TakesUp \/ Verifies \/ CapturesContext \/ Works
  <2>1. /\ stage \in {"ready", "verify", "context", "work"} /\ UNCHANGED <<who, used, answers>>
        /\ stage' \in {"ready", "verify", "context", "work", "manifest", "decide", "failed", "stopped"}
    BY <1>2 DEF TakesUp, Verifies, CapturesContext, Works, findings
  <2> QED  BY <1>0, <2>1 DEF Turns
<1>3. CASE ReviewBegins
  <2>0. used = <<>> /\ answers = <<>> /\ who = 1 /\ Len(used) = 0 /\ Len(answers) = 0
    BY <1>0, <1>3 DEF Turns, ReviewBegins
  <2>a. stage' = "decide" \/ (stage' = "check" /\ Reviewers > 0)
    BY <1>3 DEF ReviewBegins
  <2>1. stage = "manifest" /\ UNCHANGED <<who, used, answers>>
    BY <1>3 DEF ReviewBegins
  <2>2. Len(used') <= Reviewers /\ Len(answers') <= Len(used') /\ (ReviewPassed' => Len(answers') = Reviewers)
    BY <1>0, <2>0, <2>1
  <2>3. stage' = "check" => Len(used') = who' - 1 /\ Len(answers') = who' - 1 /\ who' <= Reviewers
    BY <1>0, <2>0, <2>1, <2>a
  <2> QED  BY <2>1, <2>a, <2>2, <2>3 DEF Turns
<1>4. CASE Checks \/ AnswerFails \/ GivesUp \/ Rechecks \/ Decides \/ Completes
  <2>1. /\ UNCHANGED <<who, used, answers>>
        /\ \/ stage' \in {"decide", "failed", "stopped"}
           \/ stage = "check" /\ stage' = "held"
           \/ stage = "recheck" /\ stage' = "held again"
           \/ stage' = "capture" /\ ReviewPassed
           \/ stage = "capture" /\ stage' = "completed"
    BY <1>4 DEF Checks, AnswerFails, GivesUp, Rechecks, Decides, Completes, Blocked, findings
  <2> QED  BY <1>0, <2>1 DEF Turns
<1>5. CASE Asks
  <2>1. /\ stage = "held" /\ UNCHANGED <<who, answers>>
        /\ \/ stage' = "stream" /\ Len(used') = Len(used) + 1
           \/ stage' = "decide" /\ UNCHANGED used
    BY <1>a, <1>5 DEF Asks, Blocked
  <2>2. Len(used) = who - 1 /\ Len(answers) = who - 1 /\ who <= Reviewers
    BY <1>0, <2>1 DEF Turns
  <2>3. Len(used') <= Reviewers /\ Len(answers') <= Len(used') /\ ~ReviewPassed'
    BY <1>0, <2>1, <2>2
  <2>4. stage' = "stream" => Len(used') = who' /\ Len(answers') = who' - 1
    BY <1>0, <2>1, <2>2
  <2> QED  BY <2>1, <2>2, <2>3, <2>4 DEF Turns
<1>6. CASE Answers
  <2>1. stage = "stream" /\ stage' = "recheck" /\ Len(answers') = Len(answers) + 1 /\ UNCHANGED <<who, used>>
    BY <1>a, <1>6 DEF Answers
  <2> QED  BY <1>0, <2>1 DEF Turns
<1>7. CASE Validates
  <2>1. /\ stage = "held again" /\ UNCHANGED <<used, answers>>
        /\ \/ stage' = "check" /\ who' = who + 1 /\ who < Reviewers
           \/ stage' = "decide" /\ (who' = who \/ who' = who + 1)
    BY <1>7 DEF Validates, Blocked, findings
  <2>2. Len(used) = who /\ Len(answers) = who /\ who <= Reviewers
    BY <1>0, <2>1 DEF Turns
  <2>a. who' = who \/ who' = who + 1
    BY <2>1
  <2>b. Len(used') = who /\ Len(answers') = who
    BY <2>1, <2>2
  <2>3. Len(used') <= Reviewers /\ Len(answers') <= Len(used') /\ (ReviewPassed' => Len(answers') = Reviewers)
    BY <1>0, <2>a, <2>b, <2>2
  <2>c. stage' = "check" => who' = who + 1 /\ who < Reviewers
    BY <2>1
  <2>4. stage' = "check" => Len(used') = who' - 1 /\ Len(answers') = who' - 1 /\ who' <= Reviewers
    BY <1>0, <2>b, <2>c
  <2> QED  BY <2>1, <2>3, <2>4 DEF Turns
<1> QED
  BY <1>1, <1>2, <1>3, <1>4, <1>5, <1>6, <1>7 DEF ReviewNext

\* Who is asked sees the folder that is reviewed: the folder is compared as the call is made.
LEMMA ReviewAsked == ReviewAssumption /\ ReviewIInv /\ [ReviewNext]_reviewVars => Asked'
<1> SUFFICES ASSUME ReviewAssumption, ReviewIInv, [ReviewNext]_reviewVars PROVE Asked'
  OBVIOUS
<1>1. config \in Nat /\ edits \in Nat
  BY DEF ReviewIInv, ReviewTypeOK
<1>2. used \in Seq([config : Nat, edits : Nat])
  BY DEF ReviewIInv, Asked
<1>3. \A i \in 1..Len(used) : used[i].config <= config /\ used[i].config \in Nat /\ used[i].edits = reviewed
  <2>1. \A i \in 1..Len(used) : used[i] \in [config : Nat, edits : Nat]
    BY <1>2, SeqFacts
  <2> QED  BY <2>1 DEF ReviewIInv, Asked
<1>4. CASE UNCHANGED <<used, reviewed>> /\ config' \in {config, config + 1}
  BY <1>1, <1>2, <1>3, <1>4 DEF Asked
<1>5. CASE ReviewBegins
  <2>1. used' = <<>>
    BY <1>5 DEF ReviewBegins, ReviewIInv, Turns
  <2> QED  BY <2>1 DEF Asked
<1>6. CASE Asks
  <2>1. CASE UNCHANGED <<used, reviewed>> /\ config' = config
    BY <1>4, <2>1
  <2>2. CASE used' = Append(used, [config |-> config, edits |-> edits])
    <3> DEFINE e == [config |-> config, edits |-> edits]
    <3>1. edits = reviewed /\ UNCHANGED <<reviewed, config>>
      BY <1>6, <2>2 DEF Asks, Blocked, FolderHeld, outside
    <3>2. e \in [config : Nat, edits : Nat] /\ e.config = config /\ e.edits = reviewed
      BY <1>1, <3>1
    <3>3. /\ used' \in Seq([config : Nat, edits : Nat]) /\ Len(used') = Len(used) + 1 /\ Len(used) \in Nat
          /\ \A i \in 1..Len(used) : used'[i] = used[i]
          /\ used'[Len(used) + 1] = e
      BY <1>2, <2>2, <3>2, SeqFacts
    <3>4. \A i \in 1..Len(used') : used'[i].config <= config /\ used'[i].edits = reviewed
      <4>1. \A i \in 1..Len(used') : i \in 1..Len(used) \/ i = Len(used) + 1
        BY <3>3
      <4>2. e.config <= config
        BY <1>1, <3>2
      <4> QED  BY <1>3, <3>2, <3>3, <4>1, <4>2
    <3> QED  BY <3>1, <3>3, <3>4 DEF Asked
  <2> QED  BY <1>6, <2>1, <2>2 DEF Asks, outside
<1> QED
  BY <1>4, <1>5, <1>6
 
  DEF ReviewNext, reviewVars, outside, findings, Reconfigure, Edit, Disconnect, Cancel, TakesUp,
      Verifies, CapturesContext, Works,
      Checks, Answers, AnswerFails, GivesUp, TimeIsUp, Rechecks, Validates, Decides, Completes

\* No change of the configuration is taken back: found unchanged after an answer, it was
\* unchanged when the reviewer was asked.
LEMMA ReviewUnderPins == ReviewAssumption /\ ReviewIInv /\ [ReviewNext]_reviewVars => AskedUnderPins'
<1> SUFFICES ASSUME ReviewAssumption, ReviewIInv, [ReviewNext]_reviewVars PROVE AskedUnderPins'
  OBVIOUS
<1> DEFINE Pinned == stage \in {"check", "held", "held again"} \/ ReviewPassed
<1>1. CASE UNCHANGED used /\ (Pinned' => Pinned)
  BY <1>1 DEF ReviewIInv, AskedUnderPins
<1>2. CASE ~Pinned'
  BY <1>2 DEF AskedUnderPins
<1>3. CASE ReviewBegins
  <2>1. used' = <<>>
    BY <1>3 DEF ReviewBegins, ReviewIInv, Turns
  <2>2. \A i \in 1..Len(used') : FALSE
    BY <2>1
  <2> QED  BY <2>2 DEF AskedUnderPins
<1>4. CASE Rechecks
  <2>1. CASE Blocked
    <3>1. UNCHANGED <<used, who>> /\ stage' = "decide"
      BY <1>4, <2>1 DEF Rechecks, findings, Blocked
    <3> QED  BY <1>1, <3>1 DEF ReviewPassed
  <2>2. CASE ChecksAgain
    <3>1. UNCHANGED used /\ config = 0
      BY <1>4, <2>2 DEF Rechecks, findings, ChecksAgain, PinsHold
    <3>2. \A i \in 1..Len(used) : used[i].config <= 0 /\ used[i].config \in Nat
      <4>1. \A i \in 1..Len(used) : used[i] \in [config : Nat, edits : Nat]
        BY SeqFacts DEF ReviewIInv, Asked
      <4> QED  BY <3>1, <4>1 DEF ReviewIInv, Asked
    <3>3. \A i \in 1..Len(used) : used[i].config = 0
      BY <3>2
    <3> QED  BY <3>1, <3>3 DEF AskedUnderPins
  <2> QED  BY <1>4, <2>1, <2>2 DEF Rechecks
<1>5. CASE Asks
  <2>1. stage' \in {"stream", "decide"} /\ UNCHANGED who /\ stage = "held"
    BY <1>5 DEF Asks, Blocked
  <2>2. ~ReviewPassed'
    BY <2>1, ReviewNumbers DEF ReviewIInv, ReviewTypeOK, Turns, ReviewPassed, Reviewing
  <2> QED  BY <1>2, <2>1, <2>2
<1>6. CASE Validates
  BY <1>1, <1>6 DEF Validates, findings
<1>7. CASE Reconfigure \/ Edit \/ Disconnect \/ Cancel \/ TimeIsUp \/ UNCHANGED reviewVars
  <2>1. UNCHANGED <<stage, who, used>>
    BY <1>7 DEF Reconfigure, Edit, Disconnect, Cancel, TimeIsUp, reviewVars, findings
  <2> QED  BY <1>1, <2>1 DEF ReviewPassed
<1>8. CASE Checks \/ Answers \/ AnswerFails \/ GivesUp \/ TakesUp \/ Verifies \/ CapturesContext \/ Works \/ Decides \/ Completes
  <2>1. /\ UNCHANGED <<who, used>>
        /\ stage' = "held" => stage = "check"
        /\ stage' \notin {"check", "held again"}
    BY <1>8
       DEF Checks, Answers, AnswerFails, GivesUp, TakesUp, Verifies, CapturesContext, Works, Decides,
           Completes, Blocked, findings
  <2> QED  BY <1>1, <2>1 DEF ReviewPassed
<1> QED
  BY <1>3, <1>4, <1>5, <1>6, <1>7, <1>8 DEF ReviewNext

\* The next reviewer is asked only when the last has passed the work.
LEMMA ReviewPasses == ReviewAssumption /\ ReviewIInv /\ [ReviewNext]_reviewVars => PassedBefore'
<1> SUFFICES ASSUME ReviewAssumption, ReviewIInv, [ReviewNext]_reviewVars PROVE PassedBefore'
  OBVIOUS
<1>1. /\ answers \in Seq([1..Criteria -> Entries] \cup {<<>>})
      /\ \A i \in 1..Len(answers) : i < who => Passes(answers[i])
      /\ Turns /\ who \in Nat
  BY ReviewNumbers DEF ReviewIInv, PassedBefore, ReviewTypeOK
<1>2. CASE UNCHANGED <<answers, who>>
  BY <1>1, <1>2 DEF PassedBefore, Passes
<1>3. CASE Answers
  <2>1. PICK answer \in [1..Criteria -> Entries] \cup {<<>>} : answers' = Append(answers, answer)
    BY <1>3 DEF Answers
  <2>2. /\ Len(answers') = Len(answers) + 1 /\ answers' \in Seq([1..Criteria -> Entries] \cup {<<>>})
        /\ \A i \in 1..Len(answers) : answers'[i] = answers[i]
        /\ Len(answers) \in Nat
    BY <1>1, <2>1, SeqFacts
  <2>3. who' = who /\ Len(answers) = who - 1
    BY <1>1, <1>3 DEF Answers, Turns
  <2>4. \A i \in 1..Len(answers') : i < who' => Passes(answers'[i])
    BY <1>1, <2>2, <2>3
  <2> QED  BY <2>2, <2>4 DEF PassedBefore, Passes
<1>4. CASE Validates
  <2>1. Len(answers) = who /\ Last(answers) = answers[who]
    BY <1>1, <1>4 DEF Validates, Turns, Last
  <2>2. UNCHANGED answers /\ (who' = who \/ (who' = who + 1 /\ Passes(answers[who])))
    BY <1>4, <2>1 DEF Validates, findings
  <2>3. \A i \in 1..Len(answers) : i < who' => Passes(answers[i])
    BY <1>1, <2>1, <2>2
  <2> QED  BY <1>1, <2>2, <2>3 DEF PassedBefore, Passes
<1> QED
  BY <1>2, <1>3, <1>4
 
  DEF ReviewNext, reviewVars, findings, Reconfigure, Edit, Disconnect, Cancel, TakesUp, Verifies,
      CapturesContext, Works, Asks,
      ReviewBegins, Checks, AnswerFails, GivesUp, TimeIsUp, Rechecks, Decides, Completes

\* So the invariant is inductive.
LEMMA ReviewNextIInv == ReviewAssumption /\ ReviewIInv /\ [ReviewNext]_reviewVars => ReviewIInv'
  BY ReviewTypes, ReviewTurns, ReviewAsked, ReviewUnderPins, ReviewPasses DEF ReviewIInv

\* ... and shows what is claimed of completed work.
LEMMA ReviewShows == ReviewAssumption /\ ReviewIInv => ReviewedUnderPins /\ EveryCriterionIsQuoted
<1> SUFFICES ASSUME ReviewAssumption, ReviewIInv, stage = "completed" PROVE ReviewedUnderPins /\ EveryCriterionIsQuoted
  BY DEF ReviewedUnderPins, EveryCriterionIsQuoted
<1>1. ReviewPassed /\ Len(answers) = Reviewers /\ who \in Nat
  BY ReviewNumbers DEF ReviewIInv, Turns, ReviewTypeOK
<1>2. ReviewedUnderPins
  <2>1. used \in Seq([config : Nat, edits : Nat])
    BY DEF ReviewIInv, Asked
  <2>2. \A i \in 1..Len(used) : used[i].config = 0 /\ used[i].edits = reviewed
    BY <1>1 DEF ReviewIInv, Asked, AskedUnderPins
  <2>3. \A i \in 1..Len(used) : used[i] \in [config : Nat, edits : Nat]
    BY <2>1, SeqFacts
  <2>4. DOMAIN used = 1..Len(used)
    BY <2>1
  <2> QED  BY <2>2, <2>3, <2>4 DEF ReviewedUnderPins
<1>3. EveryCriterionIsQuoted
  <2>1. \A r \in 1..Reviewers : Passes(answers[r])
    BY <1>1, ReviewNumbers DEF ReviewIInv, PassedBefore, ReviewPassed
  <2>2. \A r \in 1..Reviewers : answers[r] \in [1..Criteria -> Entries] \cup {<<>>}
    BY <1>1, SeqFacts DEF ReviewIInv, PassedBefore
  <2>3. \A r \in 1..Reviewers, i \in 1..Criteria : i \in DOMAIN answers[r]
    BY <2>1, <2>2, ReviewNumbers DEF Passes
  <2> QED  BY <1>1, <2>1, <2>3 DEF EveryCriterionIsQuoted, Passes, Supported
<1> QED  BY <1>2, <1>3

\* Work is completed only on reviews that every reviewer made under the plan's pins and of the
\* reviewed folder, and that support every criterion with quotations of the evidence.
THEOREM ReviewsAreOfThisWork ==
  ASSUME ReviewAssumption
  PROVE  ReviewSpec => [](ReviewTypeOK /\ ReviewedUnderPins /\ EveryCriterionIsQuoted)
<1>1. ReviewInit => ReviewIInv
  BY ReviewInitIInv
<1>2. ReviewIInv /\ [ReviewNext]_reviewVars => ReviewIInv'
  BY ReviewNextIInv
<1>3. ReviewIInv => ReviewTypeOK /\ ReviewedUnderPins /\ EveryCriterionIsQuoted
  BY ReviewShows DEF ReviewIInv
<1> QED  BY <1>1, <1>2, <1>3, PTL DEF ReviewSpec

------------------------------------------------------------------------------
(***************************************************************************)
(* The process that does the work                                          *)
(***************************************************************************)
\* At first there is neither a process nor a stop.
LEMMA ChildInitIInv == ChildAssumption /\ ChildInit => ChildIInv
<1> SUFFICES ASSUME ChildAssumption, ChildInit PROVE ChildIInv
  OBVIOUS
<1>1. stray \in 0..MaxSignals
  BY DEF ChildAssumption, ChildInit
<1>2. ChildTypeOK
  BY <1>1 DEF ChildInit, ChildTypeOK
<1> QED  BY <1>2 DEF ChildInit, ChildIInv, CallHasProcess, StopIsRemembered, StoppedIsNotDone, Settled

\* A stop keeps the count of the timers that are left behind.
LEMMA StopsType ==
  ASSUME ChildAssumption, ChildTypeOK, Stops
  PROVE  /\ termed' = TRUE /\ kill' = "armed" /\ stray' \in 0..MaxSignals
  BY DEF ChildAssumption, ChildTypeOK, Stops

\* Until the call waits for its process there is none.
LEMMA CallBegins ==
  ASSUME ChildAssumption, ChildIInv, Prepares \/ ChildSpawns
  PROVE  ChildIInv'
<1>1. CASE Prepares
  BY <1>1 DEF ChildIInv, ChildTypeOK, CallHasProcess, StopIsRemembered, StoppedIsNotDone, Settled,
              Prepares, process, timers
<1>2. CASE ChildSpawns
  <2>1. CASE step' = "failed"
    BY <1>2, <2>1 DEF ChildIInv, ChildTypeOK, CallHasProcess, StopIsRemembered, StoppedIsNotDone,
                      Settled, ChildSpawns, process, timers
  <2>2. CASE step' = "wait" /\ kind = "execution" /\ SeenAtSpawn
    <3>1. child' = "reading" /\ timer' = "armed" /\ Stops /\ reason' = "aborted" /\ stopped' = TRUE
          /\ UNCHANGED <<kind, heeds, code, aborted, over, directory, server>>
      BY <1>2, <2>2 DEF ChildSpawns
    <3> QED  BY <2>2, <3>1, StopsType DEF ChildIInv, ChildTypeOK, CallHasProcess, StopIsRemembered,
                                          StoppedIsNotDone, Settled
  <2>3. CASE step' = "wait" /\ ~(kind = "execution" /\ SeenAtSpawn)
    BY <1>2, <2>3 DEF ChildIInv, ChildTypeOK, CallHasProcess, StopIsRemembered, StoppedIsNotDone,
                      Settled, ChildSpawns, SeenAtSpawn
  <2> QED  BY <1>2, <2>1, <2>2, <2>3 DEF ChildSpawns
<1> QED  BY <1>1, <1>2

\* Whoever stops the process leaves the reason, or the signal, that Outcome looks for.
LEMMA CallIsStopped ==
  ASSUME ChildAssumption, ChildIInv, UserStops \/ ChildTimeIsUp \/ PrintsTooMuch
  PROVE  ChildIInv'
<1> USE DEF ChildIInv
<1>1. /\ termed' \in BOOLEAN /\ kill' \in {"unset", "armed", "fired", "cleared"} /\ stray' \in 0..MaxSignals
      /\ UNCHANGED <<kind, heeds, step, child, code, directory, server>>
  BY StopsType DEF ChildTypeOK, UserStops, ChildTimeIsUp, StopsLate, PrintsTooMuch, timers
<1>2. CASE UserStops
  BY <1>1, <1>2 DEF ChildTypeOK, CallHasProcess, StopIsRemembered, StoppedIsNotDone, Settled, Alive,
                    Unended, Started, UserStops, FailsFor
<1>3. CASE ChildTimeIsUp
  <2>1. /\ timer' = "fired" /\ step = "wait" /\ UNCHANGED <<aborted, over>>
        /\ kind \in {"planner", "chat", "execution"}
    BY <1>3 DEF ChildTypeOK, ChildAssumption, Started, ChildTimeIsUp
  <2>2. CASE kind = "planner"
    BY <1>1, <1>3, <2>1, <2>2 DEF ChildTypeOK, CallHasProcess, StopIsRemembered, StoppedIsNotDone,
                                  Settled, ChildTimeIsUp
  <2>3. CASE kind = "chat"
    BY <1>1, <1>3, <2>1, <2>3 DEF ChildTypeOK, CallHasProcess, StopIsRemembered, StoppedIsNotDone,
                                  Settled, Alive, ChildTimeIsUp
  <2>4. CASE kind = "execution" /\ Unended
    BY <1>1, <1>3, <2>1, <2>4 DEF ChildTypeOK, CallHasProcess, StopIsRemembered, StoppedIsNotDone,
                                  Settled, Alive, ChildTimeIsUp, FailsFor
  <2>5. CASE kind = "execution" /\ ~Unended
    BY <1>1, <1>3, <2>1, <2>5 DEF ChildTypeOK, CallHasProcess, StopIsRemembered, StoppedIsNotDone,
                                  Settled, ChildTimeIsUp
  <2> QED  BY <2>1, <2>2, <2>3, <2>4, <2>5
<1>4. CASE PrintsTooMuch
  BY <1>1, <1>4 DEF ChildTypeOK, ChildAssumption, CallHasProcess, StopIsRemembered, StoppedIsNotDone,
                    Settled, Alive, Started, PrintsTooMuch, timers
<1> QED  BY <1>2, <1>3, <1>4

\* What the process does by itself, and what the timers do to it.
LEMMA ProcessMoves ==
  ASSUME ChildAssumption, ChildIInv,
         \/ ReadsPrompt \/ ClosesInput \/ ReportsFailure \/ Exits \/ EndsAtTerm \/ LetsGo
         \/ KillFires \/ StrayFires
  PROVE  ChildIInv'
<1> USE DEF ChildIInv, ChildTypeOK, CallHasProcess, StopIsRemembered, StoppedIsNotDone, Settled
<1>1. CASE ReadsPrompt \/ ClosesInput \/ ReportsFailure
  BY <1>1 DEF ReadsPrompt, ClosesInput, ReportsFailure, process, timers
<1>2. CASE Exits \/ EndsAtTerm \/ LetsGo
  BY <1>2 DEF Exits, EndsAtTerm, LetsGo, EndsAs, Alive, timers
<1>3. CASE KillFires
  BY <1>3 DEF KillFires, Killed, EndsAs, Alive
<1>4. CASE StrayFires
  <2>1. stray' \in 0..MaxSignals
    BY <1>4 DEF StrayFires, ChildAssumption
  <2> QED  BY <1>4, <2>1 DEF StrayFires, Killed, EndsAs, Alive
<1> QED  BY <1>1, <1>2, <1>3, <1>4

\* The call ends with the process, and as a failure when that was stopped.
LEMMA CallEnds ==
  ASSUME ChildAssumption, ChildIInv, Closes \/ CleansUp
  PROVE  ChildIInv'
<1> USE DEF ChildIInv
<1>1. CASE Closes
  BY <1>1 DEF Closes, ChildEnded, Outcome, Started, process, ChildAssumption, ChildTypeOK, CallHasProcess,
              StopIsRemembered, StoppedIsNotDone, Settled
<1>2. CASE CleansUp
  <2>1. /\ directory' \in BOOLEAN
        /\ UNCHANGED <<kind, heeds, step, child, code, termed, aborted, reason, timer, kill, stray, over, server, stopped>>
    BY <1>2 DEF CleansUp, process, timers
  <2>2. ChildTypeOK'
    BY <2>1 DEF ChildTypeOK
  <2>3. CallHasProcess' /\ StopIsRemembered' /\ StoppedIsNotDone'
    BY <2>1 DEF CallHasProcess, StopIsRemembered, StoppedIsNotDone, Settled
  <2> QED  BY <2>2, <2>3
<1> QED  BY <1>1, <1>2

LEMMA ChildNextIInv == ChildAssumption /\ ChildIInv /\ [ChildNext]_childVars => ChildIInv'
<1> SUFFICES ASSUME ChildAssumption, ChildIInv, [ChildNext]_childVars PROVE ChildIInv'
  OBVIOUS
<1>1. CASE UNCHANGED childVars
  BY <1>1 DEF ChildIInv, ChildTypeOK, CallHasProcess, StopIsRemembered, StoppedIsNotDone, Settled, childVars
<1> QED  BY <1>1, CallBegins, CallIsStopped, ProcessMoves, CallEnds DEF ChildNext

LEMMA ChildShows == ChildIInv => NoneIsLeftBehind
  BY DEF ChildIInv, CallHasProcess, NoneIsLeftBehind, Alive

\* A chat answer or a node's work whose process was stopped - by the user, the time limit or
\* the limit of its output, in whatever order they and its end come - is never taken for a
\* finished one, and no call ends before its process and whoever holds its output.
THEOREM StoppedWorkIsDropped ==
  ASSUME ChildAssumption
  PROVE  ChildSpec => [](ChildTypeOK /\ StoppedIsNotDone /\ NoneIsLeftBehind)
<1>1. ChildInit => ChildIInv
  BY ChildInitIInv
<1>2. ChildIInv /\ [ChildNext]_childVars => ChildIInv'
  BY ChildNextIInv
<1>3. ChildIInv => ChildTypeOK /\ StoppedIsNotDone /\ NoneIsLeftBehind
  BY ChildShows DEF ChildIInv
<1> QED  BY <1>1, <1>2, <1>3, PTL DEF ChildSpec
==============================================================================
