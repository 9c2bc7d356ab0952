----------------------------- MODULE SkillFiles -----------------------------
(***************************************************************************)
(* The search for SKILL.md files below the catalog's root, through         *)
(* directories and links, and the manifest of one package.                 *)
(*                                                                         *)
(* A directory is named by its real path; its entries are in the order of  *)
(* their names.  The recursion is a stack of the directories it is in and  *)
(* of the entries of each that are left.                                   *)
(***************************************************************************)
EXTENDS Naturals, Sequences, SequencesExt, FiniteSets

CONSTANTS Dirs, Root,
          Boundary,          \* the directories within the root's parent
          Trees,             \* what each directory may hold: sequences of entries, for each directory
          MaxDepth, MaxSkills, MaxFiles

FilesAssumption ==
    Root \in Boundary /\ Boundary \subseteq Dirs /\ {MaxDepth, MaxSkills, MaxFiles} \subseteq Nat \ {0}

VARIABLES
    tree,       \* the entries of each directory
    search,     \* "skills" of the root, or the files of a "package"
    stack, visited, output,
    result      \* "running", "done" or why the package is refused

vars == <<tree, search, stack, visited, output, result>>

Frame(d) == [dir |-> d, rest |-> tree[d]]

Init ==
    /\ tree \in Trees /\ search \in {"skills", "package"}
    /\ stack = <<Frame(Root)>> /\ visited = {Root} /\ output = <<>> /\ result = "running"

Top       == Last(stack)
Depth     == Len(stack) - 1
Entry     == Head(Top.rest)
Working   == result = "running" /\ stack # <<>> /\ Top.rest # <<>>
\* The top's next entry is done.
Advanced  == [stack EXCEPT ![Len(stack)].rest = Tail(@)]
Stays     == UNCHANGED <<tree, search>>

------------------------------------------------------------------------------
(***************************************************************************)
(* findSkillFiles                                                          *)
(***************************************************************************)
\* Mutant: directories are entered however deep, and again.
EntersAnyDepth(d, depth) == Len(output) < MaxSkills /\ d \in Boundary

\* Mutant: a directory is entered as often as it is found.
EntersAgain(d, depth) == depth <= MaxDepth /\ Len(output) < MaxSkills /\ d \in Boundary

Enters(d, depth) == depth <= MaxDepth /\ Len(output) < MaxSkills /\ d \in Boundary /\ d \notin visited

\* Mutant: a link is not followed.
LedToReal == Entry.kind = "dir"

\* A directory, or a link to one.
LedTo == Entry.kind \in {"dir", "link"}

FindsDirectory ==
    /\ search = "skills" /\ Working /\ Len(output) < MaxSkills /\ LedTo
    /\ IF Enters(Entry.to, Depth + 1)
       THEN stack' = Append(Advanced, Frame(Entry.to)) /\ visited' = visited \cup {Entry.to}
       ELSE stack' = Advanced /\ UNCHANGED visited
    /\ UNCHANGED <<output, result>> /\ Stays

FindsFile ==
    /\ search = "skills" /\ Working /\ Len(output) < MaxSkills /\ ~LedTo
    /\ output' = IF Entry.kind = "skill" THEN Append(output, Top.dir) ELSE output
    /\ stack' = Advanced
    /\ UNCHANGED <<visited, result>> /\ Stays

\* No entries are left, or the limit is met.
Leaves ==
    /\ result = "running" /\ stack # <<>>
    /\ Top.rest = <<>> \/ (search = "skills" /\ Len(output) >= MaxSkills)
    /\ stack' = Front(stack)
    /\ result' = IF Len(stack) = 1 THEN "done" ELSE "running"
    /\ UNCHANGED <<visited, output>> /\ Stays

------------------------------------------------------------------------------
(***************************************************************************)
(* buildPackageManifest                                                    *)
(***************************************************************************)
Refuses(why) == result' = why /\ UNCHANGED <<stack, visited, output>> /\ Stays

\* Mutant: the last directory that is allowed is refused.
TooDeepEarly == Depth + 1 >= MaxDepth

TooDeep == Depth + 1 > MaxDepth

PackageDirectory ==
    /\ search = "package" /\ Working /\ Entry.kind = "dir"
    /\ IF TooDeep THEN Refuses("deep")
       ELSE /\ stack' = Append(Advanced, Frame(Entry.to)) /\ visited' = visited \cup {Entry.to}
            /\ UNCHANGED <<output, result>> /\ Stays

\* Mutant: a link is passed over.
LinkSkipped == stack' = Advanced /\ UNCHANGED <<visited, output, result>> /\ Stays

LinkRefused == Refuses("link")

PackageLink == search = "package" /\ Working /\ Entry.kind = "link" /\ LinkRefused

\* Mutant: the files are counted after one more is taken.
TooManyLate == Len(output) > MaxFiles

TooMany == Len(output) >= MaxFiles

PackageFile ==
    /\ search = "package" /\ Working /\ Entry.kind \in {"skill", "file"}
    /\ IF TooMany THEN Refuses("large")
       ELSE /\ output' = Append(output, <<Top.dir, Entry.kind>>) /\ stack' = Advanced
            /\ UNCHANGED <<visited, result>> /\ Stays

Next == FindsDirectory \/ FindsFile \/ Leaves \/ PackageDirectory \/ PackageLink \/ PackageFile

Spec == Init /\ [][Next]_vars

------------------------------------------------------------------------------
TypeOK ==
    /\ \A n \in DOMAIN stack : stack[n].dir \in visited
    /\ visited \subseteq Dirs /\ Len(stack) <= MaxDepth + 1
    /\ Len(output) <= (IF search = "skills" THEN MaxSkills ELSE MaxFiles)

\* The directories that are reached by real entries of the given kinds, at most so deep.
Targets(d, kinds) == {tree[d][n].to : n \in {m \in DOMAIN tree[d] : tree[d][m].kind \in kinds}}
Reached(kinds, depth) ==
    LET by[n \in 0 .. depth] ==
            IF n = 0 THEN {Root} ELSE by[n - 1] \cup UNION {Targets(d, kinds) \cap Boundary : d \in by[n - 1]}
    IN by[depth]
Holds(d, kind) == \E n \in DOMAIN tree[d] : tree[d][n].kind = kind

\* "recursively discovers SKILL.md files": whatever the links, each skill is listed once,
\* none from outside, and all of them unless a limit was met.
SkillsAreFound ==
    search = "skills" =>
        /\ IsInjective(output) /\ \A n \in DOMAIN output : output[n] \in Boundary /\ Holds(output[n], "skill")
        /\ result = "done" /\ Len(output) < MaxSkills /\ Cardinality(Boundary) <= MaxDepth =>
              ToSet(output) = {d \in Reached({"dir", "link"}, Cardinality(Dirs)) : Holds(d, "skill")}

\* "rejects ... packages that ... contain package symlinks, exceed nesting/file ... limits":
\* a manifest lists every file of the package, or there is none and a reason for it.
ManifestIsWhole ==
    LET all   == Reached({"dir"}, Cardinality(Dirs))
        files == UNION {{<<d, k>> : k \in {j \in {"skill", "file"} : Holds(d, j)}} : d \in all}
        links == \E d \in all : Holds(d, "link")
    IN search = "package" =>
        /\ result = "done" => ToSet(output) = files /\ Cardinality(files) <= MaxFiles /\ ~links /\ all = Reached({"dir"}, MaxDepth)
        /\ result = "link" => links
        /\ result = "deep" => all # Reached({"dir"}, MaxDepth)
        /\ result = "large" => Cardinality(files) > MaxFiles
==============================================================================
