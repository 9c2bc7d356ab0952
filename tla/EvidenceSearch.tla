--------------------------- MODULE EvidenceSearch ---------------------------
(***************************************************************************)
(* retrieveEvidence: two rankers score the chunks of the parsed documents, *)
(* and their lists are fused by reciprocal rank.                           *)
(*                                                                         *)
(* One step fuses one item of a list.  What a ranker makes of a text is an *)
(* input: a score of each chunk.  A fused score is a sum of fractions,     *)
(* kept over the common denominator Scale.                                 *)
(***************************************************************************)
EXTENDS Naturals, Sequences, SequencesExt, FiniteSetsExt

CONSTANTS Chunks,       \* ids, in the order localeCompare gives them
          MaxScore,     \* bound of a ranker's score
          Candidates,   \* sequences of chunks, of documents that may share some
          K, TopK       \* the constant of the fusion, and how many results are asked for

SearchAssumption == Chunks \subseteq Nat /\ K \in Nat \ {0} /\ TopK \in Nat \ {0}

Rankers == <<"bm25-v1", "trigram-v1">>

VARIABLES
    candidates, scores,   \* what is searched, and ranker -> chunk -> score
    list, item,           \* the ranker and the rank that are fused next
    fused,                \* chunk -> its score, where it has one
    results               \* none yet, or the chunks returned

vars == <<candidates, scores, list, item, fused, results>>

Pending == <<0>>

Init ==
    /\ candidates \in Candidates
    /\ scores \in [1 .. Len(Rankers) -> [Chunks -> 0 .. MaxScore]]
    /\ list = 1 /\ item = 1 /\ fused = <<>> /\ results = Pending

TypeOK ==
    /\ list \in 1 .. Len(Rankers) + 1 /\ item \in 1 .. Cardinality(Chunks) + 1
    /\ DOMAIN fused \subseteq ToSet(candidates)
    /\ results # Pending => Len(results) <= TopK /\ ToSet(results) \subseteq DOMAIN fused

------------------------------------------------------------------------------
\* Mutant: a chunk that two documents share is a candidate twice.
UniqueEach == candidates

\* A chunk that two documents share is one candidate.
Unique == SetToSortSeq(ToSet(candidates), <)

\* Mutant: of equal scores the later id is first.
BeforeReversed(score, c, d) == score[c] > score[d] \/ (score[c] = score[d] /\ c > d)

\* Higher scores first; equal ones by id, whatever the order they came in.
Before(score, c, d) == score[c] > score[d] \/ (score[c] = score[d] /\ c < d)

\* Mutant: the list holds what the ranker did not find.
MatchesAny(score, c) == TRUE

Matches(score, c) == score[c] > 0

RankedList(r) ==
    LET Precedes(c, d) == Before(scores[r], c, d) IN
    SortSeq(SelectSeq(Unique, LAMBDA c : Matches(scores[r], c)), Precedes)

Scale == FoldSeq(LAMBDA rank, n : n * (K + rank), 1, [rank \in 1 .. Cardinality(Chunks) + 2 |-> rank])
Contribution(rank) == Scale \div (K + rank)

\* Mutant: the last list decides.
AddedLast(sofar, rank) == Contribution(rank)

Added(sofar, rank) == sofar + Contribution(rank)

FusesItem ==
    /\ list <= Len(Rankers) /\ item <= Len(RankedList(list))
    /\ LET c == RankedList(list)[item]
           sofar == IF c \in DOMAIN fused THEN fused[c] ELSE 0
       IN fused' = [d \in DOMAIN fused \cup {c} |-> IF d = c THEN Added(sofar, item) ELSE fused[d]]
    /\ item' = item + 1
    /\ UNCHANGED <<candidates, scores, list, results>>

NextList ==
    /\ list <= Len(Rankers) /\ item > Len(RankedList(list))
    /\ list' = list + 1 /\ item' = 1
    /\ UNCHANGED <<candidates, scores, fused, results>>

Top == SortSeq(SetToSortSeq(DOMAIN fused, <), LAMBDA c, d : Before(fused, c, d))

Returns ==
    /\ list > Len(Rankers) /\ results = Pending
    /\ results' = SubSeq(Top, 1, IF Len(Top) < TopK THEN Len(Top) ELSE TopK)
    /\ UNCHANGED <<candidates, scores, list, item, fused>>

Next == FusesItem \/ NextList \/ Returns

Spec == Init /\ [][Next]_vars

------------------------------------------------------------------------------
Answered  == results # Pending
Found     == {c \in ToSet(candidates) : \E r \in DOMAIN Rankers : scores[r][c] > 0}
AsGoodAs(c, d) == \A r \in DOMAIN Rankers : scores[r][c] >= scores[r][d]
Place(c)  == CHOOSE n \in DOMAIN results : results[n] = c

\* The results are chunks some ranker found, each once, and as many as there are.
NothingUnfound ==
    Answered => /\ ToSet(results) \subseteq Found /\ Len(results) = Cardinality(ToSet(results))
                /\ Len(results) = IF Cardinality(Found) < TopK THEN Cardinality(Found) ELSE TopK

\* What every ranker that finds either finds better is never left out for the other or
\* listed after it.  (At least as good would not do: a ranker that finds both equal
\* orders them by id, and that order weighs as much as a better score.)
AgreementHolds ==
    Answered => \A c \in ToSet(candidates) : \A d \in ToSet(results) \ {c} :
        (\A r \in DOMAIN Rankers : scores[r][c] > scores[r][d] \/ scores[r][c] + scores[r][d] = 0) =>
            c \in ToSet(results) /\ Place(c) < Place(d)

\* The same search has the same answer: chunks no ranker tells apart are in the order
\* of their ids, however documents were listed.
TiesAreStable ==
    Answered => \A c \in ToSet(candidates) : \A d \in ToSet(results) :
        AsGoodAs(c, d) /\ AsGoodAs(d, c) /\ c < d => c \in ToSet(results) /\ Place(c) < Place(d)
==============================================================================
