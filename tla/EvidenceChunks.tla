--------------------------- MODULE EvidenceChunks ---------------------------
(***************************************************************************)
(* splitBounded and createChunks: the text of a document's blocks is cut   *)
(* into bounded segments, and segments are joined into bounded chunks that *)
(* cite where they come from.                                              *)
(*                                                                         *)
(* One step takes one segment.  A block is a sequence of letters and       *)
(* blanks that neither begins nor ends with a blank.                       *)
(***************************************************************************)
EXTENDS Naturals, Sequences, SequencesExt, FiniteSetsExt

CONSTANTS Documents,      \* sequences of blocks
          MaxChunkChars   \* limit of a chunk

ChunksAssumption == MaxChunkChars \in Nat \ {0}

Letter == "x"
Blank  == " "

VARIABLES
    blocks, block,   \* the document, and the block at hand
    offset,          \* where the next segment of it begins
    parts, length,   \* the segments of the chunk that is being filled, and its length as counted
    chunks

vars == <<blocks, block, offset, parts, length, chunks>>

Init ==
    /\ blocks \in Documents
    /\ block = 1 /\ offset = 0 /\ parts = <<>> /\ length = 0 /\ chunks = <<>>

TypeOK ==
    /\ block \in 1 .. Len(blocks) + 1 /\ length \in 0 .. MaxChunkChars
    /\ block <= Len(blocks) => offset \in 0 .. Len(blocks[block]) - 1
    /\ \A n \in DOMAIN parts : parts[n].start < parts[n].end

------------------------------------------------------------------------------
MinOf(a, b) == IF a < b THEN a ELSE b

\* text[n], counted from 0 as the code does
Char(text, n) == text[n + 1]

\* The blanks a segment may end at: past the middle of what fits.
Boundary(text, from, limit) ==
    {n \in (from + MaxChunkChars \div 2 + 1) .. limit : n < Len(text) /\ Char(text, n) = Blank}

\* Mutant: segments are as long as they may be.
SegmentEndAny(text, from) == MinOf(Len(text), from + MaxChunkChars)

\* splitBounded: where the segment that begins at from ends
SegmentEnd(text, from) ==
    LET limit == MinOf(Len(text), from + MaxChunkChars)
        last  == {n \in 0 .. limit : n < Len(text) /\ Char(text, n) = Blank}
    IN IF limit < Len(text) /\ last # {} /\ Max(last) \in Boundary(text, from, limit) THEN Max(last) ELSE limit

\* Mutant: the next segment begins one character after the boundary.
NextStartSkips(text, end) == MinOf(end + 1, Len(text))

\* ... and the next one begins after the blanks
NextStart(text, end) == Min({n \in end .. Len(text) : n = Len(text) \/ Char(text, n) # Blank})

\* Mutant: the separator between two parts is not counted.
SeparatorAny(n) == 0

\* Parts are joined by one line feed.
Separator(n) == IF n > 0 THEN 1 ELSE 0

Amount(ps) == FoldSeq(LAMBDA p, n : n + p.end - p.start, 0, ps)
Joined(ps) == Amount(ps) + IF ps = <<>> THEN 0 ELSE Len(ps) - 1

\* Mutant: a chunk that is full is closed after the segment.
FlushesAfter(size) == FALSE

\* A segment that does not fit any more closes the chunk.
Flushes(size) == length + Separator(Len(parts)) + size > MaxChunkChars

TakesSegment ==
    /\ block <= Len(blocks)
    /\ LET text == blocks[block]
           end == SegmentEnd(text, offset)
           segment == [block |-> block, start |-> offset, end |-> end]
           flushes == Flushes(end - offset)
           kept == IF flushes THEN <<>> ELSE parts
           rest == NextStart(text, end)
       IN /\ chunks' = IF flushes /\ parts # <<>> THEN Append(chunks, parts) ELSE chunks
          /\ parts' = Append(kept, segment)
          /\ length' = (IF flushes THEN 0 ELSE length) + Separator(Len(kept)) + end - offset
          /\ IF rest = Len(text) THEN block' = block + 1 /\ offset' = 0
             ELSE block' = block /\ offset' = rest
    /\ UNCHANGED blocks

\* The last chunk
Ends ==
    /\ block > Len(blocks) /\ parts # <<>>
    /\ chunks' = Append(chunks, parts) /\ parts' = <<>> /\ length' = 0
    /\ UNCHANGED <<blocks, block, offset>>

Next == TakesSegment \/ Ends

Spec == Init /\ [][Next]_vars

------------------------------------------------------------------------------
Done == block > Len(blocks) /\ parts = <<>>
All  == FlattenSeq(chunks) \o parts

\* A chunk is never longer than a chunk may be, and the length that decides it is the
\* one the chunk has.
ChunksAreBounded ==
    /\ length = Joined(parts) /\ length <= MaxChunkChars
    /\ \A n \in DOMAIN chunks : chunks[n] # <<>> /\ Joined(chunks[n]) <= MaxChunkChars

\* Nothing of a document is lost or cited twice: when it is done, every letter of every
\* block is in one cited segment, and segments follow each other.
EverythingIsCited ==
    /\ \A n \in 1 .. Len(All) - 1 :
          \/ All[n].block < All[n + 1].block
          \/ All[n].block = All[n + 1].block /\ All[n].end <= All[n + 1].start
    /\ Done => \A b \in DOMAIN blocks : \A i \in 0 .. Len(blocks[b]) - 1 :
          Char(blocks[b], i) = Letter =>
              \E n \in DOMAIN All : All[n].block = b /\ All[n].start <= i /\ i < All[n].end

\* A word that fits half a chunk is cut only where no blank was in reach.
WordsStayWhole ==
    \A n \in DOMAIN All : LET s == All[n] IN LET text == blocks[s.block] IN
        s.end < Len(text) /\ Char(text, s.end) # Blank =>
            ~\E i \in (s.start + MaxChunkChars \div 2 + 1) .. s.end : Char(text, i) = Blank
==============================================================================
