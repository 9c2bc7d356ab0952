------------------------------ MODULE CsvRows ------------------------------
(***************************************************************************)
(* parseCsvRows: the loop that turns the text of a CSV source into rows.   *)
(*                                                                         *)
(* One step is one turn of the loop.  Characters are "x" (any other one),  *)
(* a quote, a comma and a line feed; a text is a sequence of them, either  *)
(* any text or the way a table is written.                                 *)
(***************************************************************************)
EXTENDS Naturals, Sequences, SequencesExt

CONSTANTS Texts,     \* texts to parse
          Tables,    \* tables whose written form is parsed
          None,
          MaxCellChars, MaxColumns, MaxRows   \* limits

CsvAssumption == {MaxCellChars, MaxColumns, MaxRows} \subseteq Nat \ {0}

X == "x"
Quote == "q"
Comma == ","
LineFeed == "n"
Chars == {X, Quote, Comma, LineFeed}

VARIABLES
    table,     \* observer: the table the text was written from, or None
    text, index, quoted, field, row, rows,
    outcome    \* "reading", "parsed", or the error

vars == <<table, text, index, quoted, field, row, rows, outcome>>

\* The way a table is written: cells with a special character are quoted, and the
\* quotes in them doubled; lines are separated.
WrittenCell(c) ==
    IF \E n \in DOMAIN c : c[n] # X
    THEN <<Quote>> \o FlattenSeq([n \in DOMAIN c |-> IF c[n] = Quote THEN <<Quote, Quote>> ELSE <<c[n]>>]) \o <<Quote>>
    ELSE c
Joined(seqs, by) == FlattenSeq([n \in DOMAIN seqs |-> IF n = 1 THEN seqs[n] ELSE <<by>> \o seqs[n]])
WrittenRow(r)    == Joined([n \in DOMAIN r |-> WrittenCell(r[n])], Comma)
Written(t)       == Joined([n \in DOMAIN t |-> WrittenRow(t[n])], LineFeed)

Init ==
    /\ \/ table = None /\ text \in Texts
       \/ table \in Tables /\ text = Written(table)
    /\ index = 1 /\ quoted = FALSE /\ field = <<>> /\ row = <<>> /\ rows = <<>> /\ outcome = "reading"

TypeOK ==
    /\ index \in 1 .. Len(text) + 1 /\ quoted \in BOOLEAN
    /\ Len(field) <= MaxCellChars + 1 /\ Len(row) <= MaxColumns + 1 /\ Len(rows) <= MaxRows + 1
    /\ outcome \in {"reading", "parsed", "EVIDENCE_CELL_LIMIT", "EVIDENCE_COLUMN_LIMIT", "EVIDENCE_ROW_LIMIT",
                    "EVIDENCE_CSV_INVALID"}

------------------------------------------------------------------------------
At(n) == IF n <= Len(text) THEN text[n] ELSE None

Stops(error) == outcome' = error /\ UNCHANGED <<table, text, index, quoted, field, row, rows>>

\* Mutant: the limit is looked at when the field ends.
TakesAny(character, read, nowQuoted) ==
    /\ field' = Append(field, character) /\ index' = index + read /\ quoted' = nowQuoted
    /\ UNCHANGED <<table, text, row, rows, outcome>>

\* A character joins the field, which must stay within the limit.
Takes(character, read, nowQuoted) ==
    LET longer == Append(field, character) IN
    IF Len(longer) > MaxCellChars THEN Stops("EVIDENCE_CELL_LIMIT")
    ELSE /\ field' = longer /\ index' = index + read /\ quoted' = nowQuoted
         /\ UNCHANGED <<table, text, row, rows, outcome>>

\* Mutant: a doubled quote ends the field.
DoubledQuoteAny == FALSE

DoubledQuote == At(index + 1) = Quote

\* Inside quotes, two quotes are one and one is the end.
Quoted ==
    /\ outcome = "reading" /\ index <= Len(text) /\ quoted
    /\ CASE text[index] = Quote /\ DoubledQuote  -> Takes(Quote, 2, TRUE)
         [] text[index] = Quote /\ ~DoubledQuote ->
               quoted' = FALSE /\ index' = index + 1 /\ UNCHANGED <<table, text, field, row, rows, outcome>>
         [] OTHER -> Takes(text[index], 1, TRUE)

OpensQuote ==
    /\ outcome = "reading" /\ index <= Len(text) /\ ~quoted /\ text[index] = Quote
    /\ IF field # <<>> THEN Stops("EVIDENCE_CSV_INVALID")
       ELSE quoted' = TRUE /\ index' = index + 1 /\ UNCHANGED <<table, text, field, row, rows, outcome>>

\* Mutant: the next field begins with this one.
PushesFieldKept ==
    /\ outcome = "reading" /\ index <= Len(text) /\ ~quoted /\ text[index] = Comma /\ Len(row) < MaxColumns
    /\ row' = Append(row, field) /\ index' = index + 1
    /\ UNCHANGED <<table, text, quoted, field, rows, outcome>>

\* pushField
PushesField ==
    /\ outcome = "reading" /\ index <= Len(text) /\ ~quoted /\ text[index] = Comma
    /\ LET longer == Append(row, field) IN
       IF Len(longer) > MaxColumns THEN Stops("EVIDENCE_COLUMN_LIMIT")
       ELSE /\ row' = longer /\ field' = <<>> /\ index' = index + 1
            /\ UNCHANGED <<table, text, quoted, rows, outcome>>

\* Mutant: the row limit counts the rows before this one.
RowsFitLate(n) == n <= MaxRows + 1

RowsFit(n) == n <= MaxRows

\* Rows of empty cells at the end go.
Blank(r)   == \A n \in DOMAIN r : r[n] = <<>>
Trimmed(t) ==
    LET last == {n \in DOMAIN t : ~Blank(t[n])} IN
    SubSeq(t, 1, IF last = {} THEN 0 ELSE CHOOSE n \in last : \A m \in last : m <= n)

\* pushRow, after the last character (read = 0) or at a line feed
PushesRow(read) ==
    LET longer == Append(row, field) IN
    CASE Len(longer) > MaxColumns   -> Stops("EVIDENCE_COLUMN_LIMIT")
      [] Len(longer) <= MaxColumns /\ ~RowsFit(Len(rows) + 1) -> Stops("EVIDENCE_ROW_LIMIT")
      [] OTHER -> /\ rows' = (IF read = 0 THEN Trimmed(Append(rows, longer)) ELSE Append(rows, longer))
                  /\ row' = <<>> /\ field' = <<>> /\ index' = index + read
                  /\ outcome' = IF read = 0 THEN "parsed" ELSE outcome
                  /\ UNCHANGED <<table, text, quoted>>

EndsLine ==
    /\ outcome = "reading" /\ index <= Len(text) /\ ~quoted /\ text[index] = LineFeed
    /\ PushesRow(1)

Plain ==
    /\ outcome = "reading" /\ index <= Len(text) /\ ~quoted /\ text[index] = X
    /\ Takes(X, 1, FALSE)

\* The last line counts unless the text ended with its line feed.
EndsInLine == field # <<>> \/ row # <<>> \/ text = <<>> \/ Last(text) # LineFeed

Ends ==
    /\ outcome = "reading" /\ index > Len(text)
    /\ CASE quoted                -> Stops("EVIDENCE_CSV_INVALID")
         [] ~quoted /\ EndsInLine -> PushesRow(0)
         [] OTHER                 -> /\ rows' = Trimmed(rows) /\ outcome' = "parsed"
                                     /\ UNCHANGED <<table, text, index, quoted, field, row>>

Next == Quoted \/ OpensQuote \/ PushesField \/ EndsLine \/ Plain \/ Ends

Spec == Init /\ [][Next]_vars

------------------------------------------------------------------------------
Fits(t) ==
    /\ Len(t) <= MaxRows
    /\ \A n \in DOMAIN t : Len(t[n]) <= MaxColumns /\ \A m \in DOMAIN t[n] : Len(t[n][m]) <= MaxCellChars

\* Whatever its cells hold, a table that was written is read back, and it is refused
\* only for what exceeds a limit.
ReadsBack ==
    table # None /\ outcome # "reading" =>
        IF Fits(table) THEN outcome = "parsed" /\ rows = Trimmed(table) ELSE outcome # "EVIDENCE_CSV_INVALID"

\* No text gets more past the limits than they say.
WithinLimits == outcome = "parsed" => Fits(rows)

\* Evidence is not invented: a parsed text has the characters of its cells, one
\* separator between them, and nothing else but the quotes around and in them and the
\* blank rows that went.
Amount(t) == FoldSeq(LAMBDA r, n : n + FoldSeq(LAMBDA c, m : m + Len(c), 0, r), 0, t)
NothingInvented ==
    outcome = "parsed" =>
        Amount(rows) + FoldSeq(LAMBDA r, n : n + Len(r), 0, rows) <= Len(text) + 1
============================================================================
