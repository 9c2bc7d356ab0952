------------------------------ MODULE SheetRows ------------------------------
(***************************************************************************)
(* parseXlsxBrd: the worksheets of a workbook become blocks of evidence,   *)
(* one a row, that cite their cells.                                       *)
(*                                                                         *)
(* One step is one turn of a loop over cells, rows or sheets.  A cell is   *)
(* empty, holds only blanks, or holds a text; its address is a column name *)
(* in Letters letters and a row number.                                    *)
(***************************************************************************)
EXTENDS Integers, Sequences, SequencesExt, FiniteSetsExt

CONSTANTS Workbooks,    \* sequences of sheets, which are sequences of rows of cells
          Letters,      \* how many letters there are
          MaxRows, MaxCells, MaxColumns, MaxBlocks   \* limits

SheetAssumption == Letters \in Nat \ {0} /\ {MaxRows, MaxCells, MaxColumns, MaxBlocks} \subseteq Nat

Empty == "empty"
Blank == "blank"

VARIABLES
    workbook, sheet, row, column,   \* where the loops are; column 0 before a row is begun
    headers, firstRow,              \* of this sheet: column -> text, and whether its header is still to come
    totalRows, totalCells,
    cells,                          \* of this row
    blocks,                         \* the blocks collected
    outcome

vars == <<workbook, sheet, row, column, headers, firstRow, totalRows, totalCells, cells, blocks, outcome>>

Init ==
    /\ workbook \in Workbooks
    /\ sheet = 1 /\ row = 1 /\ column = 0 /\ headers = <<>> /\ firstRow = TRUE
    /\ totalRows = 0 /\ totalCells = 0 /\ cells = <<>> /\ blocks = <<>> /\ outcome = "reading"

TypeOK ==
    /\ sheet \in 1 .. Len(workbook) + 1 /\ row \in Nat \ {0} /\ column \in Nat
    /\ firstRow \in BOOLEAN /\ totalRows <= MaxRows /\ totalCells <= MaxCells /\ Len(blocks) <= MaxBlocks
    /\ outcome \in {"reading", "parsed", "EVIDENCE_ROW_LIMIT", "EVIDENCE_CELL_COUNT_LIMIT", "EVIDENCE_COLUMN_LIMIT",
                    "EVIDENCE_BLOCK_LIMIT"}

------------------------------------------------------------------------------
Reading == outcome = "reading" /\ sheet <= Len(workbook)
Rows    == workbook[sheet]
Fails(error) == /\ outcome' = error
                /\ UNCHANGED <<workbook, sheet, row, column, headers, firstRow, totalRows, totalCells, cells, blocks>>

\* Mutant: columns are numbered from zero.
NextLetterFromZero(n) == n

\* Letters count from one: there is no zero among them.
NextLetter(n) == n - 1

\* excelColumnName: the letters of a column, the last one first found
ColumnName(n) ==
    LET value[d \in 0 .. n] == IF d = 0 THEN n ELSE IF value[d - 1] <= 0 THEN 0 ELSE NextLetter(value[d - 1]) \div Letters
        digits == {d \in 0 .. n : value[d] > 0}
    IN [d \in 1 .. Cardinality(digits) |-> NextLetter(value[Cardinality(digits) - d]) % Letters]

Address(c) == [name |-> ColumnName(c), row |-> row]

\* Rows of nothing are skipped and not counted.
BeginsRow ==
    /\ Reading /\ column = 0 /\ row <= Len(Rows)
    /\ IF \A n \in DOMAIN Rows[row] : Rows[row][n] = Empty
       THEN row' = row + 1 /\ UNCHANGED <<workbook, sheet, column, headers, firstRow, totalRows, totalCells, cells, blocks, outcome>>
       ELSE IF totalRows + 1 > MaxRows \/ row > MaxRows THEN Fails("EVIDENCE_ROW_LIMIT")
       ELSE /\ totalRows' = totalRows + 1 /\ column' = 1 /\ cells' = <<>>
            /\ UNCHANGED <<workbook, sheet, row, headers, firstRow, totalCells, blocks, outcome>>

\* Cells of nothing are skipped and not counted; of blanks, counted and skipped.
TakesCell ==
    /\ Reading /\ column > 0 /\ column <= Len(Rows[row])
    /\ LET text == Rows[row][column] IN
       CASE text = Empty -> column' = column + 1 /\ UNCHANGED <<totalCells, cells, outcome>>
         [] text # Empty /\ totalCells + 1 > MaxCells -> outcome' = "EVIDENCE_CELL_COUNT_LIMIT" /\ UNCHANGED <<column, totalCells, cells>>
         [] text # Empty /\ totalCells + 1 <= MaxCells /\ column > MaxColumns ->
               outcome' = "EVIDENCE_COLUMN_LIMIT" /\ UNCHANGED <<column, totalCells, cells>>
         [] OTHER -> /\ totalCells' = totalCells + 1 /\ column' = column + 1
                     /\ cells' = IF text = Blank THEN cells
                                 ELSE Append(cells, [address |-> Address(column), column |-> column, text |-> text])
                     /\ UNCHANGED outcome
    /\ UNCHANGED <<workbook, sheet, row, headers, firstRow, totalRows, blocks>>

\* Mutant: any row that is not empty is the header.
HeaderGoneAny == FALSE

\* A row of blanks is no header.
HeaderGone == IF cells = <<>> THEN firstRow ELSE FALSE

\* What stands before a cell's text: the header of its column, or its own address
Label(cell) ==
    IF cell.column \in DOMAIN headers /\ ~firstRow THEN [header |-> headers[cell.column]] ELSE [address |-> cell.address]

\* Mutant: the limit is looked at one block late.
BlocksFitLate(n) == n <= MaxBlocks

\* blockCollector.add
BlocksFit(n) == n < MaxBlocks

EndsRow ==
    /\ Reading /\ column > 0 /\ column > Len(Rows[row])
    /\ IF cells # <<>> /\ ~BlocksFit(Len(blocks)) THEN Fails("EVIDENCE_BLOCK_LIMIT")
       ELSE /\ headers' = IF firstRow /\ cells # <<>>
                          THEN [c \in {x.column : x \in ToSet(cells)} |-> (CHOOSE x \in ToSet(cells) : x.column = c).text]
                               @@ headers
                          ELSE headers
            /\ firstRow' = HeaderGone
            /\ blocks' = IF cells = <<>> THEN blocks
                         ELSE Append(blocks, [sheet |-> sheet, row |-> row,
                                cells |-> [n \in DOMAIN cells |-> [address |-> cells[n].address, label |-> Label(cells[n]),
                                                                   text |-> cells[n].text]]])
            /\ row' = row + 1 /\ column' = 0 /\ cells' = <<>>
            /\ UNCHANGED <<workbook, sheet, totalRows, totalCells, outcome>>

\* Mutant: headers stay for the sheets that follow.
FreshHeadersKept == headers

\* Each sheet has its own header.
FreshHeaders == <<>>

EndsSheet ==
    /\ Reading /\ column = 0 /\ row > Len(Rows)
    /\ sheet' = sheet + 1 /\ row' = 1 /\ headers' = FreshHeaders /\ firstRow' = TRUE
    /\ UNCHANGED <<workbook, column, totalRows, totalCells, cells, blocks, outcome>>

Ends ==
    /\ outcome = "reading" /\ sheet > Len(workbook) /\ outcome' = "parsed"
    /\ UNCHANGED <<workbook, sheet, row, column, headers, firstRow, totalRows, totalCells, cells, blocks>>

Next == BeginsRow \/ TakesCell \/ EndsRow \/ EndsSheet \/ Ends

Spec == Init /\ [][Next]_vars

------------------------------------------------------------------------------
HasText(s, r, c) == workbook[s][r][c] \notin {Empty, Blank}
RowHasText(s, r) == \E c \in DOMAIN workbook[s][r] : HasText(s, r, c)

\* Which column a name stands for
ColumnOf(name) == FoldLeft(LAMBDA n, digit : n * Letters + digit + 1, 0, name)

\* Every cell with a text is cited, and each citation leads to that cell.
CitationsLead ==
    /\ \A b \in ToSet(blocks) : \A x \in ToSet(b.cells) :
          /\ x.address.row = b.row /\ ColumnOf(x.address.name) \in DOMAIN workbook[b.sheet][b.row]
          /\ workbook[b.sheet][b.row][ColumnOf(x.address.name)] = x.text
    /\ outcome = "parsed" =>
          \A s \in DOMAIN workbook : \A r \in DOMAIN workbook[s] : \A c \in DOMAIN workbook[s][r] :
              HasText(s, r, c) =>
                  \E b \in ToSet(blocks) : b.sheet = s /\ b.row = r
                                           /\ \E x \in ToSet(b.cells) : ColumnOf(x.address.name) = c

\* A value is shown under no other header than that of its column: the text at its
\* column in the first row of its sheet that has any text, blanks before it or not.
HeadersMatch ==
    \A b \in ToSet(blocks) : \A x \in ToSet(b.cells) :
        LET header == Min({r \in DOMAIN workbook[b.sheet] : RowHasText(b.sheet, r)})
            c == ColumnOf(x.address.name)
            known == c \in DOMAIN workbook[b.sheet][header] /\ HasText(b.sheet, header, c)
        IN x.label = IF b.row # header /\ known THEN [header |-> workbook[b.sheet][header][c]] ELSE [address |-> x.address]
==============================================================================
