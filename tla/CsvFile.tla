------------------------------- MODULE CsvFile -------------------------------
(***************************************************************************)
(* The file of a bulk import (src/platform/files): parseCsv reads a text   *)
(* of comma-separated records, one turn of its loop per step, and          *)
(* readCsvFile names the cells of each row by the columns of the header.   *)
(* The characters that matter are the comma, the quote and the two line    *)
(* ends; the rest stand for themselves, and none is a space.               *)
(*                                                                         *)
(* The texts are those a program writes for some records: each field       *)
(* quoted or, where it may, bare; each record ended in LF, CRLF or CR, the *)
(* last one perhaps by nothing; and empty lines in between.                *)
(***************************************************************************)
EXTENDS Naturals, Sequences, SequencesExt

CONSTANTS
  Documents,   \* sequences of records, each a sequence of fields, each a sequence of characters; <<>> is an empty line
  LineEnds,    \* sets of how the lines end
  Columns, Required, MaxRows

ASSUME CsvFileAssumption == Required \subseteq Columns /\ MaxRows \in Nat

COMMA == ","
QUOTE == "\""
LF == "n"
CR == "r"
Special == {COMMA, QUOTE, LF, CR}

-----------------------------------------------------------------------------
(* A writer, as RFC 4180 has it. *)

Doubled(field) == FlattenSeq([n \in DOMAIN field |-> IF field[n] = QUOTE THEN <<QUOTE, QUOTE>> ELSE <<field[n]>>])
MustQuote(field) == \E n \in DOMAIN field : field[n] \in Special
Written(field, quote) == IF quote \/ MustQuote(field) THEN <<QUOTE>> \o Doubled(field) \o <<QUOTE>> ELSE field
Joined(record, quote) ==
  FlattenSeq([n \in DOMAIN record |-> (IF n = 1 THEN <<>> ELSE <<COMMA>>) \o Written(record[n], quote)])
Text(document, quote, end, last) ==
  FlattenSeq([n \in DOMAIN document |-> Joined(document[n], quote) \o (IF n = Len(document) /\ ~last THEN <<>> ELSE end)])

\* The line ends of a record: in its fields CRLF counts once, and so do LF and CR alone.
Breaks(chars) == Len(SelectSeq([n \in DOMAIN chars |-> chars[n] = CR \/ (chars[n] = LF /\ (n = 1 \/ chars[n - 1] # CR))], LAMBDA b : b))
BreaksIn(record) == FoldLeft(LAMBDA n, field : n + Breaks(field), 0, record)

VARIABLES
  written,                               \* the document, and whether the end of its text was cut, within a quoted field
  text, pos, fields, field, quoted, line, recordLine, records,
  csv                                    \* "parsing", "malformed", "parsed", or the answer of readCsvFile

parserVars == <<pos, fields, field, quoted, line, recordLine, records>>
csvVars == <<written, text, parserVars, csv>>

CsvBegin(document, cut, chars) ==
  /\ written = [document |-> document, cut |-> cut] /\ text = chars
  /\ pos = 1 /\ fields = <<>> /\ field = <<>> /\ quoted = FALSE /\ line = 1 /\ recordLine = 1 /\ records = <<>>
  /\ csv = "parsing"

CsvInit ==
  \E document \in Documents, quote \in BOOLEAN, end \in LineEnds, last \in BOOLEAN :
    LET chars == Text(document, quote, end, last) IN
    \/ CsvBegin(document, FALSE, chars)
    \/ quote /\ ~last /\ Last(document) # <<>> /\ CsvBegin(document, TRUE, Front(chars))

-----------------------------------------------------------------------------
(* parseCsv. *)

At(n) == IF n \in DOMAIN text THEN text[n] ELSE ""
lineEnd == At(pos) \in {LF, CR}
crlf == At(pos) = CR /\ At(pos + 1) = LF
width == IF crlf THEN 2 ELSE 1

\* An empty line is no record.
withRecord == LET all == Append(fields, field) IN IF all = <<<<>>>> THEN records ELSE Append(records, [line |-> recordLine, fields |-> all])
endRecord == records' = withRecord /\ fields' = <<>> /\ field' = <<>>

Turn == csv = "parsing" /\ pos <= Len(text) /\ UNCHANGED <<written, text, csv>>

doubledQuote ==
  /\ Turn /\ quoted /\ At(pos) = QUOTE /\ At(pos + 1) = QUOTE
  /\ field' = Append(field, QUOTE) /\ pos' = pos + 2
  /\ UNCHANGED <<fields, quoted, line, recordLine, records>>

closeQuote ==
  /\ Turn /\ quoted /\ At(pos) = QUOTE /\ At(pos + 1) # QUOTE
  /\ quoted' = FALSE /\ pos' = pos + 1
  /\ UNCHANGED <<fields, field, line, recordLine, records>>

\* Mutant: CRLF within quotes counts as two lines.
lineAfterTwice == line + (IF lineEnd THEN width ELSE 0)
lineAfter == IF lineEnd THEN line + 1 ELSE line
quotedChar ==
  /\ Turn /\ quoted /\ At(pos) # QUOTE
  /\ field' = field \o SubSeq(text, pos, pos + width - 1) /\ line' = lineAfter /\ pos' = pos + width
  /\ UNCHANGED <<fields, quoted, recordLine, records>>

bareChar ==
  /\ Turn /\ ~quoted
  /\ CASE At(pos) = QUOTE -> quoted' = TRUE /\ pos' = pos + 1 /\ UNCHANGED <<fields, field, line, recordLine, records>>
       [] At(pos) = COMMA -> /\ fields' = Append(fields, field) /\ field' = <<>> /\ pos' = pos + 1
                           /\ UNCHANGED <<quoted, line, recordLine, records>>
       [] lineEnd -> endRecord /\ line' = line + 1 /\ recordLine' = line' /\ pos' = pos + width /\ UNCHANGED quoted
       [] OTHER -> field' = Append(field, At(pos)) /\ pos' = pos + 1 /\ UNCHANGED <<fields, quoted, line, recordLine, records>>

endText ==
  /\ csv = "parsing" /\ pos > Len(text)
  /\ csv' = IF quoted THEN "malformed" ELSE "parsed"
  /\ IF ~quoted /\ (field # <<>> \/ fields # <<>>) THEN endRecord ELSE UNCHANGED <<records, fields, field>>
  /\ UNCHANGED <<written, text, pos, quoted, line, recordLine>>

-----------------------------------------------------------------------------
(* readCsvFile. *)

\* columnsOf: every column known, none twice, and the required ones there.
columnsOf(header) ==
  /\ \A n \in DOMAIN header : header[n] \in Columns
  /\ \A n, m \in DOMAIN header : header[n] = header[m] => n = m
  /\ Required \subseteq {header[n] : n \in DOMAIN header}

Cell(row, n) == IF n \in DOMAIN row.fields THEN row.fields[n] ELSE <<>>
\* A row with its cells by column; <<>> for the columns the file has not.
readRow(header, row) ==
  [line |-> row.line, wellFormed |-> Len(row.fields) = Len(header),
   cells |-> [c \in Columns |-> IF \E n \in DOMAIN header : header[n] = c
                                THEN Cell(row, CHOOSE n \in DOMAIN header : header[n] = c) ELSE <<>>]]

readCsvFile ==
  /\ csv = "parsed"
  /\ csv' = IF records = <<>> THEN "emptyFile"
            ELSE IF ~columnsOf(records[1].fields) THEN "columns"
            ELSE IF Len(records) = 1 THEN "emptyFile"
            ELSE IF Len(records) - 1 > MaxRows THEN "tooManyRows"
            ELSE "read"
  /\ records' = IF csv' = "read" THEN [n \in 1..(Len(records) - 1) |-> readRow(records[1].fields, records[n + 1])] ELSE records
  /\ UNCHANGED <<written, text, pos, fields, field, quoted, line, recordLine>>

CsvNext == doubledQuote \/ closeQuote \/ quotedChar \/ bareChar \/ endText \/ readCsvFile
CsvSpec == CsvInit /\ [][CsvNext]_csvVars

-----------------------------------------------------------------------------
(* Properties. *)

\* Not an empty line, nor one whose only field is empty, which reads the same.
IsRecord(record) == record \notin {<<>>, <<<<>>>>}
LineOf(n) == 1 + FoldLeft(LAMBDA sum, record : sum + 1 + BreaksIn(record), 0, SubSeq(written.document, 1, n - 1))
Numbered == [n \in DOMAIN written.document |-> [line |-> LineOf(n), fields |-> written.document[n]]]
Expected == SelectSeq(Numbered, LAMBDA r : IsRecord(r.fields))

\* What a program wrote reads back the same, whatever its quoting and line ends and whatever its fields hold: the same
\* records, each with the line where it begins; a text that ends within quotes is refused, and no other is.
ReadsAsWritten ==
  /\ csv = "malformed" => written.cut
  /\ csv # "parsing" /\ written.cut => csv = "malformed"
  /\ csv = "parsed" => records = Expected

\* Each cell of a file that is read is the one under its column, in any order of the columns, and a row that has more
\* or fewer cells is told.
CellsUnderColumns ==
  csv = "read" =>
    LET header == Expected[1].fields  rows == Tail(Expected) IN
    /\ Len(records) = Len(rows)
    /\ \A n \in DOMAIN rows :
         /\ records[n].line = rows[n].line /\ records[n].wellFormed = (Len(rows[n].fields) = Len(header))
         /\ \A k \in DOMAIN header \cap DOMAIN rows[n].fields : records[n].cells[header[k]] = rows[n].fields[k]

\* The rows of an import are those of its file.
FilesReadAsWritten == ReadsAsWritten /\ CellsUnderColumns
=============================================================================
