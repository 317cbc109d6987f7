-------------------------------- MODULE Csv ---------------------------------
(***************************************************************************)
(* kst::csv::parse, one action per character, field end or record end.  The *)
(* input is a table written down by RFC 4180, or any short text.            *)
(***************************************************************************)
EXTENDS Integers, Sequences, SequencesExt, FiniteSets

CONSTANTS max_rows, max_columns, max_field_bytes,   \* csv::Limits
          Tables,    \* tables written down: non-empty sequences of records of fields
          Texts      \* other inputs

ASSUME CsvAssumption == {max_rows, max_columns, max_field_bytes} \subseteq Nat

ASSUME TablesAssumption ==
    \A table \in Tables :
        /\ table \in Seq(Seq(Seq(STRING))) /\ table # <<>>
        /\ \A n \in DOMAIN table :
              table[n] # <<>> /\ \A m \in DOMAIN table[n] : "eof" \notin Range(table[n][m])

VARIABLES
    written,  \* history: the table the input was written from, or None
    input,    \* the characters
    pos,      \* the next one
    scan,     \* where read_row stands
    field,    \* the field being read
    row,      \* the fields of the record so far
    records,  \* the header, and the rows after it
    outcome   \* "" while reading, "ok", or the error

csv == <<written, input, pos, scan, field, row, records, outcome>>

Quotation == "quote"
Comma == "comma"
CR == "cr"
LF == "lf"
None == <<>>

Char(n) == IF n <= Len(input) THEN input[n] ELSE "eof"

\* RFC 4180: how a table is written, with its fields quoted where they have to
\* be or always, with either line end, with or without the last one.
WrittenField(f, always) ==
    IF always \/ Range(f) \cap {Quotation, Comma, CR, LF} # {}
      THEN <<Quotation>>
           \o FlattenSeq([n \in DOMAIN f |-> IF f[n] = Quotation
                                               THEN <<Quotation, Quotation>>
                                               ELSE <<f[n]>>])
           \o <<Quotation>>
      ELSE f

Join(parts, separator) ==
    FlattenSeq([n \in DOMAIN parts |-> IF n = 1 THEN parts[n] ELSE separator \o parts[n]])

Write(table, always, end, last) ==
    LET Line(r) == Join([n \in DOMAIN r |-> WrittenField(r[n], always)], <<Comma>>)
    IN  Join([n \in DOMAIN table |-> Line(table[n])], end)
        \o IF last THEN end ELSE <<>>

CsvUnread ==
    /\ written = None
    /\ input = <<>>
    /\ pos = 1
    /\ scan = "record"
    /\ field = <<>>
    /\ row = <<>>
    /\ records = <<>>
    /\ outcome = ""

CsvLeft ==
    /\ written' = None
    /\ input' = <<>>
    /\ pos' = 1
    /\ scan' = "record"
    /\ field' = <<>>
    /\ row' = <<>>
    /\ records' = <<>>
    /\ outcome' = ""

\* The parser is given its input.
CsvGiven ==
    /\ \/ \E table \in Tables, always, last \in BOOLEAN, end \in {<<LF>>, <<CR, LF>>} :
             /\ written' = table
             /\ input' = Write(table, always, end, last)
       \/ /\ input' \in Texts
          /\ UNCHANGED written
    /\ UNCHANGED <<pos, scan, field, row, records, outcome>>
-----------------------------------------------------------------------------
(* read_row                                                                 *)

Take(c, n) ==
    /\ field' = Append(field, c)
    /\ pos' = pos + n

Measured == Len(field) + 1 > max_field_bytes

CsvError(what) ==
    /\ outcome' = what
    /\ UNCHANGED <<written, input, pos, scan, field, row, records>>

BeginField ==
    /\ \/ scan = "record" /\ pos <= Len(input)
       \/ scan = "field"
    /\ scan' = IF Char(pos) = Quotation THEN "quoted" ELSE "plain"
    /\ pos' = IF Char(pos) = Quotation THEN pos + 1 ELSE pos
    /\ UNCHANGED <<written, input, field, row, records, outcome>>

Delimiter == {Comma, CR, LF, "eof"}

TakePlain ==
    /\ scan = "plain"
    /\ Char(pos) \notin Delimiter
    /\ Take(Char(pos), 1)
    /\ outcome' = IF Measured THEN "field too long" ELSE outcome
    /\ UNCHANGED <<written, input, scan, row, records>>

TakeQuoted ==
    /\ scan = "quoted"
    /\ Char(pos) \notin {Quotation, "eof"}
    /\ Take(Char(pos), 1)
    /\ outcome' = IF Measured THEN "field too long" ELSE outcome
    /\ UNCHANGED <<written, input, scan, row, records>>

TakeQuoteOnce ==
    /\ scan = "quoted"
    /\ Char(pos) = Quotation /\ Char(pos + 1) = Quotation
    /\ Take(Quotation, 1)
    /\ UNCHANGED <<written, input, scan, row, records, outcome>>

\* A doubled quote: taken without a look at the length.
TakeQuote ==
    /\ scan = "quoted"
    /\ Char(pos) = Quotation /\ Char(pos + 1) = Quotation
    /\ Take(Quotation, 2)
    /\ UNCHANGED <<written, input, scan, row, records, outcome>>

CloseQuote ==
    /\ scan = "quoted"
    /\ Char(pos) = Quotation /\ Char(pos + 1) # Quotation
    /\ pos' = pos + 1
    /\ scan' = "closed"
    /\ UNCHANGED <<written, input, field, row, records, outcome>>

Unterminated ==
    /\ scan = "quoted"
    /\ Char(pos) = "eof"
    /\ CsvError("unterminated quoted field")

EndField ==
    /\ scan = "closed" \/ (scan = "plain" /\ Char(pos) \in Delimiter)
    /\ row' = Append(row, field)
    /\ field' = <<>>
    /\ outcome' = IF Len(row) + 1 > max_columns THEN "too many columns" ELSE outcome
    /\ scan' = IF Char(pos) = Comma THEN "field" ELSE "row"
    /\ pos' = IF Char(pos) = Comma THEN pos + 1 ELSE pos
    /\ UNCHANGED <<written, input, records>>

\* The end of the line; parse drops a blank one, and counts rows but not the header.
EndRow ==
    /\ scan = "row"
    /\ LET p == IF Char(pos) = CR THEN pos + 1 ELSE pos
       IN  pos' = IF Char(p) = LF THEN p + 1 ELSE p
    /\ records' = IF row = <<<<>>>> THEN records ELSE Append(records, row)
    /\ outcome' = IF Len(records') - 1 > max_rows THEN "too many rows" ELSE outcome
    /\ row' = <<>>
    /\ scan' = "record"
    /\ UNCHANGED <<written, input, field>>

EndInput ==
    /\ scan = "record"
    /\ pos > Len(input)
    /\ outcome' = IF records = <<>> THEN "no header row" ELSE "ok"
    /\ UNCHANGED <<written, input, pos, scan, field, row, records>>

CsvNext ==
    /\ outcome = ""
    /\ \/ BeginField
       \/ TakePlain
       \/ TakeQuoted
       \/ TakeQuote
       \/ CloseQuote
       \/ Unterminated
       \/ EndField
       \/ EndRow
       \/ EndInput
-----------------------------------------------------------------------------
\* The table without the records of one empty field, which may be blank lines.
Recorded(table) ==
    FlattenSeq([n \in DOMAIN table |-> IF table[n] = <<<<>>>> THEN <<>> ELSE <<table[n]>>])

\* A header is there, and every limit is kept, blank lines counted as rows.
WithinLimits(table) ==
    /\ Recorded(table) # <<>> /\ Len(table) - 1 <= max_rows
    /\ \A r \in Range(table) :
          Len(r) <= max_columns /\ \A f \in Range(r) : Len(f) <= max_field_bytes

\* A limit is exceeded, and not by quotation marks alone.
BeyondLimits(table) ==
    \/ Len(table) - 1 > max_rows
    \/ \E r \in Range(table) :
          \/ Len(r) > max_columns
          \/ \E f \in Range(r) : \E n \in DOMAIN f : n > max_field_bytes /\ f[n] # Quotation

\* A table written down by RFC 4180, in any of its spellings, is read back record
\* by record and field by field (csv.hpp: "Quoted fields, doubled quotes, and
\* embedded newlines are handled per RFC 4180"); it is accepted if it is within the
\* limits and refused, never cut short, if it exceeds one ("exceeding one is a clean
\* error").  Left open, for there the code and csv.hpp differ: the refusal of a field
\* too long by its quotation marks only, and a record of one empty field, which is
\* kept or dropped.
CsvReadsItsTable ==
    written # None /\ outcome # "" =>
        /\ outcome = "ok" => records \in {written, Recorded(written)}
        /\ WithinLimits(written) => outcome = "ok"
        /\ BeyondLimits(Recorded(written)) => outcome # "ok"
=============================================================================
