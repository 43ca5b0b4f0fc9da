------------------------------- MODULE CsvTable -------------------------------
(***************************************************************************)
(* What the CSV tools (src/src/actions/csv.rs) compute: the table a file   *)
(* holds, each tool's change to it, the records that reach the disk, and   *)
(* the ranges the reading tools cut out.                                   *)
(*                                                                         *)
(* A file is the sequence of its records and a record the sequence of its  *)
(* fields; the first record is the header.  The csv crate is external: it  *)
(* reads records of any length (flexible) and writes records of one length *)
(* only.  An operator that can refuse its arguments returns the set of its *)
(* results, which is empty when it refuses.                                *)
(***************************************************************************)
EXTENDS Naturals, Sequences, FiniteSets, SequencesExt, FiniteSetsExt, Functions

CONSTANTS
  Blank,     \* the field without text
  NoEnd,     \* an `end` that is not given
  MaxPage,   \* how many rows csv_read returns (10 000)
  MaxRange,  \* and the tools that read a range of rows (100)
  MaxValues  \* and csv_read_column_values_range (1 000)

Fields == STRING

-----------------------------------------------------------------------------
(***************************************************************************)
(* Reading: parse_csv, find_column, resolve_column.                        *)
(***************************************************************************)

(* parse_csv *)
Parse(file) ==
  IF file = <<>> THEN [headers |-> <<>>, rows |-> <<>>]
  ELSE [headers |-> Head(file), rows |-> Tail(file)]

(* column_map: of two columns with one name, the last is found. *)
Positions(headers, name) == {i \in 1..Len(headers) : headers[i] = name}
HasColumn(headers, name) == Positions(headers, name) # {}
ColumnOf(headers, name) == Max(Positions(headers, name))

(* find_column *)
FindColumn(headers, name) ==
  {i \in Positions(headers, name) : \A j \in Positions(headers, name) : j <= i}

(* resolve_column: `column`, else the zero-based `columnIndex`. *)
ResolveColumn(headers, column) ==
  IF "name" \in DOMAIN column THEN FindColumn(headers, column.name)
  ELSE {column.index + 1} \cap 1..Len(headers)

(* row.get(i).unwrap_or_default() *)
Field(row, i) == IF i <= Len(row) THEN row[i] ELSE Blank

Blanks(n) == [i \in 1..n |-> Blank]

-----------------------------------------------------------------------------
(***************************************************************************)
(* The tools that change a table.  Rows are counted from zero.             *)
(***************************************************************************)

(* csv_create: the whole table is in the arguments. *)
Create(headers, rows) ==
  IF headers # <<>> /\ \A i \in 1..Len(rows) : Len(rows[i]) = Len(headers)
    THEN {[headers |-> headers, rows |-> rows]}
    ELSE {}

(* An item of `rows`: an array or an object of text. *)
IsItem(item) ==
  \/ DOMAIN item = {"fields"} /\ item.fields \in Seq(Fields)
  \/ DOMAIN item = {"object"} /\ \A name \in DOMAIN item.object : item.object[name] \in Fields

(* Mutant: the length of an array is not compared. *)
FitsAnyLength(headers, item) ==
  \/ "fields" \in DOMAIN item
  \/ "object" \in DOMAIN item
       /\ \A name \in DOMAIN item.object : HasColumn(headers, name)

(* add_rows_from_args: an item is an array of fields or an object, of      *)
(* which every key must be a column.                                       *)
Fits(headers, item) ==
  \/ "fields" \in DOMAIN item /\ Len(item.fields) = Len(headers)
  \/ "object" \in DOMAIN item
       /\ \A name \in DOMAIN item.object : HasColumn(headers, name)

RowOf(headers, item) ==
  IF "fields" \in DOMAIN item THEN item.fields
  ELSE [i \in 1..Len(headers) |->
          IF headers[i] \in DOMAIN item.object /\ i = ColumnOf(headers, headers[i])
            THEN item.object[headers[i]] ELSE Blank]

AddRows(data, items) ==
  IF items # <<>> /\ \A i \in 1..Len(items) : Fits(data.headers, items[i])
    THEN {[data EXCEPT !.rows =
             @ \o [i \in 1..Len(items) |-> RowOf(data.headers, items[i])]]}
    ELSE {}

(* csv_update_cell: a row too short for the column is first filled up to   *)
(* the header.                                                             *)
UpdateCell(data, row, column, value) ==
  {[data EXCEPT !.rows[row + 1] =
      [(IF i <= Len(@) THEN @ ELSE @ \o Blanks(Len(data.headers) - Len(@)))
         EXCEPT ![i] = value]] :
     i \in IF row < Len(data.rows) THEN ResolveColumn(data.headers, column) ELSE {}}

(* csv_remove_row *)
RemoveRow(data, row) ==
  IF row < Len(data.rows)
    THEN {[data EXCEPT !.rows = RemoveAt(@, row + 1)]} ELSE {}

(* Mutant: the default value is put in front of the row. *)
AddColumnFront(data, name, default) ==
  IF HasColumn(data.headers, name) THEN {}
  ELSE {[headers |-> Append(data.headers, name),
         rows |-> [r \in 1..Len(data.rows) |-> <<default>> \o data.rows[r]]]}

(* csv_add_column: every row gets the default value at its end. *)
AddColumn(data, name, default) ==
  IF HasColumn(data.headers, name) THEN {}
  ELSE {[headers |-> Append(data.headers, name),
         rows |-> [r \in 1..Len(data.rows) |-> Append(data.rows[r], default)]]}

(* csv_remove_column *)
RemoveColumn(data, column) ==
  {[headers |-> RemoveAt(data.headers, i),
    rows |-> [r \in 1..Len(data.rows) |->
                IF i <= Len(data.rows[r]) THEN RemoveAt(data.rows[r], i)
                ELSE data.rows[r]]] :
     i \in ResolveColumn(data.headers, column)}

(* csv_rename_column *)
RenameColumn(data, old, new) ==
  IF HasColumn(data.headers, new) /\ old # new THEN {}
  ELSE {[data EXCEPT !.headers[i] = new] : i \in FindColumn(data.headers, old)}

-----------------------------------------------------------------------------
(***************************************************************************)
(* Writing: write_csv_file and the writer it drops.                        *)
(***************************************************************************)

Records(data) == <<data.headers>> \o data.rows

(* The writer takes the length of the first record and fails on the first  *)
(* record of another length.                                               *)
OddRecords(data) ==
  {i \in 1..Len(data.rows) + 1 : Len(Records(data)[i]) # Len(data.headers)}

Writable(data) == OddRecords(data) = {}

(* Mutant: a record without fields leaves an empty line. *)
OnDiskEmpty(record) == record

(* A record without fields, or of one blank field, is written as "": one   *)
(* blank field.                                                            *)
OnDisk(record) == IF record = <<>> THEN <<Blank>> ELSE record

(* The fields of the record it fails on are in its buffer, which dropping  *)
(* the writer flushes.  Without an end of line, blank lines are not there. *)
Unfinished(record) == IF record \in {<<>>, <<Blank>>} THEN <<>> ELSE <<record>>

(* The file after write_csv_file: all records, or those up to the failure. *)
Written(data) ==
  IF Writable(data) THEN [i \in 1..Len(data.rows) + 1 |-> OnDisk(Records(data)[i])]
  ELSE LET odd == Min(OddRecords(data))
       IN [i \in 1..odd - 1 |-> OnDisk(Records(data)[i])]
            \o Unfinished(Records(data)[odd])

(* What the bytes of a record can read as when its end is missing: some of *)
(* its fields, the last one perhaps cut short.                             *)
Cut(record) ==
  {Unfinished(SubSeq(record, 1, k)) : k \in 0..Len(record)}
    \cup {Unfinished(Append(SubSeq(record, 1, k), Blank)) : k \in 0..Len(record) - 1}

(* The file when a write fails or the process ends in the middle of it.    *)
Torn(file) ==
  {file} \cup UNION {{SubSeq(file, 1, n) \o rest : rest \in Cut(file[n + 1])} :
                     n \in 0..Len(file) - 1}

-----------------------------------------------------------------------------
(***************************************************************************)
(* The reading tools.                                                      *)
(***************************************************************************)

(* Mutant: the last row of the range is left out. *)
SliceShort(rows, start, count) ==
  SubSeq(rows, start + 1, IF start + count < Len(rows) THEN start + count - 1 ELSE Len(rows))

(* rows.skip(start).take(count) *)
Slice(rows, start, count) ==
  SubSeq(rows, start + 1, IF start + count < Len(rows) THEN start + count ELSE Len(rows))

Project(row, positions) == [k \in 1..Len(positions) |-> Field(row, positions[k])]

(* The positions of the named columns; the empty set when one is missing. *)
ColumnsOf(headers, names) ==
  IF \A k \in 1..Len(names) : HasColumn(headers, names[k])
    THEN {[k \in 1..Len(names) |-> ColumnOf(headers, names[k])]} ELSE {}

AtMost(n, most) == IF n < most THEN n ELSE most

(* csv_read without `columns`, and with: a larger limit is cut. *)
ReadPage(data, offset, limit) == Slice(data.rows, offset, AtMost(limit, MaxPage))

ReadColumnsPage(data, names, offset, limit) ==
  LET rows == ReadPage(data, offset, limit)
  IN {[r \in 1..Len(rows) |-> Project(rows[r], positions)] :
        positions \in ColumnsOf(data.headers, names)}

(* The checks of a range before the file is read: a larger one is refused. *)
GoodRange(start, end, most) == end = NoEnd \/ (start <= end /\ end - start <= most)

(* How many rows a range has: `otherwise` when it has no end. *)
Extent(start, end, otherwise) == IF end = NoEnd THEN otherwise ELSE end - start

(* csv_read_row_range: one row unless `end` is given. *)
RowRange(data, start, end) ==
  IF GoodRange(start, end, MaxRange) THEN {Slice(data.rows, start, Extent(start, end, 1))}
  ELSE {}

(* csv_select_column_range: all rows unless `end` is given. *)
SelectColumnRange(data, names, start, end) ==
  LET rows == Slice(data.rows, start, Extent(start, end, Len(data.rows)))
  IN IF names = <<>> \/ ~GoodRange(start, end, MaxRange) THEN {}
     ELSE {[r \in 1..Len(rows) |-> Project(rows[r], positions)] :
             positions \in ColumnsOf(data.headers, names)}

(* csv_read_column_values_range: all rows unless `end` is given. *)
ColumnValuesRange(data, name, start, end) ==
  LET rows == Slice(data.rows, start, Extent(start, end, Len(data.rows)))
  IN IF ~GoodRange(start, end, MaxValues) THEN {}
     ELSE {[r \in 1..Len(rows) |-> Field(rows[r], i)] : i \in FindColumn(data.headers, name)}
=============================================================================
