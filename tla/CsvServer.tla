------------------------------- MODULE CsvServer -------------------------------
(***************************************************************************)
(* A server whose clients keep a table in one file with the CSV tools      *)
(* (src/src/actions/csv.rs behind the gate of src/src/server.rs), one call *)
(* after another, and now and then use the file tools on it.  Calls that   *)
(* overlap are in ToolCalls.                                               *)
(***************************************************************************)
EXTENDS CsvTable, Dispatch

CONSTANTS
  NoFile,      \* the file does not exist
  MaxFileSize, \* max_file_size, in fields
  Flags,       \* the --enable-* switches the server may be started with
  Texts,       \* the files write_file may leave
  Headers,     \* the headers given to csv_create
  Names,       \* the column names given to the tools
  Values,      \* the cell values given to the tools
  Batches      \* the `rows` given to csv_create and csv_add_row

ASSUME CsvAssumption ==
  /\ Blank \in Fields /\ NoEnd \notin Nat
  /\ MaxPage \in Nat /\ MaxValues \in 0..MaxPage /\ MaxRange \in 0..MaxValues
  /\ NoFile \notin Seq(Seq(Fields))
  /\ Texts \subseteq Seq(Seq(Fields) \ {<<>>})
  /\ Headers \subseteq Seq(Fields) /\ Names \subseteq Fields /\ Values \subseteq Fields
  /\ \A items \in Batches : Len(items) \in Nat /\ \A i \in 1..Len(items) : IsItem(items[i])

VARIABLES
  enabled, \* server.enabled_categories
  mode,    \* server.access_mode
  file,    \* the file the calls are about
  call,    \* the last call: the tool, its arguments and the outcome
  tidy     \* history: the file comes from csv_create with distinct names
           \* and only CSV tools have written to it, completely

vars == <<enabled, mode, file, call, tidy>>

NoCall == [tool |-> "none", outcome |-> "ok"]

Init ==
  /\ enabled \in {EnabledCategories(flags) : flags \in Flags}
  /\ mode \in {"unrestricted", "readonly"}
  /\ file \in Texts \cup {NoFile}
  /\ call = NoCall
  /\ tidy = FALSE

-----------------------------------------------------------------------------
(***************************************************************************)
(* Outcomes.                                                               *)
(***************************************************************************)

May(request) == Gate(request.tool, enabled, mode) = "run"

Outcome(request, outcome) ==
  call' = [field \in DOMAIN request \cup {"outcome"} |->
             IF field = "outcome" THEN outcome ELSE request[field]]

Fail(request) == Outcome(request, "error") /\ UNCHANGED <<file, tidy>>

(* metadata().len() of read_csv_file *)
Size(records) == FoldSeq(LAMBDA record, n : n + Len(record), 0, records)

Readable == file # NoFile /\ Size(file) <= MaxFileSize

(* A tool that writes a table: it ends, or is answered with an error when  *)
(* the writer fails on the table, or the system on the write.              *)
Save(request, data, stillTidy) ==
  \/ /\ file' = Written(data)
     /\ Outcome(request, IF Writable(data) THEN "ok" ELSE "error")
     /\ tidy' = stillTidy
  \/ /\ file' \in Torn(Written(data))
     /\ Outcome(request, "torn")
     /\ tidy' = FALSE

(* read_csv_file, the change of the tool, write_csv_file.  Any of the      *)
(* system calls before the file is truncated may fail.                     *)
Rewrite(request, results) ==
  /\ May(request)
  /\ \/ Fail(request)
     \/ Readable /\ \E data \in results : Save(request, data, tidy)

Data == IF file = NoFile THEN Parse(<<>>) ELSE Parse(file)

-----------------------------------------------------------------------------
(***************************************************************************)
(* The CSV tools.                                                          *)
(***************************************************************************)

Columns == {[name |-> name] : name \in Names}
             \cup {[index |-> i] : i \in 0..Len(Data.headers)}

RowIndexes == 0..Len(Data.rows)

Distinct(headers) == IsInjective(headers)

(* The arrays among the items: csv_create takes rows of no other kind.     *)
ArraysOf(items) == [i \in 1..Len(items) |-> items[i].fields]

CsvCreate ==
  \E headers \in Headers, overwrite \in BOOLEAN,
     items \in {<<>>} \cup {b \in Batches : \A i \in 1..Len(b) : "fields" \in DOMAIN b[i]} :
    LET request == [tool |-> "csv_create", headers |-> headers, rows |-> ArraysOf(items)]
    IN /\ May(request)
       /\ \/ Fail(request)
          \/ /\ file = NoFile \/ overwrite
             /\ \E data \in Create(headers, ArraysOf(items)) :
                  Save(request, data, Distinct(headers))

CsvAddRow ==
  \E items \in Batches :
    Rewrite([tool |-> "csv_add_row", items |-> items], AddRows(Data, items))

CsvUpdateCell ==
  \E row \in RowIndexes, column \in Columns, value \in Values :
    Rewrite([tool |-> "csv_update_cell", row |-> row, column |-> column, value |-> value],
            UpdateCell(Data, row, column, value))

CsvRemoveRow ==
  \E row \in RowIndexes :
    Rewrite([tool |-> "csv_remove_row", row |-> row], RemoveRow(Data, row))

CsvAddColumn ==
  \E name \in Names, default \in Values :
    Rewrite([tool |-> "csv_add_column", name |-> name, default |-> default],
            AddColumn(Data, name, default))

CsvRemoveColumn ==
  \E column \in Columns :
    Rewrite([tool |-> "csv_remove_column", column |-> column],
            RemoveColumn(Data, column))

CsvRenameColumn ==
  \E old \in Names, new \in Names :
    Rewrite([tool |-> "csv_rename_column", old |-> old, new |-> new],
            RenameColumn(Data, old, new))

(* The four tools that read: what they answer is in CsvTable. *)
CsvReads ==
  \E tool \in CsvReadTools, outcome \in {"ok", "error"} :
    /\ May([tool |-> tool])
    /\ outcome = "ok" => Readable
    /\ Outcome([tool |-> tool], outcome)
    /\ UNCHANGED <<file, tidy>>

-----------------------------------------------------------------------------
(***************************************************************************)
(* The other tools, and the gate.                                          *)
(***************************************************************************)

WriteFile ==
  LET request == [tool |-> "write_file"]
  IN /\ May(request)
     /\ \/ Fail(request)
        \/ /\ file' \in Texts
           /\ \E outcome \in {"ok", "torn"} : Outcome(request, outcome)
           /\ tidy' = FALSE

DeleteFile ==
  LET request == [tool |-> "delete_file"]
  IN /\ May(request)
     /\ \/ Fail(request)
        \/ /\ file # NoFile
           /\ file' = NoFile
           /\ Outcome(request, "ok")
           /\ tidy' = FALSE

(* A name that is no tool, or no tool of this server; a tool that writes,  *)
(* on a server that only reads.                                            *)
Refuse ==
  \E tool \in CsvWriteTools \cup CsvReadTools \cup {"write_file", "delete_file", "other"} :
    /\ ~May([tool |-> tool])
    /\ Outcome([tool |-> tool], Gate(tool, enabled, mode))
    /\ UNCHANGED <<file, tidy>>

Next ==
  /\ \/ CsvCreate \/ CsvAddRow \/ CsvUpdateCell \/ CsvRemoveRow
     \/ CsvAddColumn \/ CsvRemoveColumn \/ CsvRenameColumn \/ CsvReads
     \/ WriteFile \/ DeleteFile \/ Refuse
  /\ UNCHANGED <<enabled, mode>>

Spec == Init /\ [][Next]_vars

-----------------------------------------------------------------------------
(***************************************************************************)
(* Properties.                                                             *)
(***************************************************************************)

(* Every record of a file has a field at least. *)
TypeOK ==
  /\ enabled \subseteq Categories
  /\ mode \in {"unrestricted", "readonly"}
  /\ file = NoFile \/ (file \in Seq(Seq(Fields)) /\ <<>> \notin Range(file))
  /\ {"tool", "outcome"} \subseteq DOMAIN call
  /\ tidy \in BOOLEAN

(* Whatever the CSV tools do to a table that csv_create made with distinct *)
(* names, every row keeps a field for each column and every name stays     *)
(* unique: the writer, which truncates the file before it looks at the     *)
(* rows, never meets one it cannot write.                                  *)
TidyStaysTidy ==
  tidy => /\ file # NoFile /\ file # <<>>
          /\ \A i \in 1..Len(file) : Len(file[i]) = Len(file[1])
          /\ Distinct(file[1])

(* The first k rows, or all of them. *)
First(rows, k) == SubSeq(rows, 1, IF k < Len(rows) THEN k ELSE Len(rows))

(* The reading tools agree on every file, ragged rows and doubled names    *)
(* included: what has been read and the next page of csv_read are what has *)
(* been read then, so that pages put together are the rows, row ranges     *)
(* that follow each other as well, and a column has the same values read   *)
(* by csv_read, csv_select_column_range and csv_read_column_values_range.  *)
(* A page that asks for too much is cut, and a range is read whole as long *)
(* as it is not too large.                                                 *)
ReadersAgree ==
  file # NoFile =>
    LET data == Parse(file)
        Starts == 0..Len(data.rows) + 1
    IN \A n \in 1..Len(data.rows) + 1, start \in Starts :
         /\ First(data.rows, start) \o ReadPage(data, start, n)
              = First(data.rows, start + AtMost(n, MaxPage))
         /\ n <= MaxRange => RowRange(data, start, start + n) = {ReadPage(data, start, n)}
         /\ \A name \in Names :
              LET pages == ReadColumnsPage(data, <<name>>, start, n)
              IN /\ n <= MaxRange =>
                      SelectColumnRange(data, <<name>>, start, start + n) = pages
                 /\ n <= MaxValues =>
                      ColumnValuesRange(data, name, start, start + n)
                        = {[r \in 1..Len(page) |-> page[r][1]] : page \in pages}

(* A server that only reads never changes a file, and a server changes one *)
(* only through a tool of a category it was started with.                  *)
ChangesAreEnabled ==
  [][file' # file =>
       mode = "unrestricted" /\ CategoryOf(call'.tool) \in enabled]_vars

(* The tools implement a table with named columns as long as the file is   *)
(* one they made: a call changes what it names, an error changes nothing.  *)
(* A table without columns stands for a file they did not make.            *)
NamedRow(record) == [name \in Range(file[1]) |-> record[ColumnOf(file[1], name)]]

NoTable == [columns |-> <<>>, rows |-> <<>>]

table ==
  IF tidy THEN [columns |-> file[1], rows |-> [r \in 1..Len(file) - 1 |-> NamedRow(file[r + 1])]]
  ELSE NoTable

Store == INSTANCE TableStore WITH op <- call

ImplementsTable == Store!Spec
=============================================================================
