------------------------------ MODULE TableStore ------------------------------
(***************************************************************************)
(* What the CSV tools promise of a table they made: rows that give every   *)
(* named column a value, of which a call changes the ones it names.  A     *)
(* call that is answered with an error leaves the table as it is.          *)
(***************************************************************************)
EXTENDS Naturals, Sequences, SequencesExt, Functions

CONSTANTS
  NoTable, \* there is no file, or one the CSV tools do not answer for
  Blank    \* the value without text

VARIABLES
  table, \* the table: its columns in order, and per row a value for each
  op     \* the last call and its outcome

vars == <<table, op>>

Init == table = NoTable /\ op = [tool |-> "none", outcome |-> "ok"]

-----------------------------------------------------------------------------
Position(columns, name) == CHOOSE i \in 1..Len(columns) : columns[i] = name

Row(columns, fields) == [name \in Range(columns) |-> fields[Position(columns, name)]]

TableOf(columns, rows) ==
  [columns |-> columns, rows |-> [r \in 1..Len(rows) |-> Row(columns, rows[r])]]

(* The rows of a call: fields in the order of the columns, or by name. *)
Given(columns, item) ==
  IF "fields" \in DOMAIN item THEN Row(columns, item.fields)
  ELSE [name \in Range(columns) |->
          IF name \in DOMAIN item.object THEN item.object[name] ELSE Blank]

(* A row with one more name, with one less, with one in place of another,  *)
(* and with none.                                                          *)
With(row, name, value) ==
  [n \in DOMAIN row \cup {name} |-> IF n = name THEN value ELSE row[n]]

Without(row, name) == [n \in DOMAIN row \ {name} |-> row[n]]

Relabelled(row, old, new) ==
  [name \in {IF n = old THEN new ELSE n : n \in DOMAIN row} |->
     row[IF name = new THEN old ELSE name]]

Empty == [name \in {Blank} |-> Blank]

Called(tool) == table # NoTable /\ op'.tool = tool /\ op'.outcome = "ok"

(* The column a call names, or gives the number of. *)
Named(column) ==
  IF "name" \in DOMAIN column THEN column.name ELSE table.columns[column.index + 1]

Fails == op'.outcome \in {"error", "notFound", "readOnly"} /\ UNCHANGED table

Reads ==
  /\ op'.tool \in {"csv_read", "csv_read_row_range", "csv_select_column_range",
                   "csv_read_column_values_range"}
  /\ UNCHANGED table

(* A full disk, a killed server, or another tool. *)
Loses ==
  /\ op'.outcome = "torn" \/ op'.tool \in {"write_file", "delete_file"}
  /\ table' = NoTable

NotOurs == table = NoTable /\ op'.tool # "csv_create" /\ UNCHANGED table

Creates ==
  /\ op'.tool = "csv_create" /\ op'.outcome = "ok"
  /\ table' = IF IsInjective(op'.headers) THEN TableOf(op'.headers, op'.rows) ELSE NoTable

AddsRows ==
  /\ Called("csv_add_row")
  /\ table' = [table EXCEPT !.rows =
                 @ \o [i \in 1..Len(op'.items) |-> Given(table.columns, op'.items[i])]]

UpdatesCell ==
  /\ Called("csv_update_cell")
  /\ table' = [table EXCEPT !.rows[op'.row + 1][Named(op'.column)] = op'.value]

RemovesRow ==
  /\ Called("csv_remove_row")
  /\ table' = [table EXCEPT !.rows = RemoveAt(@, op'.row + 1)]

AddsColumn ==
  /\ Called("csv_add_column")
  /\ table' = [columns |-> Append(table.columns, op'.name),
               rows |-> [r \in 1..Len(table.rows) |->
                           With(table.rows[r], op'.name, op'.default)]]

(* A table keeps a column: without its last one it has one without a name  *)
(* or values.                                                              *)
RemovesColumn ==
  /\ Called("csv_remove_column")
  /\ LET gone == Named(op'.column)
     IN table' =
          IF Len(table.columns) = 1
            THEN [columns |-> <<Blank>>, rows |-> [r \in 1..Len(table.rows) |-> Empty]]
            ELSE [columns |-> RemoveAt(table.columns, Position(table.columns, gone)),
                  rows |-> [r \in 1..Len(table.rows) |-> Without(table.rows[r], gone)]]

RenamesColumn ==
  /\ Called("csv_rename_column")
  /\ table' = [columns |-> [i \in 1..Len(table.columns) |->
                              IF table.columns[i] = op'.old THEN op'.new ELSE table.columns[i]],
               rows |-> [r \in 1..Len(table.rows) |->
                           Relabelled(table.rows[r], op'.old, op'.new)]]

Next ==
  \/ Fails \/ Reads \/ Loses \/ NotOurs \/ Creates \/ AddsRows \/ UpdatesCell
  \/ RemovesRow \/ AddsColumn \/ RemovesColumn \/ RenamesColumn

Spec == Init /\ [][Next]_vars
=============================================================================
