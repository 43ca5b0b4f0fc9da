---------------------------- MODULE CsvServerProofs ----------------------------
(***************************************************************************)
(* What the CSV tools keep of a table they made, and what a server may     *)
(* change, for any names, values, files and switches.                      *)
(***************************************************************************)
EXTENDS CsvServer, WellFoundedInduction, TLAPS

-----------------------------------------------------------------------------
(***************************************************************************)
(* A clean table: a field in every row for each of its columns, which have *)
(* different names.  Every tool makes a clean table of a clean one.        *)
(***************************************************************************)

Table == [headers : Seq(Fields), rows : Seq(Seq(Fields))]

Clean(data) ==
  /\ data \in Table
  /\ \A r \in 1..Len(data.rows) : Len(data.rows[r]) = Len(data.headers)
  /\ Distinct(data.headers)

(* The file of such a table. *)
CleanFile(records) ==
  /\ records \in Seq(Seq(Fields)) /\ records # <<>>
  /\ \A i \in 1..Len(records) : Len(records[i]) = Len(records[1])
  /\ Distinct(records[1])

LEMMA OneField ==
  ASSUME NEW field \in Fields
  PROVE  <<field>> \in Seq(Fields) /\ Len(<<field>>) = 1 /\ Distinct(<<field>>)
BY DEF Distinct, IsInjective

LEMMA Repeated ==
  ASSUME NEW S, NEW e \in S, NEW n \in Nat
  PROVE  /\ [i \in 1..n |-> e] \in Seq(S) /\ Len([i \in 1..n |-> e]) = n
         /\ \A i \in 1..n : [j \in 1..n |-> e][i] = e
OBVIOUS

LEMMA ParsedIsClean ==
  ASSUME NEW records, CleanFile(records)
  PROVE  Clean(Parse(records))
BY DEF CleanFile, Clean, Parse, Table, Distinct, IsInjective

LEMMA CreatedIsClean ==
  ASSUME NEW headers \in Seq(Fields), NEW rows \in Seq(Seq(Fields)), Distinct(headers),
         NEW data \in Create(headers, rows)
  PROVE  Clean(data)
BY DEF Create, Clean, Table

(* No record is odd. *)
LEMMA CleanIsWritable ==
  ASSUME NEW data, Clean(data)
  PROVE  Writable(data)
BY DEF Writable, OddRecords, Records, Clean, Table

(* With columns every record goes to the disk as it is; without, every     *)
(* record becomes a blank field.                                           *)
LEMMA WrittenIsClean ==
  ASSUME NEW data, Clean(data)
  PROVE  CleanFile(Written(data))
<1> DEFINE n == Len(data.rows) + 1
<1>1. /\ Records(data) \in Seq(Seq(Fields)) /\ Len(Records(data)) = n /\ n \in Nat \ {0}
      /\ Records(data)[1] = data.headers
      /\ \A i \in 1..n : Len(Records(data)[i]) = Len(data.headers)
  BY DEF Records, Clean, Table
<1>2. Written(data) = [i \in 1..n |-> OnDisk(Records(data)[i])]
  BY CleanIsWritable DEF Written
<1>3. CASE data.headers = <<>>
  <2>1. \A i \in 1..n : Records(data)[i] = <<>>
    BY <1>1, <1>3
  <2>2. Written(data) = [i \in 1..n |-> <<Blank>>]
    BY <1>2, <2>1 DEF OnDisk
  <2>q. QED
    <3>1. <<Blank>> \in Seq(Fields) /\ Len(<<Blank>>) = 1 /\ Distinct(<<Blank>>)
      BY CsvAssumption, OneField
    <3>2. PICK blank \in Seq(Fields) : blank = <<Blank>>
      BY <3>1
    <3>3. /\ Written(data) \in Seq(Seq(Fields)) /\ Len(Written(data)) = n
          /\ \A i \in 1..n : Written(data)[i] = blank
      BY <1>1, <2>2, <3>2, Repeated
    <3>4. \A i \in 1..n : Written(data)[i] = blank /\ Len(Written(data)[i]) = 1
      BY <3>1, <3>2, <3>3
    <3>5. Written(data) # <<>> /\ Len(Written(data)[1]) = 1 /\ Distinct(Written(data)[1])
      <4>1. 1 \in 1..n
        BY <1>1
      <4>q. QED
        BY <1>1, <3>1, <3>2, <3>3, <3>4, <4>1
    <3>q. QED
      BY <3>3, <3>4, <3>5 DEF CleanFile
<1>4. CASE data.headers # <<>>
  <2>1. \A i \in 1..n : Records(data)[i] # <<>>
    BY <1>1, <1>4
  <2>2. \A i \in 1..n : OnDisk(Records(data)[i]) = Records(data)[i]
    BY <2>1 DEF OnDisk
  <2>3. Written(data) = Records(data)
    BY <1>1, <1>2, <2>2
  <2>q. QED
    BY <1>1, <2>3 DEF CleanFile, Clean
<1>q. QED
  BY <1>3, <1>4

-----------------------------------------------------------------------------
(***************************************************************************)
(* The tools one by one.                                                   *)
(***************************************************************************)

(* A name, or a number, gives one of the columns. *)
LEMMA ColumnsAreColumns ==
  ASSUME NEW data, Clean(data), NEW column, NEW i \in ResolveColumn(data.headers, column)
  PROVE  i \in 1..Len(data.headers)
BY DEF ResolveColumn, FindColumn, Positions

(* What a clean table consists of, and what makes one. *)
LEMMA CleanHas ==
  ASSUME NEW data, Clean(data)
  PROVE  /\ data.headers \in Seq(Fields) /\ data.rows \in Seq(Seq(Fields))
         /\ \A r \in 1..Len(data.rows) : Len(data.rows[r]) = Len(data.headers)
         /\ Distinct(data.headers)
         /\ DOMAIN data = {"headers", "rows"}
BY DEF Clean, Table

LEMMA CleanNew ==
  ASSUME NEW headers \in Seq(Fields), Distinct(headers), NEW rows \in Seq(Seq(Fields)),
         \A r \in 1..Len(rows) : Len(rows[r]) = Len(headers)
  PROVE  Clean([headers |-> headers, rows |-> rows])
BY DEF Clean, Table

LEMMA WithRows ==
  ASSUME NEW data, Clean(data), NEW rows
  PROVE  [data EXCEPT !.rows = rows] = [headers |-> data.headers, rows |-> rows]
BY DEF Clean, Table

LEMMA WithHeaders ==
  ASSUME NEW data, Clean(data), NEW headers
  PROVE  [data EXCEPT !.headers = headers] = [headers |-> headers, rows |-> data.rows]
BY DEF Clean, Table

LEMMA Joined ==
  ASSUME NEW S, NEW a \in Seq(S), NEW b \in Seq(S)
  PROVE  /\ a \o b \in Seq(S) /\ Len(a \o b) = Len(a) + Len(b)
         /\ \A k \in 1..Len(a) + Len(b) :
              (a \o b)[k] = IF k <= Len(a) THEN a[k] ELSE b[k - Len(a)]
OBVIOUS

LEMMA AddedRowsAreClean ==
  ASSUME NEW data, Clean(data), NEW items, Len(items) \in Nat,
         \A i \in 1..Len(items) : IsItem(items[i]),
         NEW result \in AddRows(data, items)
  PROVE  Clean(result)
<1> DEFINE added == [i \in 1..Len(items) |-> RowOf(data.headers, items[i])]
<1>1. \A i \in 1..Len(items) : Fits(data.headers, items[i])
  BY DEF AddRows
<1>2. ASSUME NEW i \in 1..Len(items)
      PROVE  added[i] \in Seq(Fields) /\ Len(added[i]) = Len(data.headers)
  <2>1. CASE "fields" \in DOMAIN items[i]
    <3>1. DOMAIN items[i] = {"fields"} /\ items[i].fields \in Seq(Fields)
      BY <2>1 DEF IsItem
    <3>2. "object" \notin DOMAIN items[i]
      BY <3>1
    <3>3. Fits(data.headers, items[i])
      BY <1>1
    <3>4. Len(items[i].fields) = Len(data.headers)
      BY <3>2, <3>3 DEF Fits
    <3>5. added[i] = items[i].fields
      BY <2>1 DEF RowOf
    <3>q. QED
      BY <3>1, <3>4, <3>5
  <2>2. CASE "fields" \notin DOMAIN items[i]
    <3>1. DOMAIN items[i] = {"object"}
          /\ \A name \in DOMAIN items[i].object : items[i].object[name] \in Fields
      BY <2>2 DEF IsItem
    <3>2. added[i] = [k \in 1..Len(data.headers) |->
            IF data.headers[k] \in DOMAIN items[i].object
               /\ k = ColumnOf(data.headers, data.headers[k])
              THEN items[i].object[data.headers[k]] ELSE Blank]
      BY <2>2 DEF RowOf
    <3>3. added[i] \in [1..Len(data.headers) -> Fields]
      BY <3>1, <3>2, CsvAssumption
    <3>4. Len(data.headers) \in Nat
      BY CleanHas
    <3>q. QED
      BY <3>3, <3>4
  <2>q. QED
    BY <2>1, <2>2
<1>3. added \in Seq(Seq(Fields)) /\ Len(added) = Len(items)
  BY <1>2
<1>4. result = [headers |-> data.headers, rows |-> data.rows \o added]
  BY WithRows DEF AddRows
<1> HIDE DEF added
<1> DEFINE rows == data.rows \o added
<1>5. /\ data.rows \in Seq(Seq(Fields)) /\ Len(data.rows) \in Nat
      /\ \A r \in 1..Len(data.rows) : Len(data.rows[r]) = Len(data.headers)
  <2>1. /\ data.rows \in Seq(Seq(Fields))
        /\ \A r \in 1..Len(data.rows) : Len(data.rows[r]) = Len(data.headers)
    BY CleanHas
  <2>q. QED
    BY <2>1
<1>6. /\ rows \in Seq(Seq(Fields)) /\ Len(rows) = Len(data.rows) + Len(added)
      /\ \A r \in 1..Len(rows) :
           rows[r] = IF r <= Len(data.rows) THEN data.rows[r] ELSE added[r - Len(data.rows)]
  <2>1. \A k \in 1..Len(data.rows) + Len(added) :
          rows[k] = IF k <= Len(data.rows) THEN data.rows[k] ELSE added[k - Len(data.rows)]
    BY <1>3, <1>5, Joined
  <2>2. rows \in Seq(Seq(Fields)) /\ Len(rows) = Len(data.rows) + Len(added)
    BY <1>3, <1>5, Joined
  <2>q. QED
    BY <2>1, <2>2
<1> HIDE DEF rows
<1>7. ASSUME NEW r \in 1..Len(rows)
      PROVE  Len(rows[r]) = Len(data.headers)
  <2>1. CASE r <= Len(data.rows)
    <3>1. r \in 1..Len(data.rows) /\ rows[r] = data.rows[r]
      BY <1>5, <1>6, <2>1
    <3>q. QED
      BY <1>5, <3>1
  <2>2. CASE r > Len(data.rows)
    <3>1. r - Len(data.rows) \in 1..Len(items)
      BY <1>3, <1>5, <1>6, <2>2
    <3>2. rows[r] = added[r - Len(data.rows)]
      BY <1>5, <1>6, <2>2
    <3>q. QED
      BY <1>2, <3>1, <3>2
  <2>q. QED
    BY <1>5, <2>1, <2>2
<1>8. result = [headers |-> data.headers, rows |-> rows]
  BY <1>4 DEF rows
<1>q. QED
  BY <1>6, <1>7, <1>8, CleanHas, CleanNew

LEMMA UpdatedIsClean ==
  ASSUME NEW data, Clean(data), NEW row \in Nat, NEW column, NEW value \in Fields,
         NEW result \in UpdateCell(data, row, column, value)
  PROVE  Clean(result)
<1> DEFINE w == data.rows
<1>1. row < Len(w)
  BY DEF UpdateCell
<1>2. row + 1 \in 1..Len(w)
  BY <1>1, CleanHas
<1>3. PICK i \in ResolveColumn(data.headers, column) :
        result = [data EXCEPT !.rows[row + 1] =
          [(IF i <= Len(@) THEN @ ELSE @ \o Blanks(Len(data.headers) - Len(@)))
             EXCEPT ![i] = value]]
  BY DEF UpdateCell
<1>4. i \in 1..Len(w[row + 1]) /\ w[row + 1] \in Seq(Fields)
  <2>1. i \in 1..Len(data.headers)
    BY ColumnsAreColumns
  <2>2. w \in Seq(Seq(Fields)) /\ Len(w[row + 1]) = Len(data.headers)
    BY <1>2, CleanHas
  <2>q. QED
    BY <1>2, <2>1, <2>2
<1>5. i <= Len(w[row + 1])
  BY <1>4
<1> DEFINE changed == [w[row + 1] EXCEPT ![i] = value]
           rows == [w EXCEPT ![row + 1] = changed]
<1>6. result = [data EXCEPT !.rows = rows]
  BY <1>3, <1>5
<1>7. changed \in Seq(Fields) /\ Len(changed) = Len(data.headers)
  <2>1. Len(w[row + 1]) = Len(data.headers)
    BY <1>2, CleanHas
  <2>q. QED
    BY <1>4, <2>1
<1>8. result = [headers |-> data.headers, rows |-> rows]
  BY <1>6, WithRows
<1> HIDE DEF changed
<1>9. rows \in Seq(Seq(Fields)) /\ \A r \in 1..Len(rows) : Len(rows[r]) = Len(data.headers)
  <2>1. w \in Seq(Seq(Fields)) /\ \A r \in 1..Len(w) : Len(w[r]) = Len(data.headers)
    BY CleanHas
  <2>q. QED
    BY <1>2, <1>7, <2>1
<1>q. QED
  BY <1>8, <1>9, CleanHas, CleanNew

(* An element taken out of a sequence. *)
LEMMA Removed ==
  ASSUME NEW S, NEW s \in Seq(S), NEW i \in 1..Len(s)
  PROVE  /\ RemoveAt(s, i) \in Seq(S) /\ Len(RemoveAt(s, i)) = Len(s) - 1
         /\ \A k \in 1..Len(s) - 1 : RemoveAt(s, i)[k] = s[IF k < i THEN k ELSE k + 1]
<1> DEFINE a == SubSeq(s, 1, i - 1)
           b == SubSeq(s, i + 1, Len(s))
<1>1. a \in Seq(S) /\ Len(a) = i - 1 /\ \A k \in 1..i - 1 : a[k] = s[k]
  OBVIOUS
<1>2. b \in Seq(S) /\ Len(b) = Len(s) - i /\ \A k \in 1..Len(s) - i : b[k] = s[i + k]
  OBVIOUS
<1>3. RemoveAt(s, i) = a \o b
  BY DEF RemoveAt
<1>4. Len(a) \in Nat /\ Len(b) \in Nat /\ Len(s) \in Nat
  BY <1>1, <1>2
<1> HIDE DEF a, b
<1>5. /\ a \o b \in Seq(S) /\ Len(a \o b) = Len(a) + Len(b)
      /\ \A k \in 1..Len(a) + Len(b) :
           (a \o b)[k] = IF k <= Len(a) THEN a[k] ELSE b[k - Len(a)]
  BY <1>1, <1>2, Joined
<1>6. ASSUME NEW k \in 1..Len(s) - 1
      PROVE  (a \o b)[k] = s[IF k < i THEN k ELSE k + 1]
  <2>1. CASE k < i
    <3>1. k \in 1..i - 1 /\ k <= Len(a) /\ k \in 1..Len(a) + Len(b)
      BY <1>1, <1>2, <1>4, <2>1
    <3>2. (a \o b)[k] = a[k]
      BY <1>5, <3>1
    <3>q. QED
      BY <1>1, <2>1, <3>1, <3>2
  <2>2. CASE i <= k
    <3>1. (a \o b)[k] = b[k - (i - 1)]
      BY <1>1, <1>2, <1>4, <1>5, <2>2
    <3>2. k - (i - 1) \in 1..Len(s) - i /\ i + (k - (i - 1)) = k + 1
      BY <1>4, <2>2
    <3>3. b[k - (i - 1)] = s[i + (k - (i - 1))]
      BY <1>2, <3>2
    <3>4. ~(k < i)
      BY <2>2
    <3>q. QED
      BY <3>1, <3>2, <3>3, <3>4
  <2>3. k < i \/ i <= k
    BY <1>4
  <2>q. QED
    BY <2>1, <2>2, <2>3
<1>q. QED
  BY <1>1, <1>2, <1>3, <1>4, <1>5, <1>6

LEMMA RemovedRowIsClean ==
  ASSUME NEW data, Clean(data), NEW row \in Nat, NEW result \in RemoveRow(data, row)
  PROVE  Clean(result)
<1> DEFINE rows == RemoveAt(data.rows, row + 1)
<1>1. row + 1 \in 1..Len(data.rows)
  BY CleanHas DEF RemoveRow
<1>2. result = [headers |-> data.headers, rows |-> rows]
  BY WithRows DEF RemoveRow
<1>3. /\ rows \in Seq(Seq(Fields)) /\ Len(rows) = Len(data.rows) - 1
      /\ \A k \in 1..Len(data.rows) - 1 :
           rows[k] = data.rows[IF k < row + 1 THEN k ELSE k + 1]
  <2>1. data.rows \in Seq(Seq(Fields))
    BY CleanHas
  <2> HIDE DEF rows
  <2> QED BY <1>1, <2>1, Removed, Zenon DEF rows
<1> HIDE DEF rows
<1>4. ASSUME NEW r \in 1..Len(rows)
      PROVE  Len(rows[r]) = Len(data.headers)
  <2>1. (IF r < row + 1 THEN r ELSE r + 1) \in 1..Len(data.rows) /\ r \in 1..Len(data.rows) - 1
    BY <1>1, <1>3
  <2>q. QED
    BY <1>3, <2>1, CleanHas
<1>q. QED
  BY <1>2, <1>3, <1>4, CleanHas, CleanNew

LEMMA AddedColumnIsClean ==
  ASSUME NEW data, Clean(data), NEW name \in Fields, NEW default \in Fields,
         NEW result \in AddColumn(data, name, default)
  PROVE  Clean(result)
<1>1. \A i \in 1..Len(data.headers) : data.headers[i] # name
  BY DEF AddColumn, HasColumn, Positions
<1>2. result = [headers |-> Append(data.headers, name),
                rows |-> [r \in 1..Len(data.rows) |-> Append(data.rows[r], default)]]
  BY DEF AddColumn, HasColumn
<1>3. result \in Table /\ \A r \in 1..Len(result.rows) : Len(result.rows[r]) = Len(result.headers)
  BY <1>2 DEF Clean, Table
<1>4. Distinct(result.headers)
  BY <1>1, <1>2 DEF Clean, Table, Distinct, IsInjective
<1>q. QED
  BY <1>3, <1>4 DEF Clean

LEMMA RemovedColumnIsClean ==
  ASSUME NEW data, Clean(data), NEW column, NEW result \in RemoveColumn(data, column)
  PROVE  Clean(result)
<1>1. PICK i \in ResolveColumn(data.headers, column) :
        result = [headers |-> RemoveAt(data.headers, i),
                  rows |-> [r \in 1..Len(data.rows) |->
                              IF i <= Len(data.rows[r]) THEN RemoveAt(data.rows[r], i)
                              ELSE data.rows[r]]]
  BY DEF RemoveColumn
<1>2. i \in 1..Len(data.headers)
  BY ColumnsAreColumns
<1> DEFINE headers == RemoveAt(data.headers, i)
           rows == [r \in 1..Len(data.rows) |-> RemoveAt(data.rows[r], i)]
<1>3. result = [headers |-> headers, rows |-> rows]
  <2>1. \A r \in 1..Len(data.rows) : Len(data.rows[r]) = Len(data.headers)
    BY CleanHas
  <2>2. i <= Len(data.headers)
    BY <1>2
  <2>q. QED
    BY <1>1, <2>1, <2>2
<1>4. /\ headers \in Seq(Fields) /\ Len(headers) = Len(data.headers) - 1
      /\ \A k \in 1..Len(data.headers) - 1 :
           headers[k] = data.headers[IF k < i THEN k ELSE k + 1]
  BY <1>2, CleanHas, Removed
<1>5. \A r \in 1..Len(data.rows) :
        /\ RemoveAt(data.rows[r], i) \in Seq(Fields)
        /\ Len(RemoveAt(data.rows[r], i)) = Len(data.headers) - 1
  <2>1. SUFFICES ASSUME NEW r \in 1..Len(data.rows)
                 PROVE  /\ RemoveAt(data.rows[r], i) \in Seq(Fields)
                        /\ Len(RemoveAt(data.rows[r], i)) = Len(data.headers) - 1
    OBVIOUS
  <2>2. data.rows \in Seq(Seq(Fields)) /\ Len(data.rows[r]) = Len(data.headers)
    BY CleanHas
  <2>3. data.rows[r] \in Seq(Fields)
    BY <2>2
  <2>q. QED
    BY <1>2, <2>2, <2>3, Removed
<1>6. rows \in Seq(Seq(Fields)) /\ \A r \in 1..Len(rows) : Len(rows[r]) = Len(data.headers) - 1
  BY <1>5, CleanHas
<1> HIDE DEF headers, rows
<1>7. Distinct(headers)
  <2>1. \A a, b \in 1..Len(data.headers) : data.headers[a] = data.headers[b] => a = b
    BY CleanHas DEF Distinct, IsInjective
  <2>2. SUFFICES ASSUME NEW a \in 1..Len(headers), NEW b \in 1..Len(headers),
                        headers[a] = headers[b]
                 PROVE  a = b
    BY <1>4 DEF Distinct, IsInjective
  <2>3. (IF a < i THEN a ELSE a + 1) = (IF b < i THEN b ELSE b + 1)
    <3>1. Len(data.headers) \in Nat
      BY CleanHas
    <3>2. a \in 1..Len(data.headers) - 1 /\ b \in 1..Len(data.headers) - 1
      BY <1>4
    <3>3. /\ (IF a < i THEN a ELSE a + 1) \in 1..Len(data.headers)
          /\ (IF b < i THEN b ELSE b + 1) \in 1..Len(data.headers)
      BY <3>1, <3>2
    <3>4. data.headers[IF a < i THEN a ELSE a + 1] = data.headers[IF b < i THEN b ELSE b + 1]
      BY <1>4, <2>2, <3>2
    <3>q. QED
      BY <2>1, <3>3, <3>4
  <2>q. QED
    BY <1>2, <1>4, <2>3, CleanHas
<1>q. QED
  BY <1>3, <1>4, <1>6, <1>7, CleanNew

LEMMA RenamedIsClean ==
  ASSUME NEW data, Clean(data), NEW old \in Fields, NEW new \in Fields,
         NEW result \in RenameColumn(data, old, new)
  PROVE  Clean(result)
<1>1. /\ old = new \/ \A i \in 1..Len(data.headers) : data.headers[i] # new
      /\ \E i \in FindColumn(data.headers, old) : result = [data EXCEPT !.headers[i] = new]
  BY DEF RenameColumn, HasColumn, Positions
<1>2. PICK i \in 1..Len(data.headers) :
        data.headers[i] = old /\ result = [data EXCEPT !.headers[i] = new]
  BY <1>1 DEF FindColumn, Positions
<1> DEFINE headers == [data.headers EXCEPT ![i] = new]
<1>3. result = [headers |-> headers, rows |-> data.rows]
  BY <1>2, WithHeaders
<1>4. headers \in Seq(Fields) /\ Len(headers) = Len(data.headers)
  BY CleanHas
<1>5. Distinct(headers)
  <2>1. \A a, b \in 1..Len(data.headers) : data.headers[a] = data.headers[b] => a = b
    BY CleanHas DEF Distinct, IsInjective
  <2>2. SUFFICES ASSUME NEW a \in 1..Len(headers), NEW b \in 1..Len(headers),
                        headers[a] = headers[b]
                 PROVE  a = b
    BY <1>4 DEF Distinct, IsInjective
  <2>q. QED
    BY <1>1, <1>2, <1>4, <2>1, <2>2, CleanHas
<1>q. QED
  BY <1>3, <1>4, <1>5, CleanHas, CleanNew

-----------------------------------------------------------------------------
(***************************************************************************)
(* Any table and any file: ragged rows, doubled names, no records at all.  *)
(* A line is a record the reader can find in a file: it has a field.       *)
(***************************************************************************)

Line == Seq(Fields) \ {<<>>}

LEMMA LinesAre ==
  ASSUME NEW f
  PROVE  f \in Seq(Line) <=> f \in Seq(Seq(Fields)) /\ <<>> \notin Range(f)
<1>1. ASSUME f \in Seq(Line)
      PROVE  f \in Seq(Seq(Fields)) /\ <<>> \notin Range(f)
  BY <1>1 DEF Line, Range
<1>2. ASSUME f \in Seq(Seq(Fields)), <<>> \notin Range(f)
      PROVE  f \in Seq(Line)
  BY <1>2 DEF Line, Range
<1> QED BY <1>1, <1>2

LEMMA TableHas ==
  ASSUME NEW data \in Table
  PROVE  /\ data.headers \in Seq(Fields) /\ data.rows \in Seq(Seq(Fields))
         /\ \A rows : [data EXCEPT !.rows = rows] = [headers |-> data.headers, rows |-> rows]
         /\ \A headers :
              [data EXCEPT !.headers = headers] = [headers |-> headers, rows |-> data.rows]
BY DEF Table

LEMMA TableNew ==
  ASSUME NEW headers \in Seq(Fields), NEW rows \in Seq(Seq(Fields))
  PROVE  [headers |-> headers, rows |-> rows] \in Table
BY DEF Table

LEMMA ParsedIsTable ==
  ASSUME NEW records \in Seq(Seq(Fields))
  PROVE  Parse(records) \in Table
BY DEF Parse, Table

LEMMA CreatedIsTable ==
  ASSUME NEW headers \in Seq(Fields), NEW rows \in Seq(Seq(Fields)),
         NEW result \in Create(headers, rows)
  PROVE  result \in Table
BY DEF Create, Table

(* An item that fits the header becomes a row. *)
LEMMA ItemIsRow ==
  ASSUME NEW headers \in Seq(Fields), NEW item, IsItem(item), Fits(headers, item)
  PROVE  RowOf(headers, item) \in Seq(Fields)
<1>1. CASE "fields" \in DOMAIN item
  BY <1>1 DEF IsItem, RowOf
<1>2. CASE "fields" \notin DOMAIN item
  <2>1. /\ DOMAIN item = {"object"}
        /\ \A name \in DOMAIN item.object : item.object[name] \in Fields
    BY <1>2 DEF IsItem
  <2>2. RowOf(headers, item) \in [1..Len(headers) -> Fields]
    BY <1>2, <2>1, CsvAssumption DEF RowOf
  <2> QED BY <2>2
<1> QED BY <1>1, <1>2

LEMMA AddedRowsAreTable ==
  ASSUME NEW data \in Table, NEW items, Len(items) \in Nat,
         \A i \in 1..Len(items) : IsItem(items[i]),
         NEW result \in AddRows(data, items)
  PROVE  result \in Table
<1> DEFINE added == [i \in 1..Len(items) |-> RowOf(data.headers, items[i])]
<1>1. \A i \in 1..Len(items) : added[i] \in Seq(Fields)
  <2>1. \A i \in 1..Len(items) : Fits(data.headers, items[i])
    BY DEF AddRows
  <2> QED BY <2>1, ItemIsRow, TableHas
<1>2. added \in Seq(Seq(Fields))
  BY <1>1
<1>3. result = [headers |-> data.headers, rows |-> data.rows \o added]
  BY TableHas DEF AddRows
<1> HIDE DEF added
<1>4. data.rows \o added \in Seq(Seq(Fields))
  BY <1>2, TableHas, Joined
<1> QED BY <1>3, <1>4, TableHas, TableNew

LEMMA Replaced ==
  ASSUME NEW S, NEW s \in Seq(S), NEW i, NEW e \in S
  PROVE  [s EXCEPT ![i] = e] \in Seq(S)
<1>1. PICK n \in Nat : n = Len(s)
  OBVIOUS
<1>2. s \in [1..n -> S]
  BY <1>1
<1>3. [s EXCEPT ![i] = e] \in [1..n -> S]
  BY <1>2
<1> QED BY <1>3

(* A row too short for the column is filled up to the header first. *)
LEMMA UpdatedIsTable ==
  ASSUME NEW data \in Table, NEW row \in Nat, NEW column, NEW value \in Fields,
         NEW result \in UpdateCell(data, row, column, value)
  PROVE  result \in Table
<1> DEFINE old == data.rows[row + 1]
           filled(i) == IF i <= Len(old) THEN old
                        ELSE old \o Blanks(Len(data.headers) - Len(old))
<1>1. row < Len(data.rows)
  BY DEF UpdateCell
<1>2. row + 1 \in 1..Len(data.rows) /\ old \in Seq(Fields)
  BY <1>1, TableHas
<1>3. PICK i \in ResolveColumn(data.headers, column) :
        result = [data EXCEPT !.rows[row + 1] =
          [(IF i <= Len(@) THEN @ ELSE @ \o Blanks(Len(data.headers) - Len(@)))
             EXCEPT ![i] = value]]
  BY DEF UpdateCell
<1>4. i \in 1..Len(data.headers)
  BY DEF ResolveColumn, FindColumn, Positions
<1>5. filled(i) \in Seq(Fields)
  <2>1. CASE i <= Len(old)
    BY <1>2, <2>1
  <2>2. CASE ~(i <= Len(old))
    <3>1. Len(data.headers) - Len(old) \in Nat
      BY <1>2, <1>4, <2>2, TableHas
    <3>2. PICK n \in Nat : n = Len(data.headers) - Len(old)
      BY <3>1
    <3>3. Blank \in Fields
      BY CsvAssumption
    <3>4. [k \in 1..n |-> Blank] \in Seq(Fields)
      BY <3>3, Repeated
    <3>5. Blanks(n) \in Seq(Fields)
      BY <3>4 DEF Blanks
    <3>6. old \o Blanks(n) \in Seq(Fields)
      BY <1>2, <3>5
    <3> QED BY <2>2, <3>2, <3>6
  <2> QED BY <2>1, <2>2
<1> DEFINE changed == [filled(i) EXCEPT ![i] = value]
           rows == [data.rows EXCEPT ![row + 1] = changed]
<1>6. result = [data EXCEPT !.rows = rows]
  BY <1>3
<1> HIDE DEF filled
<1>7. changed \in Seq(Fields)
  BY <1>5, Replaced
<1> HIDE DEF changed
<1>8. rows \in Seq(Seq(Fields))
  <2>1. data.rows \in Seq(Seq(Fields))
    BY TableHas
  <2> QED BY <1>7, <2>1, Replaced
<1> HIDE DEF rows
<1>9. result = [headers |-> data.headers, rows |-> rows] /\ data.headers \in Seq(Fields)
  BY <1>6, TableHas
<1> QED BY <1>8, <1>9, TableNew

LEMMA RemovedRowIsTable ==
  ASSUME NEW data \in Table, NEW row \in Nat, NEW result \in RemoveRow(data, row)
  PROVE  result \in Table
<1>1. row + 1 \in 1..Len(data.rows)
  BY TableHas DEF RemoveRow
<1>2. result = [headers |-> data.headers, rows |-> RemoveAt(data.rows, row + 1)]
  BY TableHas DEF RemoveRow
<1> QED BY <1>1, <1>2, Removed, TableHas, TableNew

LEMMA AddedColumnIsTable ==
  ASSUME NEW data \in Table, NEW name \in Fields, NEW default \in Fields,
         NEW result \in AddColumn(data, name, default)
  PROVE  result \in Table
<1>1. result = [headers |-> Append(data.headers, name),
                rows |-> [r \in 1..Len(data.rows) |-> Append(data.rows[r], default)]]
  BY DEF AddColumn
<1>2. Append(data.headers, name) \in Seq(Fields)
  BY TableHas
<1>3. [r \in 1..Len(data.rows) |-> Append(data.rows[r], default)] \in Seq(Seq(Fields))
  <2>1. data.rows \in Seq(Seq(Fields))
    BY TableHas
  <2>2. \A r \in 1..Len(data.rows) : Append(data.rows[r], default) \in Seq(Fields)
    BY <2>1
  <2> QED BY <2>1, <2>2
<1> QED BY <1>1, <1>2, <1>3, TableNew

LEMMA RemovedColumnIsTable ==
  ASSUME NEW data \in Table, NEW column, NEW result \in RemoveColumn(data, column)
  PROVE  result \in Table
<1>1. PICK i \in ResolveColumn(data.headers, column) :
        result = [headers |-> RemoveAt(data.headers, i),
                  rows |-> [r \in 1..Len(data.rows) |->
                              IF i <= Len(data.rows[r]) THEN RemoveAt(data.rows[r], i)
                              ELSE data.rows[r]]]
  BY DEF RemoveColumn
<1>2. i \in 1..Len(data.headers)
  BY DEF ResolveColumn, FindColumn, Positions
<1>3. RemoveAt(data.headers, i) \in Seq(Fields)
  BY <1>2, Removed, TableHas
<1>4. ASSUME NEW r \in 1..Len(data.rows)
      PROVE  (IF i <= Len(data.rows[r]) THEN RemoveAt(data.rows[r], i)
              ELSE data.rows[r]) \in Seq(Fields)
  <2>1. data.rows[r] \in Seq(Fields)
    BY TableHas
  <2>2. CASE i <= Len(data.rows[r])
    <3>1. i \in 1..Len(data.rows[r])
      BY <1>2, <2>1, <2>2, TableHas
    <3> QED BY <2>1, <2>2, <3>1, Removed
  <2> QED BY <2>1, <2>2
<1>5. [r \in 1..Len(data.rows) |->
         IF i <= Len(data.rows[r]) THEN RemoveAt(data.rows[r], i)
         ELSE data.rows[r]] \in Seq(Seq(Fields))
  BY <1>4, TableHas
<1> QED BY <1>1, <1>3, <1>5, TableNew

LEMMA RenamedIsTable ==
  ASSUME NEW data \in Table, NEW old, NEW new \in Fields,
         NEW result \in RenameColumn(data, old, new)
  PROVE  result \in Table
<1>1. PICK i : i \in FindColumn(data.headers, old) /\ result = [data EXCEPT !.headers[i] = new]
  BY DEF RenameColumn
<1>2. i \in 1..Len(data.headers)
  BY <1>1 DEF FindColumn, Positions
<1>3. result = [headers |-> [data.headers EXCEPT ![i] = new], rows |-> data.rows]
  BY <1>1, TableHas
<1>4. [data.headers EXCEPT ![i] = new] \in Seq(Fields)
  BY <1>2, TableHas
<1> QED BY <1>3, <1>4, TableHas, TableNew

-----------------------------------------------------------------------------
(***************************************************************************)
(* What reaches the disk consists of lines, whatever the table, and        *)
(* wherever the writer fails or the write is cut.                          *)
(***************************************************************************)

LEMMA OnDiskIsLine ==
  ASSUME NEW record \in Seq(Fields)
  PROVE  OnDisk(record) \in Line
<1>1. <<Blank>> \in Seq(Fields) /\ Len(<<Blank>>) = 1
  BY CsvAssumption, OneField
<1>2. <<Blank>> # <<>>
  BY <1>1
<1> QED BY <1>1, <1>2 DEF OnDisk, Line

LEMMA UnfinishedIsLine ==
  ASSUME NEW record \in Seq(Fields)
  PROVE  Unfinished(record) \in Seq(Line)
<1>1. CASE record \in {<<>>, <<Blank>>}
  BY <1>1 DEF Unfinished
<1>2. CASE record \notin {<<>>, <<Blank>>}
  <2>1. record \in Line
    BY <1>2 DEF Line
  <2> QED BY <1>2, <2>1 DEF Unfinished
<1> QED BY <1>1, <1>2

(* The least of some positions is one of them. *)
LEMMA LeastIs ==
  ASSUME NEW n \in Nat, NEW S \in SUBSET (1..n), S # {}
  PROVE  Min(S) \in S
<1> DEFINE R == {p \in Nat \X Nat : p[1] < p[2]}
<1>1. IsWellFoundedOn(R, Nat)
  BY NatLessThanWellFounded, Zenon DEF OpToRel
<1>2. S \subseteq Nat
  OBVIOUS
<1>3. \E x \in S : \A y \in S : <<y, x>> \notin R
  BY <1>1, <1>2, WFMin, Zenon
<1> PICK x \in S : \A y \in S : <<y, x>> \notin R
  BY <1>3
<1>4. \A y \in S : ~(y < x)
  BY <1>2
<1>5. ASSUME NEW y \in S
      PROVE  x <= y
  <2>1. x \in Nat /\ y \in Nat /\ ~(y < x)
    BY <1>2, <1>4
  <2> QED BY <2>1
<1> QED BY <1>5 DEF Min

LEMMA WrittenIsLines ==
  ASSUME NEW data \in Table
  PROVE  Written(data) \in Seq(Line)
<1> DEFINE n == Len(data.rows) + 1
           all == Records(data)
<1>1. all \in Seq(Seq(Fields)) /\ Len(all) = n /\ n \in Nat \ {0}
  <2>1. <<data.headers>> \in Seq(Seq(Fields)) /\ Len(<<data.headers>>) = 1
    BY TableHas
  <2> QED BY <2>1, TableHas, Joined DEF Records
<1> HIDE DEF all
<1>2. ASSUME NEW m \in 0..n
      PROVE  [i \in 1..m |-> OnDisk(all[i])] \in Seq(Line)
  <2>1. \A i \in 1..m : OnDisk(all[i]) \in Line
    BY <1>1, OnDiskIsLine
  <2> QED BY <1>1, <2>1
<1>3. CASE Writable(data)
  BY <1>1, <1>2, <1>3 DEF Written, all
<1>4. CASE ~Writable(data)
  <2> DEFINE odd == Min(OddRecords(data))
  <2>1. odd \in 1..n
    BY <1>1, <1>4, LeastIs DEF Writable, OddRecords
  <2>2. Written(data) = [i \in 1..odd - 1 |-> OnDisk(all[i])] \o Unfinished(all[odd])
    BY <1>4 DEF Written, all
  <2> HIDE DEF odd
  <2>3. odd - 1 \in 0..n /\ all[odd] \in Seq(Fields)
    BY <1>1, <2>1
  <2> QED BY <1>2, <2>2, <2>3, UnfinishedIsLine, Joined
<1> QED BY <1>3, <1>4

LEMMA CutIsLine ==
  ASSUME NEW record \in Seq(Fields), NEW rest \in Cut(record)
  PROVE  rest \in Seq(Line)
<1>1. \A k \in 0..Len(record) :
        SubSeq(record, 1, k) \in Seq(Fields) /\ Append(SubSeq(record, 1, k), Blank) \in Seq(Fields)
  BY CsvAssumption
<1>2. \E k \in 0..Len(record) :
        \/ rest = Unfinished(SubSeq(record, 1, k))
        \/ rest = Unfinished(Append(SubSeq(record, 1, k), Blank))
  BY DEF Cut
<1> QED BY <1>1, <1>2, UnfinishedIsLine

LEMMA TornIsLines ==
  ASSUME NEW f \in Seq(Line), NEW torn \in Torn(f)
  PROVE  torn \in Seq(Line)
<1>1. CASE torn = f
  BY <1>1
<1>2. CASE torn # f
  <2>1. PICK k \in 0..Len(f) - 1 :
          torn \in {SubSeq(f, 1, k) \o rest : rest \in Cut(f[k + 1])}
    BY <1>2 DEF Torn
  <2>2. PICK rest \in Cut(f[k + 1]) : torn = SubSeq(f, 1, k) \o rest
    BY <2>1
  <2>3. f[k + 1] \in Seq(Fields)
    BY <2>1 DEF Line
  <2>4. rest \in Seq(Line)
    BY <2>2, <2>3, CutIsLine
  <2>5. SubSeq(f, 1, k) \in Seq(Line)
    BY <2>1
  <2> QED BY <2>2, <2>4, <2>5, Joined
<1> QED BY <1>1, <1>2

-----------------------------------------------------------------------------
(***************************************************************************)
(* The server.                                                             *)
(***************************************************************************)

(* The strengthening of TidyStaysTidy: the type of the file. *)
TidyInv == tidy => CleanFile(file)

LEMMA SavesClean ==
  ASSUME NEW request, NEW data, NEW still, Save(request, data, still), still => Clean(data)
  PROVE  TidyInv'
BY CleanIsWritable, WrittenIsClean DEF Save, TidyInv

LEMMA RewritesClean ==
  ASSUME NEW request, NEW results, TidyInv, Rewrite(request, results),
         ASSUME tidy, NEW data \in results PROVE Clean(data)
  PROVE  TidyInv'
<1>1. CASE Fail(request)
  BY <1>1 DEF Fail, TidyInv
<1>2. ASSUME NEW data \in results, Save(request, data, tidy)
      PROVE  TidyInv'
  BY <1>2, SavesClean
<1>q. QED
  BY <1>1, <1>2 DEF Rewrite

LEMMA DataIsClean ==
  ASSUME TidyInv, tidy
  PROVE  Clean(Data)
<1>1. CleanFile(file)
  BY DEF TidyInv
<1>2. file # NoFile
  BY <1>1, CsvAssumption DEF CleanFile
<1>q. QED
  BY <1>1, <1>2, ParsedIsClean DEF Data

LEMMA TidyKept == Spec => []TidyInv
<1>1. Init => TidyInv
  BY DEF Init, TidyInv
<1>2. ASSUME TidyInv, [Next]_vars
      PROVE  TidyInv'
  <2>1. CASE CsvCreate
    <3>1. PICK headers \in Headers, items \in {<<>>} \cup {b \in Batches : \A i \in 1..Len(b) : "fields" \in DOMAIN b[i]} :
            LET request == [tool |-> "csv_create", headers |-> headers, rows |-> ArraysOf(items)]
            IN \/ Fail(request)
               \/ \E data \in Create(headers, ArraysOf(items)) :
                    Save(request, data, Distinct(headers))
      BY <2>1 DEF CsvCreate
    <3>2. headers \in Seq(Fields)
      BY CsvAssumption
    <3>3. ArraysOf(items) \in Seq(Seq(Fields))
      <4>1. Len(items) \in Nat /\ \A i \in 1..Len(items) : items[i].fields \in Seq(Fields)
        BY CsvAssumption DEF IsItem
      <4>q. QED
        BY <4>1 DEF ArraysOf
    <3> DEFINE request == [tool |-> "csv_create", headers |-> headers, rows |-> ArraysOf(items)]
    <3>4. CASE Fail(request)
      BY <1>2, <3>4 DEF Fail, TidyInv
    <3>5. ASSUME NEW data \in Create(headers, ArraysOf(items)),
                 Save(request, data, Distinct(headers))
          PROVE  TidyInv'
      BY <3>2, <3>3, <3>5, CreatedIsClean, SavesClean
    <3>q. QED
      BY <3>1, <3>4, <3>5
  <2>2. CASE CsvAddRow
    <3>1. PICK items \in Batches :
            Rewrite([tool |-> "csv_add_row", items |-> items], AddRows(Data, items))
      BY <2>2 DEF CsvAddRow
    <3>2. Len(items) \in Nat /\ \A i \in 1..Len(items) : IsItem(items[i])
      BY CsvAssumption
    <3>3. ASSUME tidy, NEW data \in AddRows(Data, items) PROVE Clean(data)
      BY <1>2, <3>2, <3>3, DataIsClean, AddedRowsAreClean
    <3>q. QED
      BY <1>2, <3>1, <3>3, RewritesClean
  <2>3. CASE CsvUpdateCell
    <3>1. PICK row \in RowIndexes, column \in Columns, value \in Values :
            Rewrite([tool |-> "csv_update_cell", row |-> row, column |-> column, value |-> value],
                    UpdateCell(Data, row, column, value))
      BY <2>3 DEF CsvUpdateCell
    <3>2. row \in Nat /\ value \in Fields
      BY CsvAssumption DEF RowIndexes
    <3>3. ASSUME tidy, NEW data \in UpdateCell(Data, row, column, value) PROVE Clean(data)
      BY <1>2, <3>2, <3>3, DataIsClean, UpdatedIsClean
    <3>q. QED
      BY <1>2, <3>1, <3>3, RewritesClean
  <2>4. CASE CsvRemoveRow
    <3>1. PICK row \in RowIndexes :
            Rewrite([tool |-> "csv_remove_row", row |-> row], RemoveRow(Data, row))
      BY <2>4 DEF CsvRemoveRow
    <3>2. row \in Nat
      BY DEF RowIndexes
    <3>3. ASSUME tidy, NEW data \in RemoveRow(Data, row) PROVE Clean(data)
      BY <1>2, <3>2, <3>3, DataIsClean, RemovedRowIsClean
    <3>q. QED
      BY <1>2, <3>1, <3>3, RewritesClean
  <2>5. CASE CsvAddColumn
    <3>1. PICK name \in Names, default \in Values :
            Rewrite([tool |-> "csv_add_column", name |-> name, default |-> default],
                    AddColumn(Data, name, default))
      BY <2>5 DEF CsvAddColumn
    <3>2. name \in Fields /\ default \in Fields
      BY CsvAssumption
    <3>3. ASSUME tidy, NEW data \in AddColumn(Data, name, default) PROVE Clean(data)
      BY <1>2, <3>2, <3>3, DataIsClean, AddedColumnIsClean
    <3>q. QED
      BY <1>2, <3>1, <3>3, RewritesClean
  <2>6. CASE CsvRemoveColumn
    <3>1. PICK column \in Columns :
            Rewrite([tool |-> "csv_remove_column", column |-> column],
                    RemoveColumn(Data, column))
      BY <2>6 DEF CsvRemoveColumn
    <3>2. ASSUME tidy, NEW data \in RemoveColumn(Data, column) PROVE Clean(data)
      BY <1>2, <3>2, DataIsClean, RemovedColumnIsClean
    <3>q. QED
      BY <1>2, <3>1, <3>2, RewritesClean
  <2>7. CASE CsvRenameColumn
    <3>1. PICK old \in Names, new \in Names :
            Rewrite([tool |-> "csv_rename_column", old |-> old, new |-> new],
                    RenameColumn(Data, old, new))
      BY <2>7 DEF CsvRenameColumn
    <3>2. old \in Fields /\ new \in Fields
      BY CsvAssumption
    <3>3. ASSUME tidy, NEW data \in RenameColumn(Data, old, new) PROVE Clean(data)
      BY <1>2, <3>2, <3>3, DataIsClean, RenamedIsClean
    <3>q. QED
      BY <1>2, <3>1, <3>3, RewritesClean
  <2>8. CASE CsvReads \/ WriteFile \/ DeleteFile \/ Refuse \/ UNCHANGED vars
    BY <1>2, <2>8 DEF CsvReads, WriteFile, DeleteFile, Refuse, Fail, vars, TidyInv
  <2>q. QED
    BY <1>2, <2>1, <2>2, <2>3, <2>4, <2>5, <2>6, <2>7, <2>8 DEF Next
<1>q. QED
  BY <1>1, <1>2, PTL DEF Spec

(* However often the CSV tools change a table that csv_create made with    *)
(* distinct names, the writer never meets a record it cannot write.        *)
THEOREM TidyTables == Spec => []TidyStaysTidy
<1>1. TidyInv => TidyStaysTidy
  BY CsvAssumption DEF TidyInv, CleanFile, TidyStaysTidy
<1>q. QED
  BY <1>1, TidyKept, PTL

-----------------------------------------------------------------------------
(***************************************************************************)
(* The type of the server's state.                                         *)
(***************************************************************************)

(* What TypeOK says, with the file as a sequence of lines. *)
FileInv == file = NoFile \/ file \in Seq(Line)

CallInv == {"tool", "outcome"} \subseteq DOMAIN call /\ tidy \in BOOLEAN

LEMMA OutcomeIs ==
  ASSUME NEW request, "tool" \in DOMAIN request, NEW outcome, Outcome(request, outcome)
  PROVE  {"tool", "outcome"} \subseteq DOMAIN call'
BY DEF Outcome

LEMMA FailKeeps ==
  ASSUME FileInv, CallInv, NEW request, "tool" \in DOMAIN request, Fail(request)
  PROVE  FileInv' /\ CallInv'
BY OutcomeIs DEF FileInv, CallInv, Fail

LEMMA SaveKeeps ==
  ASSUME NEW request, "tool" \in DOMAIN request, NEW data \in Table, NEW still \in BOOLEAN,
         Save(request, data, still)
  PROVE  FileInv' /\ CallInv'
<1>1. Written(data) \in Seq(Line)
  BY WrittenIsLines
<1>2. file' \in Seq(Line)
  BY <1>1, TornIsLines DEF Save
<1>3. {"tool", "outcome"} \subseteq DOMAIN call' /\ tidy' \in BOOLEAN
  BY OutcomeIs DEF Save
<1> QED BY <1>2, <1>3 DEF FileInv, CallInv

LEMMA RewriteKeeps ==
  ASSUME FileInv, CallInv, NEW request, "tool" \in DOMAIN request, NEW results,
         Rewrite(request, results),
         ASSUME NEW data \in results PROVE data \in Table
  PROVE  FileInv' /\ CallInv'
<1>1. CASE Fail(request)
  BY <1>1, FailKeeps
<1>2. ASSUME NEW data \in results, Save(request, data, tidy)
      PROVE  FileInv' /\ CallInv'
  BY <1>2, SaveKeeps DEF CallInv
<1> QED BY <1>1, <1>2 DEF Rewrite

LEMMA DataIsTable ==
  ASSUME FileInv
  PROVE  Data \in Table
<1>1. <<>> \in Seq(Seq(Fields))
  OBVIOUS
<1>2. file # NoFile => file \in Seq(Seq(Fields))
  BY LinesAre DEF FileInv
<1> QED BY <1>1, <1>2, ParsedIsTable DEF Data

Types ==
  FileInv /\ CallInv /\ enabled \subseteq Categories /\ mode \in {"unrestricted", "readonly"}

LEMMA TypesKept == Spec => []Types
<1> DEFINE Inv == FileInv /\ CallInv /\ enabled \subseteq Categories
                   /\ mode \in {"unrestricted", "readonly"}
<1>1. Init => Inv
  <2>1. ASSUME Init
        PROVE  FileInv
    BY <2>1, CsvAssumption DEF Init, FileInv, Line
  <2>2. \A flags : EnabledCategories(flags) \subseteq Categories
    BY DEF EnabledCategories, Categories
  <2> QED BY <2>1, <2>2 DEF Init, CallInv, NoCall
<1>2. ASSUME Inv, [Next]_vars
      PROVE  Inv'
  <2>1. CASE CsvCreate
    <3>1. PICK headers \in Headers, items \in {<<>>} \cup {b \in Batches : \A i \in 1..Len(b) : "fields" \in DOMAIN b[i]} :
            LET request == [tool |-> "csv_create", headers |-> headers, rows |-> ArraysOf(items)]
            IN \/ Fail(request)
               \/ \E data \in Create(headers, ArraysOf(items)) :
                    Save(request, data, Distinct(headers))
      BY <2>1 DEF CsvCreate
    <3>2. headers \in Seq(Fields)
      BY CsvAssumption
    <3>3. ArraysOf(items) \in Seq(Seq(Fields))
      <4>1. Len(items) \in Nat /\ \A i \in 1..Len(items) : items[i].fields \in Seq(Fields)
        BY CsvAssumption DEF IsItem
      <4> QED BY <4>1 DEF ArraysOf
    <3>4. Distinct(headers) \in BOOLEAN
      BY DEF Distinct, IsInjective
    <3> DEFINE request == [tool |-> "csv_create", headers |-> headers, rows |-> ArraysOf(items)]
    <3>5. "tool" \in DOMAIN request
      OBVIOUS
    <3>6. \/ Fail(request)
          \/ \E data \in Create(headers, ArraysOf(items)) : Save(request, data, Distinct(headers))
      BY <3>1
    <3> HIDE DEF request
    <3>7. \A data \in Create(headers, ArraysOf(items)) : data \in Table
      BY <3>2, <3>3, CreatedIsTable
    <3>8. FileInv' /\ CallInv'
      BY <1>2, <3>4, <3>5, <3>6, <3>7, FailKeeps, SaveKeeps
    <3> QED BY <1>2, <3>8 DEF Next, vars
  <2>2. CASE CsvAddRow
    <3>1. PICK items \in Batches :
            Rewrite([tool |-> "csv_add_row", items |-> items], AddRows(Data, items))
      BY <2>2 DEF CsvAddRow
    <3>2. ASSUME NEW data \in AddRows(Data, items) PROVE data \in Table
      BY <1>2, <3>2, CsvAssumption, DataIsTable, AddedRowsAreTable
    <3> QED BY <1>2, <3>1, <3>2, RewriteKeeps DEF Next, vars
  <2>3. CASE CsvUpdateCell
    <3>1. PICK row \in RowIndexes, column \in Columns, value \in Values :
            Rewrite([tool |-> "csv_update_cell", row |-> row, column |-> column, value |-> value],
                    UpdateCell(Data, row, column, value))
      BY <2>3 DEF CsvUpdateCell
    <3>2. row \in Nat /\ value \in Fields
      BY CsvAssumption DEF RowIndexes
    <3>3. ASSUME NEW data \in UpdateCell(Data, row, column, value) PROVE data \in Table
      BY <1>2, <3>2, <3>3, DataIsTable, UpdatedIsTable
    <3> QED BY <1>2, <3>1, <3>3, RewriteKeeps DEF Next, vars
  <2>4. CASE CsvRemoveRow
    <3>1. PICK row \in RowIndexes :
            Rewrite([tool |-> "csv_remove_row", row |-> row], RemoveRow(Data, row))
      BY <2>4 DEF CsvRemoveRow
    <3>2. row \in Nat
      BY DEF RowIndexes
    <3>3. ASSUME NEW data \in RemoveRow(Data, row) PROVE data \in Table
      BY <1>2, <3>2, <3>3, DataIsTable, RemovedRowIsTable
    <3> QED BY <1>2, <3>1, <3>3, RewriteKeeps DEF Next, vars
  <2>5. CASE CsvAddColumn
    <3>1. PICK name \in Names, default \in Values :
            Rewrite([tool |-> "csv_add_column", name |-> name, default |-> default],
                    AddColumn(Data, name, default))
      BY <2>5 DEF CsvAddColumn
    <3>2. name \in Fields /\ default \in Fields
      BY CsvAssumption
    <3>3. ASSUME NEW data \in AddColumn(Data, name, default) PROVE data \in Table
      BY <1>2, <3>2, <3>3, DataIsTable, AddedColumnIsTable
    <3> QED BY <1>2, <3>1, <3>3, RewriteKeeps DEF Next, vars
  <2>6. CASE CsvRemoveColumn
    <3>1. PICK column \in Columns :
            Rewrite([tool |-> "csv_remove_column", column |-> column],
                    RemoveColumn(Data, column))
      BY <2>6 DEF CsvRemoveColumn
    <3>2. ASSUME NEW data \in RemoveColumn(Data, column) PROVE data \in Table
      BY <1>2, <3>2, DataIsTable, RemovedColumnIsTable
    <3> QED BY <1>2, <3>1, <3>2, RewriteKeeps DEF Next, vars
  <2>7. CASE CsvRenameColumn
    <3>1. PICK old \in Names, new \in Names :
            Rewrite([tool |-> "csv_rename_column", old |-> old, new |-> new],
                    RenameColumn(Data, old, new))
      BY <2>7 DEF CsvRenameColumn
    <3>2. old \in Fields /\ new \in Fields
      BY CsvAssumption
    <3>3. ASSUME NEW data \in RenameColumn(Data, old, new) PROVE data \in Table
      BY <1>2, <3>2, <3>3, DataIsTable, RenamedIsTable
    <3> QED BY <1>2, <3>1, <3>3, RewriteKeeps DEF Next, vars
  <2>8. CASE CsvReads \/ Refuse
    <3>1. PICK tool, outcome : Outcome([tool |-> tool], outcome) /\ UNCHANGED <<file, tidy>>
      BY <2>8 DEF CsvReads, Refuse
    <3>2. {"tool", "outcome"} \subseteq DOMAIN call'
      BY <3>1, OutcomeIs
    <3> QED BY <1>2, <2>8, <3>1, <3>2 DEF FileInv, CallInv, Next, vars
  <2>9. CASE WriteFile \/ DeleteFile
    <3>1. PICK tool : \/ Fail([tool |-> tool])
                      \/ /\ file' \in Texts \cup {NoFile} /\ tidy' = FALSE
                         /\ \E outcome : Outcome([tool |-> tool], outcome)
      BY <2>9 DEF WriteFile, DeleteFile
    <3>2. CASE Fail([tool |-> tool])
      BY <1>2, <2>9, <3>2, FailKeeps DEF Next, vars
    <3>3. CASE /\ file' \in Texts \cup {NoFile} /\ tidy' = FALSE
               /\ \E outcome : Outcome([tool |-> tool], outcome)
      <4>1. {"tool", "outcome"} \subseteq DOMAIN call'
        BY <3>3, OutcomeIs
      <4>2. FileInv'
        BY <3>3, CsvAssumption DEF FileInv, Line
      <4> QED BY <1>2, <3>3, <4>1, <4>2 DEF CallInv, Next, vars
    <3> QED BY <3>1, <3>2, <3>3
  <2>10. CASE UNCHANGED vars
    BY <1>2, <2>10 DEF vars, FileInv, CallInv
  <2> QED
    BY <1>2, <2>1, <2>2, <2>3, <2>4, <2>5, <2>6, <2>7, <2>8, <2>9, <2>10 DEF Next
<1>3. Inv => Types
  BY DEF Types
<1> QED BY <1>1, <1>2, <1>3, PTL DEF Spec

(* The files of a server are what the reader takes them for: whatever the  *)
(* tools, the writer's failures and the other programs leave, no record of *)
(* a file is without a field.                                              *)
THEOREM Typing == Spec => []TypeOK
<1>1. Types => TypeOK
  BY LinesAre DEF Types, FileInv, CallInv, TypeOK
<1> QED BY <1>1, TypesKept, PTL

-----------------------------------------------------------------------------
(***************************************************************************)
(* The reading tools, on any table.                                        *)
(***************************************************************************)

(* The last of some positions is one of them. *)
LEMMA LastIs ==
  ASSUME NEW n \in Nat, NEW S \in SUBSET (1..n), S # {}
  PROVE  Max(S) \in S /\ \A k \in S : k <= Max(S)
<1> DEFINE T == {n - x : x \in S}
           R == {p \in Nat \X Nat : p[1] < p[2]}
<1>1. IsWellFoundedOn(R, Nat)
  BY NatLessThanWellFounded, Zenon DEF OpToRel
<1>2. T \subseteq Nat /\ T # {}
  <2>1. \A x \in S : n - x \in Nat
    OBVIOUS
  <2>2. \E x : x \in S
    OBVIOUS
  <2> QED BY <2>1, <2>2
<1>3. \E x \in T : \A y \in T : <<y, x>> \notin R
  BY <1>1, <1>2, WFMin, Zenon
<1>4. PICK m \in S : \A y \in T : <<y, n - m>> \notin R
  BY <1>3
<1>5. ASSUME NEW k \in S PROVE m >= k
  <2>1. n - k \in T /\ n - k \in Nat /\ n - m \in Nat /\ m \in Int /\ k \in Int
    BY <1>2
  <2>2. ~(n - k < n - m)
    BY <1>4, <2>1
  <2> QED BY <2>1, <2>2
<1>6. \A x \in S : (\A y \in S : x >= y) => x = m
  <2>1. S \subseteq Int
    OBVIOUS
  <2> QED BY <1>5, <2>1
<1>7. Max(S) = m
  BY <1>5, <1>6 DEF Max
<1> QED BY <1>5, <1>7

(* column_map and find_column look a name up in the same way. *)
LEMMA ColumnFound ==
  ASSUME NEW headers \in Seq(Fields), NEW name
  PROVE  FindColumn(headers, name) =
           IF HasColumn(headers, name) THEN {ColumnOf(headers, name)} ELSE {}
<1> DEFINE S == Positions(headers, name)
<1>1. Len(headers) \in Nat /\ S \in SUBSET (1..Len(headers))
  BY DEF Positions
<1>2. CASE S = {}
  BY <1>2 DEF FindColumn, HasColumn
<1>3. CASE S # {}
  <2> HIDE DEF S
  <2>1. Max(S) \in S /\ \A k \in S : k <= Max(S)
    BY <1>1, <1>3, LastIs
  <2>2. ASSUME NEW i \in S, \A j \in S : j <= i PROVE i = Max(S)
    <3>1. Max(S) <= i /\ i <= Max(S)
      BY <2>1, <2>2
    <3>2. i \in 1..Len(headers) /\ Max(S) \in 1..Len(headers)
      BY <1>1, <2>1
    <3> QED BY <1>1, <3>1, <3>2
  <2>3. FindColumn(headers, name) = {i \in S : \A j \in S : j <= i}
    BY DEF FindColumn, S
  <2>4. FindColumn(headers, name) = {Max(S)}
    BY <2>1, <2>2, <2>3
  <2> QED BY <1>3, <2>4 DEF HasColumn, ColumnOf, S
<1> QED BY <1>2, <1>3

LEMMA PartOf ==
  ASSUME NEW S, NEW rows \in Seq(S), NEW m \in 0..Len(rows), NEW k \in m..Len(rows)
  PROVE  /\ SubSeq(rows, m + 1, k) \in Seq(S) /\ Len(SubSeq(rows, m + 1, k)) = k - m
         /\ \A i \in 1..k - m : SubSeq(rows, m + 1, k)[i] = rows[m + i]
OBVIOUS

LEMMA PartsOf ==
  ASSUME NEW S, NEW rows \in Seq(S), NEW m \in 0..Len(rows), NEW k \in m..Len(rows)
  PROVE  SubSeq(rows, 1, m) \o SubSeq(rows, m + 1, k) = SubSeq(rows, 1, k)
<1> DEFINE a == SubSeq(rows, 1, m)
           b == SubSeq(rows, m + 1, k)
           c == SubSeq(rows, 1, k)
<1>1. Len(rows) \in Nat /\ m \in Nat /\ k \in Nat /\ m <= k /\ 0 \in 0..Len(rows)
      /\ m \in 0..Len(rows) /\ k \in 0..Len(rows) /\ 0 + 1 = 1 /\ k - 0 = k /\ m - 0 = m
  OBVIOUS
<1>2. a \in Seq(S) /\ Len(a) = m /\ \A i \in 1..m : a[i] = rows[i]
  BY <1>1
<1>3. c \in Seq(S) /\ Len(c) = k /\ \A i \in 1..k : c[i] = rows[i]
  BY <1>1
<1>4. b \in Seq(S) /\ Len(b) = k - m /\ \A i \in 1..k - m : b[i] = rows[m + i]
  BY <1>1, PartOf
<1> HIDE DEF a, b, c
<1>5. /\ a \o b \in Seq(S) /\ Len(a \o b) = k
      /\ \A i \in 1..k : (a \o b)[i] = IF i <= m THEN a[i] ELSE b[i - m]
  <2>1. Len(a) + Len(b) = k
    BY <1>1, <1>2, <1>4
  <2> QED BY <1>2, <1>4, <2>1, Joined
<1>6. ASSUME NEW i \in 1..k PROVE (a \o b)[i] = c[i]
  <2>1. CASE i <= m
    BY <1>1, <1>2, <1>3, <1>5, <2>1
  <2>2. CASE ~(i <= m)
    <3>1. i - m \in 1..k - m /\ m + (i - m) = i
      BY <1>1, <2>2
    <3>2. (a \o b)[i] = b[i - m] /\ b[i - m] = rows[m + (i - m)] /\ c[i] = rows[i]
      BY <1>3, <1>4, <1>5, <2>2, <3>1
    <3> QED BY <3>1, <3>2
  <2> QED BY <2>1, <2>2
<1>7. a \o b = c
  BY <1>3, <1>5, <1>6
<1> QED BY <1>7 DEF a, b, c

(* A page is what is between two beginnings. *)
LEMMA PageBetween ==
  ASSUME NEW S, NEW rows \in Seq(S), NEW start \in Nat, NEW n \in Nat
  PROVE  First(rows, start) \o Slice(rows, start, n) = First(rows, start + n)
<1> DEFINE m == IF start < Len(rows) THEN start ELSE Len(rows)
           k == IF start + n < Len(rows) THEN start + n ELSE Len(rows)
<1>1. Len(rows) \in Nat /\ m \in 0..Len(rows) /\ k \in m..Len(rows)
  OBVIOUS
<1>2. First(rows, start) = SubSeq(rows, 1, m)
  BY DEF First
<1>3. First(rows, start + n) = SubSeq(rows, 1, k)
  BY DEF First
<1>4. SubSeq(rows, 1, m) \o SubSeq(rows, m + 1, k) = SubSeq(rows, 1, k)
  <2> HIDE DEF m, k
  <2> QED BY <1>1, PartsOf
<1>5. SubSeq(rows, m + 1, k) = Slice(rows, start, n)
  <2>1. CASE start < Len(rows)
    BY <2>1 DEF Slice
  <2>2. CASE ~(start < Len(rows))
    <3>1. m = Len(rows) /\ k = Len(rows)
      BY <1>1, <2>2
    <3>2. SubSeq(rows, Len(rows) + 1, Len(rows)) = <<>> /\ SubSeq(rows, start + 1, Len(rows)) = <<>>
      BY <1>1, <2>2
    <3> QED BY <3>1, <3>2 DEF Slice
  <2> QED BY <2>1, <2>2
<1> QED BY <1>2, <1>3, <1>4, <1>5

(* A column of a page is the page of a column. *)
OneColumn(rows, i, name) ==
  [r \in 1..Len(rows) |-> Project(rows[r], [k \in 1..Len(<<name>>) |-> i])]

LEMMA ColumnOfPage ==
  ASSUME NEW rows, Len(rows) \in Nat, NEW i, NEW name
  PROVE  [r \in 1..Len(OneColumn(rows, i, name)) |-> OneColumn(rows, i, name)[r][1]]
           = [r \in 1..Len(rows) |-> Field(rows[r], i)]
<1> DEFINE page == OneColumn(rows, i, name)
<1> USE DEF OneColumn
<1>1. Len(page) = Len(rows)
  OBVIOUS
<1>2. ASSUME NEW row PROVE Project(row, [k \in 1..Len(<<name>>) |-> i])[1] = Field(row, i)
  <2>1. Len(<<name>>) = 1 /\ Len([k \in 1..Len(<<name>>) |-> i]) = 1
    OBVIOUS
  <2> QED BY <2>1 DEF Project
<1>3. \A r \in 1..Len(rows) : page[r][1] = Field(rows[r], i)
  BY <1>2
<1> QED BY <1>1, <1>3

(* What the tools make of the rows they have cut out. *)
ValuesFrom(rows, headers, name) ==
  {[r \in 1..Len(rows) |-> Field(rows[r], i)] : i \in FindColumn(headers, name)}

ColumnsFrom(rows, headers, names) ==
  {[r \in 1..Len(rows) |-> Project(rows[r], positions)] :
     positions \in ColumnsOf(headers, names)}

(* A range within a limit that the pages are within, too, is not refused.  *)
LEMMA InRange ==
  ASSUME NEW start \in Nat, NEW n \in Nat, NEW most \in 0..MaxPage, n <= most,
         NEW otherwise
  PROVE  /\ GoodRange(start, start + n, most)
         /\ AtMost(n, MaxPage) = n
         /\ Extent(start, start + n, otherwise) = n
BY CsvAssumption DEF GoodRange, AtMost, Extent

LEMMA SelectAgrees ==
  ASSUME NEW data \in Table, NEW start \in Nat, NEW n \in Nat, NEW name, n <= MaxRange
  PROVE  SelectColumnRange(data, <<name>>, start, start + n)
           = ReadColumnsPage(data, <<name>>, start, n)
<1> DEFINE rows == Slice(data.rows, start, n)
           part == Slice(data.rows, start, Extent(start, start + n, Len(data.rows)))
<1>1. MaxRange \in 0..MaxPage
  BY CsvAssumption
<1>2. /\ GoodRange(start, start + n, MaxRange)
      /\ AtMost(n, MaxPage) = n
      /\ Extent(start, start + n, Len(data.rows)) = n
  BY <1>1, InRange
<1>3. <<name>> # <<>>
  OBVIOUS
<1>4. SelectColumnRange(data, <<name>>, start, start + n)
        = ColumnsFrom(part, data.headers, <<name>>)
  BY <1>2, <1>3, Zenon DEF SelectColumnRange, ColumnsFrom
<1>5. ReadColumnsPage(data, <<name>>, start, n) = ColumnsFrom(rows, data.headers, <<name>>)
  BY <1>2, Zenon DEF ReadColumnsPage, ReadPage, ColumnsFrom
<1>6. part = rows
  BY <1>2, Zenon
<1> HIDE DEF part, rows
<1> QED BY <1>4, <1>5, <1>6

LEMMA ValuesAgree ==
  ASSUME NEW data \in Table, NEW start \in Nat, NEW n \in Nat, NEW name, n <= MaxValues
  PROVE  ColumnValuesRange(data, name, start, start + n)
           = {[r \in 1..Len(page) |-> page[r][1]] :
                page \in ReadColumnsPage(data, <<name>>, start, n)}
<1> DEFINE rows == Slice(data.rows, start, n)
           part == Slice(data.rows, start, Extent(start, start + n, Len(data.rows)))
           pages == ReadColumnsPage(data, <<name>>, start, n)
           Page(i) == OneColumn(rows, i, name)
<1>1. MaxValues \in 0..MaxPage
  BY CsvAssumption
<1>2. /\ GoodRange(start, start + n, MaxValues)
      /\ AtMost(n, MaxPage) = n
      /\ Extent(start, start + n, Len(data.rows)) = n
  BY <1>1, InRange
<1>3. Len(rows) \in Nat
  BY TableHas DEF Slice
<1>4. Len(<<name>>) = 1 /\ <<name>>[1] = name
  OBVIOUS
<1>5. ColumnValuesRange(data, name, start, start + n)
        = {[r \in 1..Len(rows) |-> Field(rows[r], i)] : i \in FindColumn(data.headers, name)}
  <2>1. ColumnValuesRange(data, name, start, start + n)
          = ValuesFrom(part, data.headers, name)
    BY <1>2, Zenon DEF ColumnValuesRange, ValuesFrom
  <2>2. part = rows
    BY <1>2, Zenon
  <2> HIDE DEF part, rows
  <2>3. ColumnValuesRange(data, name, start, start + n)
          = ValuesFrom(rows, data.headers, name)
    BY <2>1, <2>2
  <2> QED BY <2>3, Zenon DEF ValuesFrom
<1>6. ColumnsOf(data.headers, <<name>>) =
        IF HasColumn(data.headers, name)
          THEN {[k \in 1..Len(<<name>>) |-> ColumnOf(data.headers, name)]} ELSE {}
  <2>1. \A k \in 1..Len(<<name>>) : <<name>>[k] = name
    BY <1>4
  <2>2. 1 \in 1..Len(<<name>>)
    BY <1>4
  <2>3. (\A k \in 1..Len(<<name>>) : HasColumn(data.headers, <<name>>[k]))
          <=> HasColumn(data.headers, name)
    BY <2>1, <2>2
  <2>4. [k \in 1..Len(<<name>>) |-> ColumnOf(data.headers, <<name>>[k])]
          = [k \in 1..Len(<<name>>) |-> ColumnOf(data.headers, name)]
    BY <2>1
  <2> QED BY <2>3, <2>4, Zenon DEF ColumnsOf
<1>7. pages = {[r \in 1..Len(rows) |-> Project(rows[r], positions)] :
                 positions \in ColumnsOf(data.headers, <<name>>)}
  BY <1>2, Zenon DEF ReadColumnsPage, ReadPage
<1> HIDE DEF rows, pages
<1>8. FindColumn(data.headers, name) =
           IF HasColumn(data.headers, name) THEN {ColumnOf(data.headers, name)} ELSE {}
  BY ColumnFound, TableHas
<1>9. CASE HasColumn(data.headers, name)
  <2> DEFINE i == ColumnOf(data.headers, name)
  <2>1. pages = {Page(i)}
    BY <1>6, <1>7, <1>9 DEF OneColumn
  <2>2. ColumnValuesRange(data, name, start, start + n)
          = {[r \in 1..Len(rows) |-> Field(rows[r], i)]}
    BY <1>5, <1>8, <1>9
  <2>3. [r \in 1..Len(Page(i)) |-> Page(i)[r][1]] = [r \in 1..Len(rows) |-> Field(rows[r], i)]
    BY <1>3, ColumnOfPage
  <2> HIDE DEF i, Page
  <2>4. ColumnValuesRange(data, name, start, start + n)
          = {[r \in 1..Len(page) |-> page[r][1]] : page \in pages}
    BY <2>1, <2>2, <2>3
  <2> QED BY <2>4 DEF pages
<1>10. CASE ~HasColumn(data.headers, name)
  <2>1. pages = {} /\ ColumnValuesRange(data, name, start, start + n) = {}
    BY <1>5, <1>6, <1>7, <1>8, <1>10
  <2> QED BY <2>1 DEF pages
<1> QED BY <1>9, <1>10

(* On any file, ragged rows and doubled names included, pages that follow  *)
(* each other make up the rows, ranges of rows that are not too large are  *)
(* pages, and the three tools that read a column read the same.            *)
THEOREM ReadingAgrees == Spec => []ReadersAgree
<1>1. TypeOK => ReadersAgree
  <2> SUFFICES ASSUME TypeOK, file # NoFile PROVE ReadersAgree
    BY DEF ReadersAgree
  <2> DEFINE data == Parse(file)
  <2>1. data \in Table
    BY ParsedIsTable DEF TypeOK
  <2>2. data.rows \in Seq(Seq(Fields)) /\ Len(data.rows) \in Nat
    BY <2>1, TableHas
  <2> HIDE DEF data
  <2>3. ASSUME NEW n \in 1..Len(data.rows) + 1, NEW start \in 0..Len(data.rows) + 1
        PROVE  /\ First(data.rows, start) \o ReadPage(data, start, n)
                    = First(data.rows, start + AtMost(n, MaxPage))
               /\ n <= MaxRange =>
                    RowRange(data, start, start + n) = {ReadPage(data, start, n)}
               /\ \A name \in Names :
                    LET pages == ReadColumnsPage(data, <<name>>, start, n)
                    IN /\ n <= MaxRange =>
                            SelectColumnRange(data, <<name>>, start, start + n) = pages
                       /\ n <= MaxValues =>
                            ColumnValuesRange(data, name, start, start + n)
                              = {[r \in 1..Len(page) |-> page[r][1]] : page \in pages}
    <3>1. n \in Nat /\ start \in Nat /\ AtMost(n, MaxPage) \in Nat
      BY CsvAssumption DEF AtMost
    <3>2. First(data.rows, start) \o ReadPage(data, start, n)
            = First(data.rows, start + AtMost(n, MaxPage))
      BY <2>2, <3>1, PageBetween DEF ReadPage
    <3>3. ASSUME n <= MaxRange
          PROVE  RowRange(data, start, start + n) = {ReadPage(data, start, n)}
      <4>1. MaxRange \in 0..MaxPage
        BY CsvAssumption
      <4>2. /\ GoodRange(start, start + n, MaxRange)
            /\ AtMost(n, MaxPage) = n
            /\ Extent(start, start + n, 1) = n
        BY <3>1, <3>3, <4>1, InRange
      <4> QED BY <4>2, Zenon DEF RowRange, ReadPage
    <3>4. ASSUME NEW name, n <= MaxRange
          PROVE  SelectColumnRange(data, <<name>>, start, start + n)
                   = ReadColumnsPage(data, <<name>>, start, n)
      BY <2>1, <3>1, <3>4, SelectAgrees
    <3>5. ASSUME NEW name, n <= MaxValues
          PROVE  ColumnValuesRange(data, name, start, start + n)
                   = {[r \in 1..Len(page) |-> page[r][1]] :
                        page \in ReadColumnsPage(data, <<name>>, start, n)}
      BY <2>1, <3>1, <3>5, ValuesAgree
    <3> QED BY <3>2, <3>3, <3>4, <3>5, Zenon
  <2> QED BY <2>3, Zenon DEF ReadersAgree, data
<1> QED BY <1>1, Typing, PTL

-----------------------------------------------------------------------------
(***************************************************************************)
(* The refinement of TableStore: rows with named columns.                  *)
(***************************************************************************)

RowAt(headers, row) == [name \in Range(headers) |-> row[ColumnOf(headers, name)]]

RowsAt(headers, rows) == [r \in 1..Len(rows) |-> RowAt(headers, rows[r])]

Abs(data) == [columns |-> data.headers, rows |-> RowsAt(data.headers, data.rows)]

(* A column is where its name is.                                          *)
LEMMA ColumnIs ==
  ASSUME NEW headers \in Seq(Fields), Distinct(headers), NEW i \in 1..Len(headers)
  PROVE  /\ headers[i] \in Range(headers)
         /\ ColumnOf(headers, headers[i]) = i
         /\ Store!Position(headers, headers[i]) = i
         /\ FindColumn(headers, headers[i]) = {i}
<1>1. /\ \A k \in 1..Len(headers) : headers[k] = headers[i] => k = i
      /\ Len(headers) \in Nat /\ DOMAIN headers = 1..Len(headers)
  BY DEF Distinct, IsInjective
<1>2. Positions(headers, headers[i]) = {i}
  BY <1>1 DEF Positions
<1>3. Max({i}) = i
  BY <1>1 DEF Max
<1>4. headers[i] \in Range(headers)
  BY <1>1 DEF Range
<1>5. Store!Position(headers, headers[i]) = i
  BY <1>1 DEF Store!Position
<1>6. FindColumn(headers, headers[i]) = {i}
  BY <1>1, <1>2 DEF FindColumn
<1> QED BY <1>2, <1>3, <1>4, <1>5, <1>6 DEF ColumnOf

(* Names are those of columns. *)
LEMMA NamesAre ==
  ASSUME NEW headers \in Seq(Fields), NEW name
  PROVE  name \in Range(headers) <=> \E i \in 1..Len(headers) : name = headers[i]
BY DEF Range

LEMMA RowAtIs ==
  ASSUME NEW headers \in Seq(Fields), Distinct(headers), NEW row
  PROVE  /\ DOMAIN RowAt(headers, row) = Range(headers)
         /\ \A i \in 1..Len(headers) : RowAt(headers, row)[headers[i]] = row[i]
<1>1. ASSUME NEW i \in 1..Len(headers) PROVE RowAt(headers, row)[headers[i]] = row[i]
  BY ColumnIs DEF RowAt
<1> QED BY <1>1 DEF RowAt

(* What gives every name the field of its column is the row. *)
LEMMA SameRow ==
  ASSUME NEW headers \in Seq(Fields), Distinct(headers), NEW row, NEW f,
         f = [name \in Range(headers) |-> f[name]],
         \A i \in 1..Len(headers) : f[headers[i]] = row[i]
  PROVE  f = RowAt(headers, row)
<1>1. ASSUME NEW name \in Range(headers) PROVE f[name] = row[ColumnOf(headers, name)]
  <2>1. PICK i \in 1..Len(headers) : name = headers[i]
    BY NamesAre
  <2>2. ColumnOf(headers, headers[i]) = i
    BY ColumnIs
  <2> QED BY <2>1, <2>2
<1>2. [name \in Range(headers) |-> f[name]]
        = [name \in Range(headers) |-> row[ColumnOf(headers, name)]]
  BY <1>1
<1> QED BY <1>2 DEF RowAt

Gives(f, headers, row) ==
  /\ f = [name \in Range(headers) |-> f[name]]
  /\ \A i \in 1..Len(headers) : f[headers[i]] = row[i]

LEMMA GivesRow ==
  ASSUME NEW headers, headers \in Seq(Fields), Distinct(headers), NEW row, NEW f,
         Gives(f, headers, row)
  PROVE  f = RowAt(headers, row)
BY SameRow DEF Gives

LEMMA StoreRow ==
  ASSUME NEW headers \in Seq(Fields), Distinct(headers), NEW row
  PROVE  Store!Row(headers, row) = RowAt(headers, row)
<1> DEFINE f == Store!Row(headers, row)
<1>1. f = [name \in Range(headers) |-> row[Store!Position(headers, name)]]
  BY Zenon DEF Store!Row, Store!Range, Range
<1>2. \A i \in 1..Len(headers) : f[headers[i]] = row[i]
  <2>1. SUFFICES ASSUME NEW i \in 1..Len(headers) PROVE f[headers[i]] = row[i]
    OBVIOUS
  <2>2. headers[i] \in Range(headers) /\ Store!Position(headers, headers[i]) = i
    BY ColumnIs
  <2> QED BY <1>1, <2>2
<1>3. f = [name \in Range(headers) |-> f[name]]
  BY <1>1
<1> HIDE DEF f
<1> QED BY <1>2, <1>3, SameRow DEF f

(* The table of a file that is tidy. *)
LEMMA TableOfFile ==
  ASSUME TidyInv, tidy
  PROVE  table = Abs(Data)
<1>1. CleanFile(file) /\ file # NoFile
  BY CsvAssumption DEF TidyInv, CleanFile
<1>2. /\ file \in Seq(Seq(Fields)) /\ Len(file) \in Nat \ {0}
      /\ Data = [headers |-> file[1], rows |-> Tail(file)]
  BY <1>1 DEF CleanFile, Data, Parse
<1>3. /\ Len(Tail(file)) = Len(file) - 1
      /\ \A r \in 1..Len(file) - 1 : Tail(file)[r] = file[r + 1]
  BY <1>2
<1>4. [r \in 1..Len(file) - 1 |-> NamedRow(file[r + 1])] = RowsAt(file[1], Tail(file))
  <2>1. \A record : NamedRow(record) = RowAt(file[1], record)
    BY Zenon DEF NamedRow, RowAt
  <2> QED BY <1>3, <2>1 DEF RowsAt
<1> QED BY <1>2, <1>4 DEF table, Abs

LEMMA TableOfNext ==
  ASSUME TidyInv', tidy'
  PROVE  table' = Abs(Data')
<1>1. CleanFile(file') /\ file' # NoFile
  BY CsvAssumption DEF TidyInv, CleanFile
<1>2. /\ file' \in Seq(Seq(Fields)) /\ Len(file') \in Nat \ {0}
      /\ Data' = [headers |-> file'[1], rows |-> Tail(file')]
  BY <1>1 DEF CleanFile, Data, Parse
<1>3. /\ Len(Tail(file')) = Len(file') - 1
      /\ \A r \in 1..Len(file') - 1 : Tail(file')[r] = file'[r + 1]
  BY <1>2
<1>4. [r \in 1..Len(file') - 1 |-> NamedRow(file[r + 1])'] = RowsAt(file'[1], Tail(file'))
  <2>1. \A r \in 1..Len(file') - 1 : NamedRow(file[r + 1])' = RowAt(file'[1], file'[r + 1])
    BY Zenon DEF NamedRow, RowAt
  <2> QED BY <1>3, <2>1 DEF RowsAt
<1> QED BY <1>2, <1>4 DEF table, Abs

(* What is written is read again; without columns, as blank fields. *)
LEMMA WrittenIsRead ==
  ASSUME NEW data, Clean(data), data.headers # <<>>
  PROVE  Parse(Written(data)) = [headers |-> data.headers, rows |-> data.rows]
<1> DEFINE n == Len(data.rows) + 1
<1>1. /\ data.headers \in Seq(Fields) /\ data.rows \in Seq(Seq(Fields))
      /\ \A r \in 1..Len(data.rows) : Len(data.rows[r]) = Len(data.headers)
  BY CleanHas
<1>2. /\ Records(data) \in Seq(Seq(Fields)) /\ Len(Records(data)) = n /\ n \in Nat \ {0}
      /\ Records(data)[1] = data.headers
      /\ \A i \in 1..n : Len(Records(data)[i]) = Len(data.headers)
  BY DEF Records, Clean, Table
<1>3. \A i \in 1..n : OnDisk(Records(data)[i]) = Records(data)[i]
  BY <1>1, <1>2 DEF OnDisk
<1>4. Written(data) = Records(data)
  BY <1>2, <1>3, CleanIsWritable DEF Written
<1>5. Head(Records(data)) = data.headers /\ Tail(Records(data)) = data.rows
  BY <1>1 DEF Records
<1>6. Records(data) # <<>>
  BY <1>2
<1> QED BY <1>4, <1>5, <1>6 DEF Parse

LEMMA BlankIsRead ==
  ASSUME NEW data, Clean(data), data.headers = <<>>
  PROVE  Parse(Written(data)) = [headers |-> <<Blank>>,
                                 rows |-> [r \in 1..Len(data.rows) |-> <<Blank>>]]
<1> DEFINE n == Len(data.rows) + 1
<1>1. /\ Len(data.rows) \in Nat
      /\ \A i \in 1..n : Len(Records(data)[i]) = 0 /\ Records(data)[i] \in Seq(Fields)
  BY DEF Records, Clean, Table
<1>2. \A i \in 1..n : OnDisk(Records(data)[i]) = <<Blank>>
  BY <1>1 DEF OnDisk
<1>3. Written(data) = [i \in 1..n |-> <<Blank>>]
  BY <1>2, CleanIsWritable DEF Written
<1>4. PICK blank \in Seq(Fields) : blank = <<Blank>>
  BY CsvAssumption, OneField
<1> DEFINE w == [i \in 1..n |-> blank]
<1>5. w \in Seq(Seq(Fields)) /\ Len(w) = n /\ n \in Nat \ {0}
  BY <1>1
<1>6. w # <<>> /\ Head(w) = blank
  BY <1>5
<1>7. Tail(w) = [r \in 1..Len(data.rows) |-> blank]
  BY <1>1, <1>5
<1>8. Parse(w) = [headers |-> blank, rows |-> [r \in 1..Len(data.rows) |-> blank]]
  BY <1>6, <1>7 DEF Parse
<1> QED BY <1>3, <1>4, <1>8

-----------------------------------------------------------------------------
(***************************************************************************)
(* Each change of a table is the change of its rows with named columns.    *)
(***************************************************************************)

LEMMA IsSeq ==
  ASSUME NEW S, NEW n \in Nat, NEW f \in [1..n -> S]
  PROVE  f \in Seq(S) /\ Len(f) = n
OBVIOUS

(* The rows with named columns are a sequence, too. *)
LEMMA RowsAtAre ==
  ASSUME NEW headers, NEW rows \in Seq(Seq(Fields))
  PROVE  \E U : /\ RowsAt(headers, rows) \in Seq(U)
                /\ Len(RowsAt(headers, rows)) = Len(rows) /\ Len(rows) \in Nat
                /\ DOMAIN RowsAt(headers, rows) = 1..Len(rows)
                /\ \A r \in 1..Len(rows) : RowsAt(headers, rows)[r] = RowAt(headers, rows[r])
<1> DEFINE U == {RowAt(headers, rows[r]) : r \in 1..Len(rows)}
<1>1. Len(rows) \in Nat
  OBVIOUS
<1>2. RowsAt(headers, rows) \in [1..Len(rows) -> U]
  BY DEF RowsAt
<1>3. \A r \in 1..Len(rows) : RowsAt(headers, rows)[r] = RowAt(headers, rows[r])
  BY DEF RowsAt
<1> HIDE DEF U
<1>4. RowsAt(headers, rows) \in Seq(U) /\ Len(RowsAt(headers, rows)) = Len(rows)
  BY <1>1, <1>2, IsSeq
<1> QED BY <1>1, <1>2, <1>3, <1>4

LEMMA SameRows ==
  ASSUME NEW headers, NEW rows \in Seq(Seq(Fields)), NEW U, NEW s \in Seq(U),
         Len(s) = Len(rows), \A r \in 1..Len(rows) : s[r] = RowAt(headers, rows[r])
  PROVE  s = RowsAt(headers, rows)
<1>1. s = [r \in 1..Len(s) |-> s[r]]
  OBVIOUS
<1> QED BY <1>1 DEF RowsAt

(* An item as a row with named columns, and as a record. *)
LEMMA ItemRefines ==
  ASSUME NEW headers \in Seq(Fields), Distinct(headers), NEW item
  PROVE  Store!Given(headers, item) = RowAt(headers, RowOf(headers, item))
<1>1. CASE "fields" \in DOMAIN item
  BY <1>1, StoreRow DEF Store!Given, RowOf
<1>2. CASE "fields" \notin DOMAIN item
  <2> DEFINE f == [name \in Range(headers) |->
                     IF name \in DOMAIN item.object THEN item.object[name] ELSE Blank]
             row == [i \in 1..Len(headers) |->
                       IF headers[i] \in DOMAIN item.object /\ i = ColumnOf(headers, headers[i])
                         THEN item.object[headers[i]] ELSE Blank]
  <2>1. Store!Given(headers, item) = f
    BY <1>2, Zenon DEF Store!Given, Store!Range, Range
  <2>2. RowOf(headers, item) = row
    BY <1>2, Zenon DEF RowOf
  <2>3. ASSUME NEW i \in 1..Len(headers) PROVE f[headers[i]] = row[i]
    <3>1. headers[i] \in Range(headers) /\ ColumnOf(headers, headers[i]) = i
      BY ColumnIs
    <3> QED BY <3>1
  <2>4. f = [name \in Range(headers) |-> f[name]]
    OBVIOUS
  <2> HIDE DEF f, row
  <2>5. f = RowAt(headers, row)
    BY <2>3, <2>4, SameRow
  <2> QED BY <2>1, <2>2, <2>5
<1> QED BY <1>1, <1>2

LEMMA AddedRefines ==
  ASSUME NEW data, Clean(data), NEW items, Len(items) \in Nat,
         \A i \in 1..Len(items) : IsItem(items[i]),
         NEW result \in AddRows(data, items)
  PROVE  /\ result.headers = data.headers
         /\ RowsAt(data.headers, result.rows)
              = RowsAt(data.headers, data.rows) \o [i \in 1..Len(items) |-> Store!Given(data.headers, items[i])]
<1> DEFINE H == data.headers
           R == data.rows
           added == [i \in 1..Len(items) |-> RowOf(H, items[i])]
           more == [i \in 1..Len(items) |-> Store!Given(H, items[i])]
<1>1. /\ H \in Seq(Fields) /\ Distinct(H) /\ R \in Seq(Seq(Fields)) /\ Len(R) \in Nat
  BY CleanHas
<1>2. result = [headers |-> H, rows |-> R \o added]
  BY WithRows DEF AddRows
<1>3. added \in Seq(Seq(Fields)) /\ Len(added) = Len(items)
  <2>1. \A i \in 1..Len(items) : Fits(H, items[i])
    BY DEF AddRows
  <2>2. \A i \in 1..Len(items) : RowOf(H, items[i]) \in Seq(Fields)
    BY <1>1, <2>1, ItemIsRow
  <2> HIDE DEF H
  <2> QED BY <2>2
<1>4. \A i \in 1..Len(items) : more[i] = RowAt(H, added[i])
  <2>1. \A i \in 1..Len(items) : Store!Given(H, items[i]) = RowAt(H, RowOf(H, items[i]))
    BY <1>1, ItemRefines
  <2> HIDE DEF H
  <2> QED BY <2>1
<1>5. PICK U : /\ RowsAt(H, R) \in Seq(U) /\ Len(RowsAt(H, R)) = Len(R)
               /\ \A r \in 1..Len(R) : RowsAt(H, R)[r] = RowAt(H, R[r])
  BY <1>1, RowsAtAre
<1> DEFINE V == U \cup {more[i] : i \in 1..Len(items)}
<1>6. RowsAt(H, R) \in Seq(V)
  BY <1>5
<1>7. more \in Seq(V) /\ Len(more) = Len(items)
  OBVIOUS
<1> DEFINE rows == R \o added
           both == RowsAt(H, R) \o more
<1> HIDE DEF H, R, added, more, V
<1>8. /\ rows \in Seq(Seq(Fields)) /\ Len(rows) = Len(R) + Len(items)
      /\ \A k \in 1..Len(R) + Len(items) :
           rows[k] = IF k <= Len(R) THEN R[k] ELSE added[k - Len(R)]
  <2>1. /\ rows \in Seq(Seq(Fields)) /\ Len(rows) = Len(R) + Len(added)
        /\ \A k \in 1..Len(R) + Len(added) :
             rows[k] = IF k <= Len(R) THEN R[k] ELSE added[k - Len(R)]
    BY <1>1, <1>3, Joined
  <2> QED BY <1>3, <2>1
<1>9. /\ both \in Seq(V) /\ Len(both) = Len(R) + Len(items)
      /\ \A k \in 1..Len(R) + Len(items) :
           both[k] = IF k <= Len(R) THEN RowsAt(H, R)[k] ELSE more[k - Len(R)]
  <2>1. /\ both \in Seq(V) /\ Len(both) = Len(RowsAt(H, R)) + Len(more)
        /\ \A k \in 1..Len(RowsAt(H, R)) + Len(more) :
             both[k] = IF k <= Len(RowsAt(H, R)) THEN RowsAt(H, R)[k]
                       ELSE more[k - Len(RowsAt(H, R))]
    BY <1>6, <1>7, Joined
  <2> QED BY <1>5, <1>7, <2>1
<1> HIDE DEF rows, both
<1>10. ASSUME NEW k \in 1..Len(rows) PROVE both[k] = RowAt(H, rows[k])
  <2>1. CASE k <= Len(R)
    <3>1. k \in 1..Len(R)
      BY <1>1, <2>1
    <3> QED BY <1>5, <1>8, <1>9, <2>1, <3>1
  <2>2. CASE ~(k <= Len(R))
    <3>1. k - Len(R) \in 1..Len(items)
      BY <1>1, <1>8, <2>2
    <3> QED BY <1>4, <1>8, <1>9, <2>2, <3>1
  <2> QED BY <2>1, <2>2
<1>11. both = RowsAt(H, rows)
  BY <1>8, <1>9, <1>10, SameRows
<1> QED BY <1>2, <1>11 DEF both, rows, more, H, R

LEMMA UpdatedRefines ==
  ASSUME NEW data, Clean(data), NEW row \in Nat, NEW column, NEW value \in Fields,
         NEW result \in UpdateCell(data, row, column, value)
  PROVE  \E i \in ResolveColumn(data.headers, column) :
           /\ result.headers = data.headers
           /\ row + 1 \in 1..Len(data.rows)
           /\ RowsAt(data.headers, result.rows)
                = [RowsAt(data.headers, data.rows) EXCEPT ![row + 1] =
                     [RowAt(data.headers, data.rows[row + 1]) EXCEPT ![data.headers[i]] = value]]
<1> DEFINE H == data.headers
           R == data.rows
<1>0. H \in Seq(Fields) /\ Distinct(H)
  BY CleanHas
<1>1. /\ R \in Seq(Seq(Fields)) /\ Len(R) \in Nat
      /\ \A r \in 1..Len(R) : Len(R[r]) = Len(H)
  <2>1. R \in Seq(Seq(Fields)) /\ \A r \in 1..Len(R) : Len(R[r]) = Len(H)
    BY CleanHas
  <2> QED BY <2>1
<1>2. row + 1 \in 1..Len(R)
  <2>1. row < Len(R)
    BY DEF UpdateCell
  <2> QED BY <1>1, <2>1
<1>3. PICK i \in ResolveColumn(H, column) :
        result = [data EXCEPT !.rows[row + 1] =
          [(IF i <= Len(@) THEN @ ELSE @ \o Blanks(Len(data.headers) - Len(@)))
             EXCEPT ![i] = value]]
  BY DEF UpdateCell
<1>4. i \in 1..Len(H) /\ Len(R[row + 1]) = Len(H) /\ R[row + 1] \in Seq(Fields)
  <2>1. i \in 1..Len(H)
    BY ColumnsAreColumns
  <2> HIDE DEF H, R
  <2> QED BY <1>1, <1>2, <2>1
<1>5. i <= Len(R[row + 1])
  BY <1>4
<1> DEFINE changed == [R[row + 1] EXCEPT ![i] = value]
           rows == [R EXCEPT ![row + 1] = changed]
           was == RowAt(H, R[row + 1])
           now == [was EXCEPT ![H[i]] = value]
           named == [RowsAt(H, R) EXCEPT ![row + 1] = now]
<1>6. result = [headers |-> H, rows |-> rows]
  <2>1. result = [data EXCEPT !.rows = rows]
    BY <1>3, <1>5
  <2> QED BY <2>1, WithRows
<1>7. changed \in Seq(Fields) /\ changed[i] = value
      /\ \A k \in 1..Len(H) : k # i => changed[k] = R[row + 1][k]
  BY <1>4
<1> HIDE DEF H, R, changed
<1>8. now = RowAt(H, changed)
  <2>1. /\ DOMAIN was = Range(H) /\ was = [name \in Range(H) |-> was[name]]
        /\ \A k \in 1..Len(H) : was[H[k]] = R[row + 1][k]
    BY <1>0, RowAtIs DEF RowAt
  <2> HIDE DEF was
  <2>2. \A k \in 1..Len(H) : H[k] \in Range(H) /\ (H[k] = H[i] => k = i)
    BY <1>0, <1>4 DEF Distinct, IsInjective, Range
  <2>3. now = [name \in Range(H) |-> now[name]]
    BY <2>1
  <2>4. ASSUME NEW k \in 1..Len(H) PROVE now[H[k]] = changed[k]
    <3>1. CASE k = i
      BY <1>7, <2>1, <2>2, <3>1
    <3>2. CASE k # i
      BY <1>7, <2>1, <2>2, <3>2
    <3> QED BY <3>1, <3>2
  <2> HIDE DEF now
  <2> QED BY <1>0, <2>3, <2>4, SameRow
<1>9. named = RowsAt(H, rows)
  <2>1. rows \in Seq(Seq(Fields)) /\ Len(rows) = Len(R) /\ rows[row + 1] = changed
        /\ \A r \in 1..Len(R) : r # row + 1 => rows[r] = R[r]
    BY <1>1, <1>2, <1>7
  <2> HIDE DEF rows, now
  <2>2. DOMAIN RowsAt(H, R) = 1..Len(R) /\ \A r \in 1..Len(R) : RowsAt(H, R)[r] = RowAt(H, R[r])
    BY DEF RowsAt
  <2>3. named = [r \in 1..Len(R) |-> IF r = row + 1 THEN now ELSE RowsAt(H, R)[r]]
    BY <2>2
  <2>4. \A r \in 1..Len(R) :
          (IF r = row + 1 THEN now ELSE RowsAt(H, R)[r]) = RowAt(H, rows[r])
    BY <1>8, <2>1, <2>2
  <2>5. RowsAt(H, rows) = [r \in 1..Len(R) |-> RowAt(H, rows[r])]
    BY <2>1 DEF RowsAt
  <2> HIDE DEF named
  <2> QED BY <2>3, <2>4, <2>5
<1>10. /\ result.headers = H /\ result.rows = rows
       /\ RowsAt(H, rows) = [RowsAt(H, R) EXCEPT ![row + 1] = [RowAt(H, R[row + 1]) EXCEPT ![H[i]] = value]]
  BY <1>6, <1>9
<1> HIDE DEF rows, was, now, named
<1>11. /\ result.headers = H /\ row + 1 \in 1..Len(R)
       /\ RowsAt(H, result.rows) = [RowsAt(H, R) EXCEPT ![row + 1] = [RowAt(H, R[row + 1]) EXCEPT ![H[i]] = value]]
  BY <1>2, <1>10
<1> QED BY <1>3, <1>11, Zenon DEF H, R

LEMMA RemovedRowRefines ==
  ASSUME NEW data, Clean(data), NEW row \in Nat, NEW result \in RemoveRow(data, row)
  PROVE  /\ result.headers = data.headers
         /\ RowsAt(data.headers, result.rows)
              = Store!RemoveAt(RowsAt(data.headers, data.rows), row + 1)
<1> DEFINE H == data.headers
           R == data.rows
           rows == RemoveAt(R, row + 1)
           named == Store!RemoveAt(RowsAt(H, R), row + 1)
<1>1. R \in Seq(Seq(Fields)) /\ Len(R) \in Nat
  BY CleanHas
<1>2. row + 1 \in 1..Len(R)
  <2>1. row < Len(R)
    BY DEF RemoveRow
  <2> QED BY <1>1, <2>1
<1>3. result = [headers |-> H, rows |-> rows]
  BY WithRows DEF RemoveRow
<1>4. PICK U : /\ RowsAt(H, R) \in Seq(U) /\ Len(RowsAt(H, R)) = Len(R)
               /\ \A r \in 1..Len(R) : RowsAt(H, R)[r] = RowAt(H, R[r])
  BY <1>1, RowsAtAre
<1>5. named = RemoveAt(RowsAt(H, R), row + 1)
  BY Zenon DEF RemoveAt, Store!RemoveAt
<1> HIDE DEF H, R
<1>6. /\ rows \in Seq(Seq(Fields)) /\ Len(rows) = Len(R) - 1
      /\ \A k \in 1..Len(R) - 1 : rows[k] = R[IF k < row + 1 THEN k ELSE k + 1]
  BY <1>1, <1>2, Removed
<1>7. /\ named \in Seq(U) /\ Len(named) = Len(R) - 1
      /\ \A k \in 1..Len(R) - 1 : named[k] = RowsAt(H, R)[IF k < row + 1 THEN k ELSE k + 1]
  <2>1. row + 1 \in 1..Len(RowsAt(H, R))
    BY <1>2, <1>4
  <2> HIDE DEF named
  <2> QED BY <1>4, <1>5, <2>1, Removed
<1> HIDE DEF rows, named
<1>8. ASSUME NEW k \in 1..Len(rows) PROVE named[k] = RowAt(H, rows[k])
  <2>1. k \in 1..Len(R) - 1 /\ (IF k < row + 1 THEN k ELSE k + 1) \in 1..Len(R)
    BY <1>1, <1>6
  <2> QED BY <1>4, <1>6, <1>7, <2>1
<1>9. named = RowsAt(H, rows)
  BY <1>6, <1>7, <1>8, SameRows
<1> QED BY <1>3, <1>9 DEF named, H, R

(* A column more. *)
LEMMA WiderRow ==
  ASSUME NEW H \in Seq(Fields), NEW name \in Fields, NEW default \in Fields,
         Distinct(H), Distinct(Append(H, name)), \A i \in 1..Len(H) : H[i] # name,
         NEW row \in Seq(Fields), Len(row) = Len(H)
  PROVE  Store!With(RowAt(H, row), name, default)
           = RowAt(Append(H, name), Append(row, default))
<1> DEFINE was == RowAt(H, row)
           now == Store!With(was, name, default)
           H2 == Append(H, name)
           row2 == Append(row, default)
<1>1. /\ H2 \in Seq(Fields) /\ Len(H2) = Len(H) + 1 /\ Len(H) \in Nat
      /\ H2[Len(H) + 1] = name /\ \A i \in 1..Len(H) : H2[i] = H[i]
  OBVIOUS
<1>2. row2[Len(H) + 1] = default /\ \A i \in 1..Len(H) : row2[i] = row[i]
  OBVIOUS
<1>3. DOMAIN was = Range(H) /\ \A i \in 1..Len(H) : was[H[i]] = row[i]
  BY RowAtIs
<1>4. Range(H2) = Range(H) \cup {name}
  <2>1. DOMAIN H2 = 1..Len(H) + 1 /\ DOMAIN H = 1..Len(H)
    BY <1>1
  <2>2. 1..Len(H) + 1 = (1..Len(H)) \cup {Len(H) + 1}
    BY <1>1
  <2> HIDE DEF H2
  <2> QED BY <1>1, <2>1, <2>2 DEF Range
<1>5. Distinct(H2)
  OBVIOUS
<1> HIDE DEF was, H2, row2
<1>0. now = [n \in DOMAIN was \cup {name} |-> IF n = name THEN default ELSE was[n]]
  BY DEF Store!With
<1> HIDE DEF now
<1>6. now = [n \in Range(H2) |-> now[n]]
  BY <1>0, <1>3, <1>4
<1>7. ASSUME NEW i \in 1..Len(H2) PROVE now[H2[i]] = row2[i]
  <2>1. CASE i = Len(H) + 1
    BY <1>0, <1>1, <1>2, <2>1
  <2>2. CASE i # Len(H) + 1
    <3>1. i \in 1..Len(H)
      BY <1>1, <2>2
    <3>2. H[i] \in DOMAIN was
      BY <1>3, <3>1 DEF Range
    <3> QED BY <1>0, <1>1, <1>2, <1>3, <3>1, <3>2
  <2> QED BY <2>1, <2>2
<1>8. now = RowAt(H2, row2)
  <2>1. H2 \in Seq(Fields)
    BY <1>1
  <2>2. Gives(now, H2, row2)
    BY <1>6, <1>7 DEF Gives
  <2> QED BY <1>5, <2>1, <2>2, GivesRow
<1> QED BY <1>8 DEF now, was, H2, row2

Widened(rows, name, value) == [r \in 1..Len(rows) |-> Store!With(rows[r], name, value)]

LEMMA AddedColumnRefines ==
  ASSUME NEW data, Clean(data), NEW name \in Fields, NEW default \in Fields,
         NEW result \in AddColumn(data, name, default)
  PROVE  /\ result.headers = Append(data.headers, name)
         /\ RowsAt(result.headers, result.rows)
              = Widened(RowsAt(data.headers, data.rows), name, default)
<1> DEFINE H == data.headers
           R == data.rows
           named == RowsAt(H, R)
           wider == [r \in 1..Len(named) |-> Store!With(named[r], name, default)]
           H2 == Append(H, name)
           R2 == [r \in 1..Len(R) |-> Append(R[r], default)]
<1>1. H \in Seq(Fields) /\ Distinct(H) /\ R \in Seq(Seq(Fields))
  BY CleanHas
<1>2. \A r \in 1..Len(R) : Len(R[r]) = Len(H)
  BY CleanHas
<1>3. (\A i \in 1..Len(H) : H[i] # name) /\ result = [headers |-> H2, rows |-> R2]
  BY DEF AddColumn, HasColumn, Positions
<1>4. Distinct(H2)
  <2>1. Distinct(result.headers)
    BY AddedColumnIsClean, CleanHas
  <2> QED BY <1>3, <2>1
<1>5. Len(named) = Len(R) /\ \A r \in 1..Len(R) : named[r] = RowAt(H, R[r])
  BY <1>1, RowsAtAre
<1>6. Len(R2) = Len(R) /\ \A r \in 1..Len(R) : R2[r] = Append(R[r], default)
  BY <1>1
<1> HIDE DEF named, H, R, R2
<1>7. ASSUME NEW r \in 1..Len(R)
      PROVE  Store!With(named[r], name, default) = RowAt(H2, R2[r])
  <2>1. R[r] \in Seq(Fields) /\ Len(R[r]) = Len(H)
    BY <1>1, <1>2
  <2>2. Store!With(RowAt(H, R[r]), name, default) = RowAt(H2, Append(R[r], default))
    BY <1>1, <1>3, <1>4, <2>1, WiderRow
  <2> QED BY <1>5, <1>6, <2>2
<1>8. wider = [r \in 1..Len(R2) |-> RowAt(H2, R2[r])]
  BY <1>5, <1>6, <1>7
<1>9. wider = RowsAt(H2, R2)
  BY <1>8 DEF RowsAt
<1>10. result.headers = H2 /\ result.rows = R2
  BY <1>3
<1> HIDE DEF wider, H2
<1>11. result.headers = H2 /\ RowsAt(result.headers, result.rows) = wider
  BY <1>9, <1>10
<1> QED BY <1>11 DEF Widened, wider, named, H2, H, R

(* A column less. *)
LEMMA NarrowerRow ==
  ASSUME NEW H \in Seq(Fields), NEW i \in 1..Len(H),
         Distinct(H), Distinct(RemoveAt(H, i)),
         NEW row \in Seq(Fields), Len(row) = Len(H)
  PROVE  Store!Without(RowAt(H, row), H[i]) = RowAt(RemoveAt(H, i), RemoveAt(row, i))
<1> DEFINE was == RowAt(H, row)
           now == Store!Without(was, H[i])
           H2 == RemoveAt(H, i)
           row2 == RemoveAt(row, i)
<1>1. /\ H2 \in Seq(Fields) /\ Len(H2) = Len(H) - 1 /\ Len(H) \in Nat
      /\ \A k \in 1..Len(H) - 1 : H2[k] = H[IF k < i THEN k ELSE k + 1]
  BY Removed
<1>2. \A k \in 1..Len(H) - 1 : row2[k] = row[IF k < i THEN k ELSE k + 1]
  BY Removed
<1>3. DOMAIN was = Range(H) /\ \A k \in 1..Len(H) : was[H[k]] = row[k]
  BY RowAtIs
<1>4. Distinct(H2)
  OBVIOUS
<1> HIDE DEF was, H2, row2
<1>5. ASSUME NEW k \in 1..Len(H) - 1
      PROVE  /\ (IF k < i THEN k ELSE k + 1) \in 1..Len(H)
             /\ (IF k < i THEN k ELSE k + 1) # i
  BY <1>1
<1>6. Range(H2) = Range(H) \ {H[i]}
  <2>1. \A j, k \in 1..Len(H) : H[j] = H[k] => j = k
    BY DEF Distinct, IsInjective
  <2>2. ASSUME NEW k \in 1..Len(H2) PROVE H2[k] \in Range(H) /\ H2[k] # H[i]
    <3>1. k \in 1..Len(H) - 1
      BY <1>1
    <3>2. PICK j \in 1..Len(H) : j # i /\ H2[k] = H[j]
      BY <1>1, <1>5, <3>1
    <3> QED BY <2>1, <3>2 DEF Range
  <2>3. ASSUME NEW j \in 1..Len(H), H[j] # H[i] PROVE \E k \in 1..Len(H2) : H2[k] = H[j]
    <3>1. j # i
      BY <2>3
    <3>2. CASE j < i
      <4>1. j \in 1..Len(H) - 1 /\ j < i
        BY <1>1, <3>2
      <4>2. H2[j] = H[j] /\ j \in 1..Len(H2)
        BY <1>1, <4>1
      <4> QED BY <4>2
    <3>3. CASE j > i
      <4>1. j - 1 \in 1..Len(H) - 1 /\ ~(j - 1 < i) /\ j - 1 + 1 = j
        BY <1>1, <3>3
      <4>2. H2[j - 1] = H[j] /\ j - 1 \in 1..Len(H2)
        BY <1>1, <4>1
      <4> QED BY <4>2
    <3> QED BY <3>1, <3>2, <3>3
  <2>4. ASSUME NEW n \in Range(H2) PROVE n \in Range(H) \ {H[i]}
    BY <1>1, <2>2, NamesAre
  <2>5. ASSUME NEW n \in Range(H) \ {H[i]} PROVE n \in Range(H2)
    <3>1. PICK j \in 1..Len(H) : n = H[j]
      BY NamesAre
    <3>2. PICK k \in 1..Len(H2) : H2[k] = H[j]
      BY <2>3, <3>1
    <3> QED BY <1>1, <3>1, <3>2, NamesAre
  <2> QED BY <2>4, <2>5
<1>0. now = [n \in DOMAIN was \ {H[i]} |-> was[n]]
  BY DEF Store!Without
<1> HIDE DEF now
<1>7. now = [n \in Range(H2) |-> now[n]]
  BY <1>0, <1>3, <1>6
<1>8. ASSUME NEW k \in 1..Len(H2) PROVE now[H2[k]] = row2[k]
  <2>1. k \in 1..Len(H) - 1
    BY <1>1
  <2> DEFINE j == IF k < i THEN k ELSE k + 1
  <2>2. j \in 1..Len(H) /\ H2[k] = H[j] /\ row2[k] = row[j]
    BY <1>1, <1>2, <1>5, <2>1
  <2>3. H2[k] \in Range(H2)
    BY <1>1 DEF Range
  <2> HIDE DEF j
  <2>4. H2[k] \in DOMAIN was \ {H[i]}
    BY <1>3, <1>6, <2>3
  <2> QED BY <1>0, <1>3, <2>2, <2>4
<1>9. now = RowAt(H2, row2)
  <2>1. H2 \in Seq(Fields)
    BY <1>1
  <2>2. Gives(now, H2, row2)
    BY <1>7, <1>8 DEF Gives
  <2> QED BY <1>4, <2>1, <2>2, GivesRow
<1> QED BY <1>9 DEF now, was, H2, row2

TakenOut(data, i) ==
  [headers |-> RemoveAt(data.headers, i),
   rows |-> [r \in 1..Len(data.rows) |-> RemoveAt(data.rows[r], i)]]

LEMMA RemovedColumnIs ==
  ASSUME NEW data, Clean(data), NEW column, NEW result \in RemoveColumn(data, column)
  PROVE  \E i \in ResolveColumn(data.headers, column) :
           i \in 1..Len(data.headers) /\ result = TakenOut(data, i)
<1>1. PICK i \in ResolveColumn(data.headers, column) :
        result = [headers |-> RemoveAt(data.headers, i),
                  rows |-> [r \in 1..Len(data.rows) |->
                              IF i <= Len(data.rows[r]) THEN RemoveAt(data.rows[r], i)
                              ELSE data.rows[r]]]
  BY DEF RemoveColumn
<1>2. i \in 1..Len(data.headers)
  BY ColumnsAreColumns
<1>3. \A r \in 1..Len(data.rows) : i <= Len(data.rows[r])
  <2>1. \A r \in 1..Len(data.rows) : Len(data.rows[r]) = Len(data.headers)
    BY CleanHas
  <2> QED BY <1>2, <2>1
<1>4. [r \in 1..Len(data.rows) |->
         IF i <= Len(data.rows[r]) THEN RemoveAt(data.rows[r], i) ELSE data.rows[r]]
        = [r \in 1..Len(data.rows) |-> RemoveAt(data.rows[r], i)]
  BY <1>3
<1>5. result = [headers |-> RemoveAt(data.headers, i),
                rows |-> [r \in 1..Len(data.rows) |-> RemoveAt(data.rows[r], i)]]
  BY <1>1, <1>4
<1> QED BY <1>2, <1>5 DEF TakenOut

Narrowed(rows, name) == [r \in 1..Len(rows) |-> Store!Without(rows[r], name)]

LEMMA RemovedColumnRefines ==
  ASSUME NEW data, Clean(data), NEW i \in 1..Len(data.headers), NEW result, Clean(result),
         result = TakenOut(data, i)
  PROVE  /\ Len(RowsAt(data.headers, data.rows)) = Len(data.rows)
         /\ RowsAt(result.headers, result.rows)
              = Narrowed(RowsAt(data.headers, data.rows), data.headers[i])
<1> DEFINE H == data.headers
           R == data.rows
           named == RowsAt(H, R)
           narrower == [r \in 1..Len(named) |-> Store!Without(named[r], H[i])]
           H2 == RemoveAt(H, i)
           R2 == [r \in 1..Len(R) |-> RemoveAt(R[r], i)]
<1>1. H \in Seq(Fields) /\ Distinct(H) /\ R \in Seq(Seq(Fields))
  BY CleanHas
<1>2. \A r \in 1..Len(R) : Len(R[r]) = Len(H)
  BY CleanHas
<1>3. result.headers = H2 /\ result.rows = R2
  BY DEF TakenOut
<1>4. Distinct(H2)
  <2>1. Distinct(result.headers)
    BY CleanHas
  <2> QED BY <1>3, <2>1
<1>5. Len(named) = Len(R) /\ \A r \in 1..Len(R) : named[r] = RowAt(H, R[r])
  BY <1>1, RowsAtAre
<1>6. Len(R2) = Len(R) /\ \A r \in 1..Len(R) : R2[r] = RemoveAt(R[r], i)
  <2>1. Len(R) \in Nat
    BY <1>1
  <2> QED BY <2>1
<1>0. i \in 1..Len(H)
  OBVIOUS
<1> HIDE DEF named, H, R, R2
<1>7. ASSUME NEW r \in 1..Len(R)
      PROVE  Store!Without(named[r], H[i]) = RowAt(H2, R2[r])
  <2>1. R[r] \in Seq(Fields) /\ Len(R[r]) = Len(H)
    BY <1>1, <1>2
  <2>2. Store!Without(RowAt(H, R[r]), H[i]) = RowAt(H2, RemoveAt(R[r], i))
    BY <1>0, <1>1, <1>4, <2>1, NarrowerRow
  <2> QED BY <1>5, <1>6, <2>2
<1>8. narrower = [r \in 1..Len(R2) |-> RowAt(H2, R2[r])]
  BY <1>5, <1>6, <1>7
<1>9. narrower = RowsAt(H2, R2)
  BY <1>8 DEF RowsAt
<1> HIDE DEF narrower, H2
<1>10. RowsAt(result.headers, result.rows) = narrower
  BY <1>3, <1>9
<1> QED BY <1>5, <1>10 DEF Narrowed, narrower, named, H, R

(* A column with another name. *)
LEMMA RelabelledRow ==
  ASSUME NEW H \in Seq(Fields), NEW i \in 1..Len(H), NEW new \in Fields,
         Distinct(H), Distinct([H EXCEPT ![i] = new]), NEW row
  PROVE  Store!Relabelled(RowAt(H, row), H[i], new) = RowAt([H EXCEPT ![i] = new], row)
<1> DEFINE was == RowAt(H, row)
           old == H[i]
           names == {IF m = old THEN new ELSE m : m \in DOMAIN was}
           now == Store!Relabelled(was, old, new)
           H2 == [H EXCEPT ![i] = new]
<1>1. /\ H2 \in Seq(Fields) /\ Len(H2) = Len(H) /\ Len(H) \in Nat
      /\ H2[i] = new /\ \A k \in 1..Len(H) : k # i => H2[k] = H[k]
  OBVIOUS
<1>2. DOMAIN was = Range(H) /\ \A k \in 1..Len(H) : was[H[k]] = row[k]
  BY RowAtIs
<1>3. Distinct(H2)
  OBVIOUS
<1>4. \A j, k \in 1..Len(H) : H[j] = H[k] => j = k
  BY DEF Distinct, IsInjective
<1> HIDE DEF was, H2
<1>5. \A j, k \in 1..Len(H) : H2[j] = H2[k] => j = k
  BY <1>1, <1>3 DEF Distinct, IsInjective
<1>6. ASSUME NEW k \in 1..Len(H)
      PROVE  H2[k] = (IF H[k] = old THEN new ELSE H[k]) /\ H[k] \in DOMAIN was
  <2>1. H[k] \in DOMAIN was
    BY <1>2, NamesAre
  <2> QED BY <1>1, <1>4, <2>1
<1>7. names = Range(H2)
  <2>1. ASSUME NEW n \in names PROVE n \in Range(H2)
    <3>1. PICK m \in DOMAIN was : n = IF m = old THEN new ELSE m
      OBVIOUS
    <3>2. PICK k \in 1..Len(H) : m = H[k]
      BY <1>2, NamesAre
    <3>3. n = H2[k]
      BY <1>6, <3>1, <3>2
    <3> QED BY <1>1, <3>3, NamesAre
  <2>2. ASSUME NEW n \in Range(H2) PROVE n \in names
    <3>1. PICK k \in 1..Len(H2) : n = H2[k]
      BY <1>1, NamesAre
    <3>2. k \in 1..Len(H)
      BY <1>1
    <3> QED BY <1>6, <3>1, <3>2
  <2> HIDE DEF names
  <2> QED BY <2>1, <2>2
<1>0. now = [n \in names |-> was[IF n = new THEN old ELSE n]]
  BY Zenon DEF Store!Relabelled
<1> HIDE DEF names, now
<1>8. now = [n \in Range(H2) |-> now[n]]
  BY <1>0, <1>7
<1>9. ASSUME NEW k \in 1..Len(H2) PROVE now[H2[k]] = row[k]
  <2>1. H2[k] \in names /\ k \in 1..Len(H)
    BY <1>1, <1>7 DEF Range
  <2>2. now[H2[k]] = was[IF H2[k] = new THEN old ELSE H2[k]]
    BY <1>0, <2>1
  <2>3. (IF H2[k] = new THEN old ELSE H2[k]) = H[k]
    BY <1>1, <1>5, <2>1
  <2> QED BY <1>2, <2>1, <2>2, <2>3
<1>10. now = RowAt(H2, row)
  <2>1. H2 \in Seq(Fields)
    BY <1>1
  <2>2. Gives(now, H2, row)
    BY <1>8, <1>9 DEF Gives
  <2> QED BY <1>3, <2>1, <2>2, GivesRow
<1> QED BY <1>10 DEF now, names, was, H2

LEMMA RenamedRefines ==
  ASSUME NEW data, Clean(data), NEW old \in Fields, NEW new \in Fields,
         NEW result \in RenameColumn(data, old, new)
  PROVE  LET named == RowsAt(data.headers, data.rows)
         IN /\ result.headers = [i \in 1..Len(data.headers) |->
                                   IF data.headers[i] = old THEN new ELSE data.headers[i]]
            /\ RowsAt(result.headers, result.rows) =
                 [r \in 1..Len(named) |-> Store!Relabelled(named[r], old, new)]
<1> DEFINE H == data.headers
           R == data.rows
           named == RowsAt(H, R)
           relabelled == [r \in 1..Len(named) |-> Store!Relabelled(named[r], old, new)]
<1>1. H \in Seq(Fields) /\ Distinct(H) /\ R \in Seq(Seq(Fields))
  BY CleanHas
<1>2. PICK i \in FindColumn(H, old) : result = [data EXCEPT !.headers[i] = new]
  BY DEF RenameColumn
<1>3. i \in 1..Len(H) /\ H[i] = old
  BY <1>2 DEF FindColumn, Positions
<1> DEFINE H2 == [H EXCEPT ![i] = new]
<1>4. result = [headers |-> H2, rows |-> R]
  BY <1>2, WithHeaders
<1>5. Distinct(H2)
  <2>1. Distinct(result.headers)
    BY RenamedIsClean, CleanHas
  <2> QED BY <1>4, <2>1
<1>6. Len(named) = Len(R) /\ \A r \in 1..Len(R) : named[r] = RowAt(H, R[r])
  BY <1>1, RowsAtAre
<1>7. result.headers = H2 /\ result.rows = R
  BY <1>4
<1> HIDE DEF named, H, R
<1>8. \A j, k \in 1..Len(H) : H[j] = H[k] => j = k
  BY <1>1 DEF Distinct, IsInjective
<1>9. H2 = [k \in 1..Len(H) |-> IF H[k] = old THEN new ELSE H[k]]
  BY <1>1, <1>3, <1>8
<1>10. ASSUME NEW r \in 1..Len(R) PROVE Store!Relabelled(named[r], old, new) = RowAt(H2, R[r])
  <2>1. named[r] = RowAt(H, R[r])
    BY <1>6
  <2>2. Store!Relabelled(RowAt(H, R[r]), H[i], new) = RowAt(H2, R[r])
    <3>1. i \in 1..Len(H) /\ Distinct(H2) /\ H \in Seq(Fields) /\ Distinct(H)
      BY <1>1, <1>3, <1>5
    <3> QED BY <3>1, RelabelledRow
  <2> QED BY <1>3, <2>1, <2>2
<1>11. relabelled = [r \in 1..Len(R) |-> RowAt(H2, R[r])]
  BY <1>6, <1>10
<1>12. relabelled = RowsAt(H2, R)
  BY <1>11 DEF RowsAt
<1> HIDE DEF relabelled, H2
<1>13. /\ result.headers = [k \in 1..Len(H) |-> IF H[k] = old THEN new ELSE H[k]]
       /\ RowsAt(result.headers, result.rows) = relabelled
  BY <1>7, <1>9, <1>12
<1> QED BY <1>13, Zenon DEF relabelled, named, H, R

-----------------------------------------------------------------------------
(***************************************************************************)
(* Each call is a step of TableStore.                                      *)
(***************************************************************************)

(* A call keeps its arguments. *)
LEMMA CallIs ==
  ASSUME NEW request, NEW outcome, Outcome(request, outcome)
  PROVE  /\ call'.outcome = outcome
         /\ \A field \in DOMAIN request \ {"outcome"} : call'[field] = request[field]
BY DEF Outcome

LEMMA SameTable ==
  ASSUME UNCHANGED <<file, tidy>>
  PROVE  UNCHANGED table
BY DEF table, NamedRow

LEMMA FailRefines ==
  ASSUME NEW request, Fail(request)
  PROVE  Store!Fails
<1>1. call'.outcome = "error"
  BY CallIs DEF Fail
<1>2. UNCHANGED table
  BY SameTable DEF Fail
<1> QED BY <1>1, <1>2 DEF Store!Fails

LEMMA TornRefines ==
  ASSUME NEW request, Outcome(request, "torn"), tidy' = FALSE
  PROVE  Store!Loses
<1>1. call'.outcome = "torn"
  BY CallIs
<1>2. table' = NoTable
  BY DEF table
<1> QED BY <1>1, <1>2 DEF Store!Loses

(* The table that is read where a clean one was written. *)
After(data) ==
  IF data.headers = <<>>
    THEN [columns |-> <<Blank>>, rows |-> [r \in 1..Len(data.rows) |-> Store!Empty]]
    ELSE Abs(data)

LEMMA EmptyIs == RowAt(<<Blank>>, <<Blank>>) = Store!Empty
<1>1. PICK one \in Seq(Fields) : one = <<Blank>> /\ Distinct(one)
  BY CsvAssumption, OneField
<1>2. Len(one) = 1 /\ one[1] = Blank
  BY <1>1
<1>3. ColumnOf(one, one[1]) = 1
  <2>1. 1 \in 1..Len(one)
    BY <1>2
  <2> QED BY <1>1, <2>1, ColumnIs
<1>4. Range(one) = {Blank}
  BY <1>2 DEF Range
<1>5. \A name \in {Blank} : one[ColumnOf(one, name)] = Blank
  BY <1>2, <1>3
<1>6. RowAt(one, one) = [name \in {Blank} |-> Blank]
  BY <1>4, <1>5 DEF RowAt
<1> QED BY <1>1, <1>6 DEF Store!Empty

LEMMA AfterIs ==
  ASSUME NEW data, Clean(data)
  PROVE  Abs(Parse(Written(data))) = After(data)
<1>1. CASE data.headers = <<>>
  <2> DEFINE rows == [r \in 1..Len(data.rows) |-> <<Blank>>]
  <2>1. Parse(Written(data)) = [headers |-> <<Blank>>, rows |-> rows]
    BY <1>1, BlankIsRead
  <2>2. Len(data.rows) \in Nat
    <3>1. data.rows \in Seq(Seq(Fields))
      BY CleanHas
    <3> QED BY <3>1
  <2>3. Len(rows) = Len(data.rows) /\ \A r \in 1..Len(data.rows) : rows[r] = <<Blank>>
    BY <2>2
  <2> HIDE DEF rows
  <2>4. RowsAt(<<Blank>>, rows) = [r \in 1..Len(data.rows) |-> Store!Empty]
    BY <2>3, EmptyIs DEF RowsAt
  <2> QED BY <1>1, <2>1, <2>4 DEF Abs, After
<1>2. CASE data.headers # <<>>
  <2>1. Parse(Written(data)) = [headers |-> data.headers, rows |-> data.rows]
    BY <1>2, WrittenIsRead
  <2> QED BY <1>2, <2>1 DEF Abs, After
<1> QED BY <1>1, <1>2

(* A change that is done: the table was one of the tools', and is.         *)
Done(request, data) ==
  /\ Outcome(request, "ok")
  /\ Clean(Data) /\ Data.headers # <<>>
  /\ table = Abs(Data)
  /\ table' = After(data)

LEMMA HeadersThere ==
  ASSUME TidyInv, FileInv, tidy
  PROVE  Data.headers # <<>>
<1>1. CleanFile(file) /\ file # NoFile
  BY CsvAssumption DEF TidyInv, CleanFile
<1>2. file \in Seq(Line) /\ file # <<>>
  BY <1>1 DEF FileInv, CleanFile
<1>3. file[1] \in Line /\ Head(file) = file[1]
  BY <1>2
<1>4. Data.headers = file[1]
  BY <1>1, <1>2, <1>3 DEF Data, Parse
<1> QED BY <1>3, <1>4 DEF Line

LEMMA SaveRefines ==
  ASSUME NEW request, NEW data, Clean(data), Save(request, data, TRUE)
  PROVE  Store!Loses \/ (Outcome(request, "ok") /\ table' = After(data))
<1>1. CASE /\ file' = Written(data) /\ tidy'
           /\ Outcome(request, IF Writable(data) THEN "ok" ELSE "error")
  <2>1. Outcome(request, "ok")
    BY <1>1, CleanIsWritable
  <2>2. CleanFile(file')
    BY <1>1, WrittenIsClean
  <2>3. TidyInv'
    BY <2>2 DEF TidyInv
  <2>4. Data' = Parse(Written(data))
    <3>1. file' # NoFile
      BY <2>2, CsvAssumption DEF CleanFile
    <3> QED BY <1>1, <3>1 DEF Data
  <2>5. table' = Abs(Data')
    BY <1>1, <2>3, TableOfNext
  <2>6. Abs(Parse(Written(data))) = After(data)
    BY AfterIs
  <2> QED BY <2>1, <2>4, <2>5, <2>6
<1>2. CASE Outcome(request, "torn") /\ tidy' = FALSE
  BY <1>2, TornRefines
<1> QED BY <1>1, <1>2 DEF Save

LEMMA RewriteRefines ==
  ASSUME TidyInv, FileInv, NEW request, "tool" \in DOMAIN request,
         request.tool # "csv_create", NEW results, Rewrite(request, results), tidy \in BOOLEAN,
         ASSUME tidy, NEW data \in results PROVE Clean(data)
  PROVE  \/ Store!Fails \/ Store!Loses \/ Store!NotOurs
         \/ \E data \in results : Done(request, data)
<1>1. CASE Fail(request)
  BY <1>1, FailRefines
<1>2. ASSUME NEW data \in results, Save(request, data, tidy)
      PROVE  \/ Store!Loses \/ Store!NotOurs \/ Done(request, data)
  <2>1. CASE tidy
    <3>1. Save(request, data, TRUE) /\ Clean(data)
      BY <1>2, <2>1
    <3>2. Store!Loses \/ (Outcome(request, "ok") /\ table' = After(data))
      BY <3>1, SaveRefines
    <3>3. Clean(Data) /\ Data.headers # <<>> /\ table = Abs(Data)
      BY <2>1, DataIsClean, HeadersThere, TableOfFile
    <3> QED BY <3>2, <3>3 DEF Done
  <2>2. CASE ~tidy
    <3>1. CASE tidy' = tidy /\ \E outcome : Outcome(request, outcome)
      <4>1. call'.tool = request.tool
        BY <3>1, CallIs
      <4>2. table = NoTable /\ table' = NoTable
        BY <2>2, <3>1 DEF table
      <4> QED BY <4>1, <4>2 DEF Store!NotOurs
    <3>2. CASE Outcome(request, "torn") /\ tidy' = FALSE
      BY <3>2, TornRefines
    <3> QED BY <1>2, <3>1, <3>2 DEF Save
  <2> QED BY <2>1, <2>2
<1> QED BY <1>1, <1>2 DEF Rewrite

(* A tool that changes a table with columns. *)
LEMMA DoneIs ==
  ASSUME NEW request, NEW data, "tool" \in DOMAIN request, Done(request, data)
  PROVE  /\ Store!Called(request.tool)
         /\ table.columns = Data.headers /\ table.rows = RowsAt(Data.headers, Data.rows)
         /\ table = [columns |-> Data.headers, rows |-> RowsAt(Data.headers, Data.rows)]
         /\ data.headers # <<>> =>
              table' = [columns |-> data.headers, rows |-> RowsAt(data.headers, data.rows)]
<1>1. call'.tool = request.tool /\ call'.outcome = "ok"
  BY CallIs DEF Done
<1>2. table = [columns |-> Data.headers, rows |-> RowsAt(Data.headers, Data.rows)]
  BY DEF Done, Abs
<1>3. table.columns = Data.headers /\ table.rows = RowsAt(Data.headers, Data.rows)
  BY <1>2
<1>4. table # NoTable
  BY <1>3 DEF Done, NoTable
<1>5. data.headers # <<>> =>
        table' = [columns |-> data.headers, rows |-> RowsAt(data.headers, data.rows)]
  BY DEF Done, After, Abs
<1> QED BY <1>1, <1>2, <1>3, <1>4, <1>5 DEF Store!Called

LEMMA RowsWith ==
  ASSUME NEW columns, NEW rows, NEW others
  PROVE  [[columns |-> columns, rows |-> rows] EXCEPT !.rows = others]
           = [columns |-> columns, rows |-> others]
OBVIOUS

LEMMA CellWith ==
  ASSUME NEW columns, NEW rows, NEW k, NEW name, NEW value
  PROVE  [[columns |-> columns, rows |-> rows] EXCEPT !.rows[k][name] = value]
           = [columns |-> columns, rows |-> [rows EXCEPT ![k] = [rows[k] EXCEPT ![name] = value]]]
OBVIOUS

(* The name of the column a call resolves to. *)
LEMMA NamedIs ==
  ASSUME NEW column, NEW i \in ResolveColumn(table.columns, column)
  PROVE  Store!Named(column) = table.columns[i]
BY DEF ResolveColumn, FindColumn, Positions, Store!Named

LEMMA AddRowRefines ==
  ASSUME NEW items, Len(items) \in Nat, \A i \in 1..Len(items) : IsItem(items[i]),
         NEW result \in AddRows(Data, items),
         Done([tool |-> "csv_add_row", items |-> items], result)
  PROVE  Store!AddsRows
<1> DEFINE request == [tool |-> "csv_add_row", items |-> items]
           more == [i \in 1..Len(items) |-> Store!Given(Data.headers, items[i])]
<1>1. Store!Called("csv_add_row") /\ call'.items = items
  BY DoneIs, CallIs DEF Done
<1>2. Clean(Data) /\ Data.headers # <<>>
  BY DEF Done
<1>3. /\ result.headers = Data.headers
      /\ RowsAt(Data.headers, result.rows) = RowsAt(Data.headers, Data.rows) \o more
  BY <1>2, AddedRefines
<1>4. /\ table.columns = Data.headers /\ table.rows = RowsAt(Data.headers, Data.rows)
      /\ table = [columns |-> Data.headers, rows |-> RowsAt(Data.headers, Data.rows)]
      /\ table' = [columns |-> Data.headers, rows |-> RowsAt(Data.headers, result.rows)]
  <2>1. "tool" \in DOMAIN request
    OBVIOUS
  <2> HIDE DEF request
  <2> QED BY <1>2, <1>3, <2>1, DoneIs DEF request
<1> DEFINE longer == RowsAt(Data.headers, Data.rows) \o more
<1>5. table' = [table EXCEPT !.rows = table.rows \o more]
  <2>1. table.rows \o more = longer /\ table' = [columns |-> Data.headers, rows |-> longer]
    BY <1>3, <1>4
  <2> HIDE DEF longer
  <2>2. [table EXCEPT !.rows = longer] = [columns |-> Data.headers, rows |-> longer]
    BY <1>4, RowsWith
  <2> QED BY <2>1, <2>2
<1> QED BY <1>1, <1>4, <1>5 DEF Store!AddsRows

LEMMA UpdateRefines ==
  ASSUME NEW row \in Nat, NEW column, NEW value \in Fields,
         NEW result \in UpdateCell(Data, row, column, value),
         Done([tool |-> "csv_update_cell", row |-> row, column |-> column, value |-> value], result)
  PROVE  Store!UpdatesCell
<1> DEFINE request == [tool |-> "csv_update_cell", row |-> row, column |-> column, value |-> value]
<1>1. Store!Called("csv_update_cell")
      /\ call'.row = row /\ call'.column = column /\ call'.value = value
  BY DoneIs, CallIs DEF Done
<1>2. Clean(Data) /\ Data.headers # <<>>
  BY DEF Done
<1>3. PICK i \in ResolveColumn(Data.headers, column) :
        /\ result.headers = Data.headers /\ row + 1 \in 1..Len(Data.rows)
        /\ RowsAt(Data.headers, result.rows)
             = [RowsAt(Data.headers, Data.rows) EXCEPT ![row + 1] =
                  [RowAt(Data.headers, Data.rows[row + 1]) EXCEPT ![Data.headers[i]] = value]]
  BY <1>2, UpdatedRefines
<1>4. /\ table.columns = Data.headers /\ table.rows = RowsAt(Data.headers, Data.rows)
      /\ table = [columns |-> Data.headers, rows |-> RowsAt(Data.headers, Data.rows)]
      /\ table' = [columns |-> Data.headers, rows |-> RowsAt(Data.headers, result.rows)]
  <2>1. "tool" \in DOMAIN request
    OBVIOUS
  <2> HIDE DEF request
  <2> QED BY <1>2, <1>3, <2>1, DoneIs DEF request
<1>5. Store!Named(column) = Data.headers[i]
  BY <1>4, NamedIs
<1>6. RowsAt(Data.headers, Data.rows)[row + 1] = RowAt(Data.headers, Data.rows[row + 1])
  BY <1>3 DEF RowsAt
<1>7. table' = [table EXCEPT !.rows[row + 1][Data.headers[i]] = value]
  BY <1>3, <1>4, <1>6, CellWith
<1> QED BY <1>1, <1>5, <1>7 DEF Store!UpdatesCell

LEMMA RemoveRowRefines ==
  ASSUME NEW row \in Nat, NEW result \in RemoveRow(Data, row),
         Done([tool |-> "csv_remove_row", row |-> row], result)
  PROVE  Store!RemovesRow
<1> DEFINE request == [tool |-> "csv_remove_row", row |-> row]
<1>1. Store!Called("csv_remove_row") /\ call'.row = row
  BY DoneIs, CallIs DEF Done
<1>2. Clean(Data) /\ Data.headers # <<>>
  BY DEF Done
<1>3. /\ result.headers = Data.headers
      /\ RowsAt(Data.headers, result.rows)
           = Store!RemoveAt(RowsAt(Data.headers, Data.rows), row + 1)
  BY <1>2, RemovedRowRefines
<1>4. /\ table.rows = RowsAt(Data.headers, Data.rows)
      /\ table = [columns |-> Data.headers, rows |-> RowsAt(Data.headers, Data.rows)]
      /\ table' = [columns |-> Data.headers, rows |-> RowsAt(Data.headers, result.rows)]
  <2>1. "tool" \in DOMAIN request
    OBVIOUS
  <2> HIDE DEF request
  <2> QED BY <1>2, <1>3, <2>1, DoneIs DEF request
<1> DEFINE others == Store!RemoveAt(RowsAt(Data.headers, Data.rows), row + 1)
<1>5. table' = [table EXCEPT !.rows = Store!RemoveAt(table.rows, row + 1)]
  <2>1. Store!RemoveAt(table.rows, row + 1) = others
    BY <1>4
  <2>2. table' = [columns |-> Data.headers, rows |-> others]
    BY <1>3, <1>4
  <2> HIDE DEF others
  <2>3. [table EXCEPT !.rows = others] = [columns |-> Data.headers, rows |-> others]
    BY <1>4, RowsWith
  <2> QED BY <2>1, <2>2, <2>3
<1> QED BY <1>1, <1>5 DEF Store!RemovesRow

LEMMA AddColumnRefines ==
  ASSUME NEW name \in Fields, NEW default \in Fields, NEW result \in AddColumn(Data, name, default),
         Done([tool |-> "csv_add_column", name |-> name, default |-> default], result)
  PROVE  Store!AddsColumn
<1> DEFINE request == [tool |-> "csv_add_column", name |-> name, default |-> default]
<1>1. Store!Called("csv_add_column") /\ call'.name = name /\ call'.default = default
  BY DoneIs, CallIs DEF Done
<1>2. Clean(Data) /\ Data.headers \in Seq(Fields)
  BY CleanHas DEF Done
<1> DEFINE named == RowsAt(Data.headers, Data.rows)
<1>3. /\ result.headers = Append(Data.headers, name)
      /\ RowsAt(result.headers, result.rows) = Widened(named, name, default)
  BY <1>2, AddedColumnRefines
<1>4. result.headers # <<>>
  <2>1. Append(Data.headers, name) # <<>>
    BY <1>2
  <2> QED BY <1>3, <2>1
<1>5. /\ table.columns = Data.headers /\ table.rows = named
      /\ table' = [columns |-> result.headers, rows |-> RowsAt(result.headers, result.rows)]
  <2>1. "tool" \in DOMAIN request
    OBVIOUS
  <2> HIDE DEF request
  <2> QED BY <1>4, <2>1, DoneIs DEF request
<1>6. table' = [columns |-> Append(table.columns, name),
                rows |-> [r \in 1..Len(table.rows) |-> Store!With(table.rows[r], name, default)]]
  BY <1>3, <1>5, Zenon DEF Widened
<1> QED BY <1>1, <1>6, Zenon DEF Store!AddsColumn

LEMMA RemoveColumnRefines ==
  ASSUME NEW column, NEW result \in RemoveColumn(Data, column),
         Done([tool |-> "csv_remove_column", column |-> column], result)
  PROVE  Store!RemovesColumn
<1> DEFINE request == [tool |-> "csv_remove_column", column |-> column]
           H == Data.headers
           named == RowsAt(H, Data.rows)
<1>1. Store!Called("csv_remove_column") /\ call'.column = column
  BY DoneIs, CallIs DEF Done
<1>2. Clean(Data) /\ Clean(result) /\ H \in Seq(Fields) /\ Distinct(H)
  BY CleanHas, RemovedColumnIsClean DEF Done
<1>3. PICK i \in ResolveColumn(H, column) :
        i \in 1..Len(H) /\ result = TakenOut(Data, i)
  BY <1>2, RemovedColumnIs
<1>4. table.columns = H /\ table.rows = named
  <2>1. "tool" \in DOMAIN request
    OBVIOUS
  <2> HIDE DEF request
  <2> QED BY <2>1, DoneIs DEF request
<1>5. Store!Named(column) = H[i] /\ Store!Position(H, H[i]) = i
  BY <1>2, <1>3, <1>4, ColumnIs, NamedIs
<1>6. /\ Len(named) = Len(Data.rows)
      /\ RowsAt(result.headers, result.rows) = Narrowed(named, H[i])
  BY <1>2, <1>3, RemovedColumnRefines
<1>7. result.headers = RemoveAt(H, i) /\ RemoveAt(H, i) \in Seq(Fields)
      /\ Len(RemoveAt(H, i)) = Len(H) - 1 /\ Len(H) \in Nat
  <2>1. RemoveAt(H, i) \in Seq(Fields) /\ Len(RemoveAt(H, i)) = Len(H) - 1
    BY <1>2, <1>3, Removed
  <2>2. result.headers = RemoveAt(H, i)
    BY <1>3 DEF TakenOut
  <2> QED BY <1>2, <2>1, <2>2
<1>8. RemoveAt(H, i) = Store!RemoveAt(H, i)
  BY Zenon DEF RemoveAt, Store!RemoveAt
<1> HIDE DEF named
<1>9. CASE Len(H) = 1
  <2>1. result.headers = <<>>
    BY <1>7, <1>9
  <2>2. Len(result.rows) = Len(table.rows)
    <3>1. Data.rows \in Seq(Seq(Fields))
      BY <1>2, CleanHas
    <3>2. Len(result.rows) = Len(Data.rows)
      BY <1>3, <3>1 DEF TakenOut
    <3> QED BY <1>4, <1>6, <3>2
  <2>3. table' = [columns |-> <<Blank>>, rows |-> [r \in 1..Len(table.rows) |-> Store!Empty]]
    BY <2>1, <2>2 DEF Done, After
  <2> QED BY <1>1, <1>4, <1>9, <2>3 DEF Store!RemovesColumn
<1>10. CASE Len(H) # 1
  <2>1. result.headers # <<>>
    <3>1. Len(RemoveAt(H, i)) # 0
      BY <1>7, <1>10
    <3> HIDE DEF H
    <3>2. RemoveAt(H, i) # <<>>
      BY <3>1
    <3> QED BY <1>7, <3>2
  <2>2. table' = [columns |-> result.headers, rows |-> RowsAt(result.headers, result.rows)]
    <3>1. "tool" \in DOMAIN request
      OBVIOUS
    <3> HIDE DEF request
    <3> QED BY <2>1, <3>1, DoneIs DEF request
  <2>3. table' = [columns |-> Store!RemoveAt(H, i),
                  rows |-> [r \in 1..Len(named) |-> Store!Without(named[r], H[i])]]
    BY <1>6, <1>7, <1>8, <2>2 DEF Narrowed
  <2> QED BY <1>1, <1>4, <1>5, <1>10, <2>3 DEF Store!RemovesColumn
<1> QED BY <1>9, <1>10

LEMMA RenameColumnRefines ==
  ASSUME NEW old \in Fields, NEW new \in Fields, NEW result \in RenameColumn(Data, old, new),
         Done([tool |-> "csv_rename_column", old |-> old, new |-> new], result)
  PROVE  Store!RenamesColumn
<1> DEFINE request == [tool |-> "csv_rename_column", old |-> old, new |-> new]
           named == RowsAt(Data.headers, Data.rows)
           renamed == [i \in 1..Len(Data.headers) |->
                         IF Data.headers[i] = old THEN new ELSE Data.headers[i]]
<1>1. Store!Called("csv_rename_column") /\ call'.old = old /\ call'.new = new
  BY DoneIs, CallIs DEF Done
<1>2. Clean(Data) /\ Data.headers \in Seq(Fields) /\ Data.headers # <<>>
  BY CleanHas DEF Done
<1>3. /\ result.headers = renamed
      /\ RowsAt(result.headers, result.rows) =
           [r \in 1..Len(named) |-> Store!Relabelled(named[r], old, new)]
  BY <1>2, RenamedRefines
<1>4. result.headers # <<>>
  <2>1. 1 \in DOMAIN renamed
    BY <1>2
  <2> HIDE DEF renamed
  <2> QED BY <1>3, <2>1
<1>5. /\ table.columns = Data.headers /\ table.rows = named
      /\ table' = [columns |-> result.headers, rows |-> RowsAt(result.headers, result.rows)]
  <2>1. "tool" \in DOMAIN request
    OBVIOUS
  <2> HIDE DEF request
  <2> QED BY <1>4, <2>1, DoneIs DEF request
<1>6. table' = [columns |-> [i \in 1..Len(table.columns) |->
                               IF table.columns[i] = old THEN new ELSE table.columns[i]],
                rows |-> [r \in 1..Len(table.rows) |-> Store!Relabelled(table.rows[r], old, new)]]
  BY <1>3, <1>5, Zenon
<1> QED BY <1>1, <1>6, Zenon DEF Store!RenamesColumn

(* Whatever their names, the columns of csv_create fit its rows. *)
LEMMA CreateRefines ==
  ASSUME NEW headers \in Seq(Fields), NEW rows \in Seq(Seq(Fields)),
         NEW data \in Create(headers, rows),
         Save([tool |-> "csv_create", headers |-> headers, rows |-> rows], data, Distinct(headers))
  PROVE  Store!Loses \/ Store!Creates
<1> DEFINE request == [tool |-> "csv_create", headers |-> headers, rows |-> rows]
<1>1. /\ headers # <<>> /\ \A r \in 1..Len(rows) : Len(rows[r]) = Len(headers)
      /\ data = [headers |-> headers, rows |-> rows]
  BY DEF Create
<1>2. Writable(data)
  BY <1>1 DEF Writable, OddRecords, Records
<1>3. Store!IsInjective(headers) = Distinct(headers)
  BY Zenon DEF Store!IsInjective, Distinct, IsInjective
<1>4. \A outcome : Outcome(request, outcome) =>
        /\ call'.tool = "csv_create" /\ call'.headers = headers /\ call'.rows = rows
        /\ call'.outcome = outcome
  BY CallIs
<1>5. CASE Outcome(request, "torn") /\ tidy' = FALSE
  BY <1>5, TornRefines
<1>6. CASE /\ file' = Written(data) /\ tidy' = Distinct(headers)
           /\ Outcome(request, IF Writable(data) THEN "ok" ELSE "error")
  <2>1. /\ call'.tool = "csv_create" /\ call'.headers = headers /\ call'.rows = rows
        /\ call'.outcome = "ok"
    BY <1>2, <1>4, <1>6
  <2>2. CASE ~Distinct(headers)
    <3>1. table' = NoTable
      BY <1>6, <2>2 DEF table
    <3> QED BY <1>3, <2>1, <2>2, <3>1 DEF Store!Creates
  <2>3. CASE Distinct(headers)
    <3>1. Clean(data)
      BY <2>3, CreatedIsClean
    <3>2. Save(request, data, TRUE)
      BY <1>6, <2>3 DEF Save
    <3>3. Store!Loses \/ table' = After(data)
      BY <3>1, <3>2, SaveRefines
    <3>4. After(data) = [columns |-> headers, rows |-> RowsAt(headers, rows)]
      BY <1>1 DEF After, Abs
    <3>5. Store!TableOf(headers, rows) = [columns |-> headers, rows |-> RowsAt(headers, rows)]
      <4>1. \A r \in 1..Len(rows) : Store!Row(headers, rows[r]) = RowAt(headers, rows[r])
        BY <2>3, StoreRow
      <4> QED BY <4>1 DEF Store!TableOf, RowsAt
    <3> QED BY <1>3, <2>1, <2>3, <3>3, <3>4, <3>5 DEF Store!Creates
  <2> QED BY <2>2, <2>3
<1> QED BY <1>5, <1>6 DEF Save

LEMMA StoreSteps ==
  ASSUME TidyInv, FileInv, CallInv, Next
  PROVE  Store!Next
<1>1. CASE CsvCreate
  <2>1. PICK headers \in Headers, items \in {<<>>} \cup {b \in Batches : \A i \in 1..Len(b) : "fields" \in DOMAIN b[i]} :
          LET request == [tool |-> "csv_create", headers |-> headers, rows |-> ArraysOf(items)]
          IN \/ Fail(request)
             \/ \E data \in Create(headers, ArraysOf(items)) :
                  Save(request, data, Distinct(headers))
    BY <1>1 DEF CsvCreate
  <2>2. headers \in Seq(Fields)
    BY CsvAssumption
  <2>3. ArraysOf(items) \in Seq(Seq(Fields))
    <3>1. Len(items) \in Nat /\ \A i \in 1..Len(items) : items[i].fields \in Seq(Fields)
      BY CsvAssumption DEF IsItem
    <3> QED BY <3>1 DEF ArraysOf
  <2>4. Store!Fails \/ Store!Loses \/ Store!Creates
    BY <2>1, <2>2, <2>3, FailRefines, CreateRefines
  <2> QED BY <2>4 DEF Store!Next
<1>2. CASE CsvAddRow
  <2>1. PICK items \in Batches :
          Rewrite([tool |-> "csv_add_row", items |-> items], AddRows(Data, items))
    BY <1>2 DEF CsvAddRow
  <2>2. Len(items) \in Nat /\ \A i \in 1..Len(items) : IsItem(items[i])
    BY CsvAssumption
  <2>3. ASSUME tidy, NEW data \in AddRows(Data, items) PROVE Clean(data)
    BY <2>2, <2>3, DataIsClean, AddedRowsAreClean
  <2>4. \/ Store!Fails \/ Store!Loses \/ Store!NotOurs
        \/ \E data \in AddRows(Data, items) : Done([tool |-> "csv_add_row", items |-> items], data)
    BY <2>1, <2>3, RewriteRefines DEF CallInv
  <2> QED BY <2>2, <2>4, AddRowRefines DEF Store!Next
<1>3. CASE CsvUpdateCell
  <2>1. PICK row \in RowIndexes, column \in Columns, value \in Values :
          Rewrite([tool |-> "csv_update_cell", row |-> row, column |-> column, value |-> value],
                  UpdateCell(Data, row, column, value))
    BY <1>3 DEF CsvUpdateCell
  <2>2. row \in Nat /\ value \in Fields
    BY CsvAssumption DEF RowIndexes
  <2>3. ASSUME tidy, NEW data \in UpdateCell(Data, row, column, value) PROVE Clean(data)
    BY <2>2, <2>3, DataIsClean, UpdatedIsClean
  <2>4. \/ Store!Fails \/ Store!Loses \/ Store!NotOurs
        \/ \E data \in UpdateCell(Data, row, column, value) :
             Done([tool |-> "csv_update_cell", row |-> row, column |-> column, value |-> value], data)
    BY <2>1, <2>3, RewriteRefines DEF CallInv
  <2> QED BY <2>2, <2>4, UpdateRefines DEF Store!Next
<1>4. CASE CsvRemoveRow
  <2>1. PICK row \in RowIndexes :
          Rewrite([tool |-> "csv_remove_row", row |-> row], RemoveRow(Data, row))
    BY <1>4 DEF CsvRemoveRow
  <2>2. row \in Nat
    BY DEF RowIndexes
  <2>3. ASSUME tidy, NEW data \in RemoveRow(Data, row) PROVE Clean(data)
    BY <2>2, <2>3, DataIsClean, RemovedRowIsClean
  <2>4. \/ Store!Fails \/ Store!Loses \/ Store!NotOurs
        \/ \E data \in RemoveRow(Data, row) : Done([tool |-> "csv_remove_row", row |-> row], data)
    BY <2>1, <2>3, RewriteRefines DEF CallInv
  <2> QED BY <2>2, <2>4, RemoveRowRefines DEF Store!Next
<1>5. CASE CsvAddColumn
  <2>1. PICK name \in Names, default \in Values :
          Rewrite([tool |-> "csv_add_column", name |-> name, default |-> default],
                  AddColumn(Data, name, default))
    BY <1>5 DEF CsvAddColumn
  <2>2. name \in Fields /\ default \in Fields
    BY CsvAssumption
  <2>3. ASSUME tidy, NEW data \in AddColumn(Data, name, default) PROVE Clean(data)
    BY <2>2, <2>3, DataIsClean, AddedColumnIsClean
  <2>4. \/ Store!Fails \/ Store!Loses \/ Store!NotOurs
        \/ \E data \in AddColumn(Data, name, default) :
             Done([tool |-> "csv_add_column", name |-> name, default |-> default], data)
    BY <2>1, <2>3, RewriteRefines DEF CallInv
  <2> QED BY <2>2, <2>4, AddColumnRefines DEF Store!Next
<1>6. CASE CsvRemoveColumn
  <2>1. PICK column \in Columns :
          Rewrite([tool |-> "csv_remove_column", column |-> column], RemoveColumn(Data, column))
    BY <1>6 DEF CsvRemoveColumn
  <2>2. ASSUME tidy, NEW data \in RemoveColumn(Data, column) PROVE Clean(data)
    BY <2>2, DataIsClean, RemovedColumnIsClean
  <2>3. \/ Store!Fails \/ Store!Loses \/ Store!NotOurs
        \/ \E data \in RemoveColumn(Data, column) :
             Done([tool |-> "csv_remove_column", column |-> column], data)
    BY <2>1, <2>2, RewriteRefines DEF CallInv
  <2> QED BY <2>3, RemoveColumnRefines DEF Store!Next
<1>7. CASE CsvRenameColumn
  <2>1. PICK old \in Names, new \in Names :
          Rewrite([tool |-> "csv_rename_column", old |-> old, new |-> new],
                  RenameColumn(Data, old, new))
    BY <1>7 DEF CsvRenameColumn
  <2>2. old \in Fields /\ new \in Fields
    BY CsvAssumption
  <2>3. ASSUME tidy, NEW data \in RenameColumn(Data, old, new) PROVE Clean(data)
    BY <2>2, <2>3, DataIsClean, RenamedIsClean
  <2>4. \/ Store!Fails \/ Store!Loses \/ Store!NotOurs
        \/ \E data \in RenameColumn(Data, old, new) :
             Done([tool |-> "csv_rename_column", old |-> old, new |-> new], data)
    BY <2>1, <2>3, RewriteRefines DEF CallInv
  <2> QED BY <2>2, <2>4, RenameColumnRefines DEF Store!Next
<1>8. CASE CsvReads
  <2>1. PICK tool \in CsvReadTools, outcome \in {"ok", "error"} :
          Outcome([tool |-> tool], outcome) /\ UNCHANGED <<file, tidy>>
    BY <1>8 DEF CsvReads
  <2>2. call'.tool = tool
    BY <2>1, CallIs
  <2>3. UNCHANGED table
    BY <2>1, SameTable
  <2> QED BY <2>2, <2>3 DEF CsvReadTools, Store!Reads, Store!Next
<1>9. CASE WriteFile \/ DeleteFile
  <2>1. PICK tool \in {"write_file", "delete_file"} :
          \/ Fail([tool |-> tool])
          \/ tidy' = FALSE /\ \E outcome : Outcome([tool |-> tool], outcome)
    BY <1>9 DEF WriteFile, DeleteFile
  <2>2. CASE tidy' = FALSE /\ \E outcome : Outcome([tool |-> tool], outcome)
    <3>1. call'.tool = tool
      BY <2>2, CallIs
    <3>2. table' = NoTable
      BY <2>2 DEF table
    <3> QED BY <3>1, <3>2 DEF Store!Loses, Store!Next
  <2> QED BY <2>1, <2>2, FailRefines DEF Store!Next
<1>10. CASE Refuse
  <2>1. PICK tool : /\ ~May([tool |-> tool])
                    /\ Outcome([tool |-> tool], Gate(tool, enabled, mode))
                    /\ UNCHANGED <<file, tidy>>
    BY <1>10 DEF Refuse
  <2>2. call'.outcome \in {"notFound", "readOnly"}
    <3>1. call'.outcome = Gate(tool, enabled, mode)
      BY <2>1, CallIs
    <3> QED BY <2>1, <3>1 DEF May, Gate
  <2>3. UNCHANGED table
    BY <2>1, SameTable
  <2> QED BY <2>2, <2>3 DEF Store!Fails, Store!Next
<1> QED
  BY <1>1, <1>2, <1>3, <1>4, <1>5, <1>6, <1>7, <1>8, <1>9, <1>10 DEF Next

(* For any tables, names, values and batches, the CSV tools on a file they *)
(* made do to the table with named columns what TableStore says: every     *)
(* call changes what it names and nothing else, and an error nothing.      *)
THEOREM TableRefined == Spec => ImplementsTable
<1>1. Init => Store!Init
  BY DEF Init, NoCall, table, Store!Init
<1>2. ASSUME TidyInv, FileInv, CallInv, [Next]_vars
      PROVE  [Store!Next]_(Store!vars)
  <2>1. CASE Next
    BY <1>2, <2>1, StoreSteps
  <2>2. CASE UNCHANGED vars
    BY <2>2, SameTable DEF vars, Store!vars
  <2> QED BY <1>2, <2>1, <2>2
<1>3. Types => FileInv /\ CallInv
  BY DEF Types
<1> QED BY <1>1, <1>2, <1>3, TidyKept, TypesKept, PTL DEF Spec, ImplementsTable, Store!Spec

-----------------------------------------------------------------------------
(***************************************************************************)
(* The gate.                                                               *)
(***************************************************************************)

ModeInv == mode \in {"unrestricted", "readonly"}

(* What lets a tool that writes pass. *)
LEMMA GateIsShut ==
  ASSUME NEW request, ModeInv, May(request), request.tool \in AllTools,
         IsWriteTool(request.tool)
  PROVE  mode = "unrestricted" /\ CategoryOf(request.tool) \in enabled
BY DEF May, Gate, ModeInv, Available

(* A server changes a file only if it was started for reading and writing, *)
(* and through a tool of a category it was started with.                   *)
THEOREM OnlyEnabledChanges == Spec => ChangesAreEnabled
<1>1. Init => ModeInv
  BY DEF Init, ModeInv
<1>2. ModeInv /\ [Next]_vars => ModeInv'
  BY DEF ModeInv, Next, vars
<1>3. ASSUME ModeInv, Next, file' # file
      PROVE  mode = "unrestricted" /\ CategoryOf(call'.tool) \in enabled
  <2>1. ASSUME NEW request, NEW outcome, Outcome(request, outcome), "tool" \in DOMAIN request
        PROVE  call'.tool = request.tool
    BY <2>1 DEF Outcome
  <2>2. ASSUME NEW request, NEW data, NEW still, Save(request, data, still),
               "tool" \in DOMAIN request
        PROVE  call'.tool = request.tool
    BY <2>1, <2>2 DEF Save
  <2>3. ASSUME NEW request, NEW results, Rewrite(request, results), "tool" \in DOMAIN request,
               request.tool \in CsvWriteTools
        PROVE  mode = "unrestricted" /\ CategoryOf(call'.tool) \in enabled
    <3>1. PICK data \in results : Save(request, data, tidy)
      BY <1>3, <2>3 DEF Rewrite, Fail
    <3>2. May(request) /\ call'.tool = request.tool
      BY <2>2, <2>3, <3>1 DEF Rewrite
    <3>3. request.tool \in AllTools /\ IsWriteTool(request.tool)
      BY <2>3 DEF AllTools, IsWriteTool, CsvWriteTools, ReadTools, CsvReadTools
    <3>q. QED
      BY <1>3, <3>2, <3>3, GateIsShut
  <2>4. CASE CsvCreate
    <3>1. PICK headers \in Headers, items \in {<<>>} \cup {b \in Batches : \A i \in 1..Len(b) : "fields" \in DOMAIN b[i]} :
            LET request == [tool |-> "csv_create", headers |-> headers, rows |-> ArraysOf(items)]
            IN /\ May(request)
               /\ \/ Fail(request)
                  \/ \E data \in Create(headers, ArraysOf(items)) :
                       Save(request, data, Distinct(headers))
      BY <2>4 DEF CsvCreate
    <3> DEFINE request == [tool |-> "csv_create", headers |-> headers, rows |-> ArraysOf(items)]
    <3>2. PICK data : Save(request, data, Distinct(headers))
      BY <1>3, <3>1 DEF Fail
    <3>3. "tool" \in DOMAIN request /\ request.tool = "csv_create" /\ May(request)
      BY <3>1
    <3> HIDE DEF request
    <3>4. call'.tool = "csv_create"
      BY <2>2, <3>2, <3>3
    <3>5. "csv_create" \in AllTools /\ IsWriteTool("csv_create")
      BY DEF AllTools, IsWriteTool, CsvWriteTools, ReadTools, CsvReadTools
    <3>q. QED
      BY <1>3, <3>3, <3>4, <3>5, GateIsShut
  <2>5. CASE CsvAddRow \/ CsvUpdateCell \/ CsvRemoveRow \/ CsvAddColumn \/ CsvRemoveColumn
             \/ CsvRenameColumn
    <3>1. PICK request, results : /\ Rewrite(request, results) /\ "tool" \in DOMAIN request
                                  /\ request.tool \in CsvWriteTools
      <4>1. CASE CsvAddRow
        BY <4>1 DEF CsvAddRow, CsvWriteTools
      <4>2. CASE CsvUpdateCell
        BY <4>2 DEF CsvUpdateCell, CsvWriteTools
      <4>3. CASE CsvRemoveRow
        BY <4>3 DEF CsvRemoveRow, CsvWriteTools
      <4>4. CASE CsvAddColumn
        BY <4>4 DEF CsvAddColumn, CsvWriteTools
      <4>5. CASE CsvRemoveColumn
        BY <4>5 DEF CsvRemoveColumn, CsvWriteTools
      <4>6. CASE CsvRenameColumn
        BY <4>6 DEF CsvRenameColumn, CsvWriteTools
      <4>q. QED
        BY <2>5, <4>1, <4>2, <4>3, <4>4, <4>5, <4>6
    <3>q. QED
      BY <2>3, <3>1
  <2>6. CASE WriteFile \/ DeleteFile
    <3>1. PICK tool \in {"write_file", "delete_file"} :
            /\ May([tool |-> tool]) /\ call'.tool = tool
      <4>1. \A tool : "tool" \in DOMAIN [tool |-> tool]
        OBVIOUS
      <4>q. QED
        BY <1>3, <2>1, <2>6, <4>1 DEF WriteFile, DeleteFile, Fail
    <3>2. tool \in AllTools /\ IsWriteTool(tool)
      BY DEF AllTools, IsWriteTool, FileWriteTools, DeleteTools, ReadTools, CsvReadTools
    <3>q. QED
      BY <1>3, <3>1, <3>2, GateIsShut
  <2>7. CASE CsvReads \/ Refuse
    BY <1>3, <2>7 DEF CsvReads, Refuse
  <2>q. QED
    BY <1>3, <2>4, <2>5, <2>6, <2>7 DEF Next
<1>q. QED
  BY <1>1, <1>2, <1>3, PTL DEF Spec, ChangesAreEnabled
=============================================================================
