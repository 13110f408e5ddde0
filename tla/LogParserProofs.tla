-------------------------- MODULE LogParserProofs --------------------------
(***************************************************************************)
(* Theorems about LogParser, for every file made of its kinds of lines.    *)
(***************************************************************************)
EXTENDS LogParser, DataLemmas

\* The lines of a file, and what their words are
LEMMA LineTypes ==
    ASSUME FilesAssumption, file \in Files
    PROVE  /\ Len(file) \in Nat
           /\ \A i \in 1..Len(file) :
                 /\ file[i].kind \in {"fields", "row", "comment", "long"}
                 /\ file[i].kind = "fields" => file[i].words \in Seq(Columns \cup {"unknown"})
                 /\ file[i].kind = "row" => file[i].words \in Seq(Values)
<1>1. file \in Seq(Lines)
  BY DEF FilesAssumption
<1>2. Len(file) \in Nat /\ \A i \in 1..Len(file) : file[i] \in Lines
  BY <1>1, ElementOfSeq, LenProperties
<1>3. \A line \in Lines :
         /\ line.kind \in {"fields", "row", "comment", "long"}
         /\ line.kind = "fields" => line.words \in Seq(Columns \cup {"unknown"})
         /\ line.kind = "row" => line.words \in Seq(Values)
  BY DEF Lines
<1> QED
  BY <1>2, <1>3

-----------------------------------------------------------------------------
(* Columns *)

\* A header changes the columns in force, and no other line does.
LEMMA ColumnsAfter ==
    ASSUME NEW i \in Nat \ {0}
    PROVE  ColumnsAt(i + 1) = IF file[i].kind = "fields" THEN file[i].words ELSE ColumnsAt(i)
<1> DEFINE Headers(k) == {j \in 1..(k - 1) : file[j].kind = "fields"}
<1>1. \A k \in {i, i + 1} : ColumnsAt(k) = IF Headers(k) = {} THEN <<>> ELSE file[Max(Headers(k))].words
  BY DEF ColumnsAt
<1>2. CASE file[i].kind = "fields"
  <2>1. i \in Headers(i + 1) /\ Headers(i + 1) \in SUBSET (1..i)
    BY <1>2
  <2> HIDE DEF Headers
  <2>2. Max(Headers(i + 1)) \in 1..i /\ Max(Headers(i + 1)) >= i
    BY <2>1, MaxOfIndexes
  <2>3. Max(Headers(i + 1)) = i
    BY <2>2
  <2> QED
    BY <1>1, <1>2, <2>1, <2>3
<1>3. CASE file[i].kind # "fields"
  <2>1. Headers(i + 1) = Headers(i)
    BY <1>3
  <2> HIDE DEF Headers
  <2> QED
    BY <1>1, <1>3, <2>1
<1> QED
  BY <1>2, <1>3

-----------------------------------------------------------------------------
(* What the first values of a row say *)

PlacesTo(i, column, m) == {k \in Places(i, column) : k <= m}

LastTo(i, column, m, none) ==
    IF PlacesTo(i, column, m) = {} THEN none ELSE file[i].words[Max(PlacesTo(i, column, m))]

SaidTo(i, column, m) == {k \in Said(i, column) : k <= m}

LastSaidTo(i, column, m) ==
    IF SaidTo(i, column, m) = {} THEN Nil ELSE file[i].words[Max(SaidTo(i, column, m))]

\* One value more is the last said of its column, unless it is a dash.
LEMMA OneSaidMore ==
    ASSUME NEW i, file[i].words \in Seq(Values), NEW m \in DOMAIN file[i].words
    PROVE  \A column :
              LastSaidTo(i, column, m)
                 = IF ColumnsAt(i)[m] = column /\ file[i].words[m] # "-" THEN file[i].words[m]
                   ELSE LastSaidTo(i, column, m - 1)
<1>1. /\ DOMAIN file[i].words = 1..Len(file[i].words) /\ Len(file[i].words) \in Nat
      /\ m \in Nat \ {0}
  BY LenProperties
<1> SUFFICES ASSUME NEW column
             PROVE  LastSaidTo(i, column, m)
                       = IF ColumnsAt(i)[m] = column /\ file[i].words[m] # "-" THEN file[i].words[m]
                         ELSE LastSaidTo(i, column, m - 1)
  OBVIOUS
<1>2. CASE ColumnsAt(i)[m] = column /\ file[i].words[m] # "-"
  <2>1. SaidTo(i, column, m) \in SUBSET (1..m) /\ m \in SaidTo(i, column, m)
    BY <1>1, <1>2 DEF SaidTo, Said, Places
  <2>2. Max(SaidTo(i, column, m)) \in 1..m /\ Max(SaidTo(i, column, m)) >= m
    BY <1>1, <2>1, MaxOfIndexes
  <2>3. Max(SaidTo(i, column, m)) = m
    BY <1>1, <2>2
  <2> QED
    BY <1>2, <2>1, <2>3 DEF LastSaidTo
<1>3. CASE ~ (ColumnsAt(i)[m] = column /\ file[i].words[m] # "-")
  <2>1. SaidTo(i, column, m) = SaidTo(i, column, m - 1)
    BY <1>1, <1>3 DEF SaidTo, Said, Places
  <2> QED
    BY <1>3, <2>1 DEF LastSaidTo
<1> QED
  BY <1>2, <1>3

\* Before the first value nothing is said, and after the last everything.
LEMMA SaidAtEnds ==
    ASSUME NEW i, file[i].words \in Seq(Values)
    PROVE  \A column :
              /\ LastSaidTo(i, column, 0) = Nil
              /\ LastSaidTo(i, column, Len(file[i].words)) = LastSaid(i, column)
<1> SUFFICES ASSUME NEW column
             PROVE  /\ LastSaidTo(i, column, 0) = Nil
                    /\ LastSaidTo(i, column, Len(file[i].words)) = LastSaid(i, column)
  OBVIOUS
<1>1. DOMAIN file[i].words = 1..Len(file[i].words) /\ Len(file[i].words) \in Nat
  BY LenProperties
<1>2. SaidTo(i, column, 0) = {} /\ SaidTo(i, column, Len(file[i].words)) = Said(i, column)
  BY <1>1 DEF SaidTo, Said, Places
<1> QED
  BY <1>2 DEF LastSaidTo, LastSaid

\* Only the column of one value more has a new last value.
LEMMA OneValueMore ==
    ASSUME NEW i, file[i].words \in Seq(Values), NEW m \in DOMAIN file[i].words
    PROVE  \A column, none :
              /\ PlacesTo(i, column, m)
                    = IF ColumnsAt(i)[m] = column THEN PlacesTo(i, column, m - 1) \cup {m}
                      ELSE PlacesTo(i, column, m - 1)
              /\ LastTo(i, column, m, none)
                    = IF ColumnsAt(i)[m] = column THEN file[i].words[m]
                      ELSE LastTo(i, column, m - 1, none)
<1>1. /\ DOMAIN file[i].words = 1..Len(file[i].words) /\ Len(file[i].words) \in Nat
      /\ m \in Nat \ {0}
  BY LenProperties
<1> SUFFICES ASSUME NEW column, NEW none
             PROVE  /\ PlacesTo(i, column, m)
                          = IF ColumnsAt(i)[m] = column THEN PlacesTo(i, column, m - 1) \cup {m}
                            ELSE PlacesTo(i, column, m - 1)
                    /\ LastTo(i, column, m, none)
                          = IF ColumnsAt(i)[m] = column THEN file[i].words[m]
                            ELSE LastTo(i, column, m - 1, none)
  OBVIOUS
<1>2. PlacesTo(i, column, m)
         = IF ColumnsAt(i)[m] = column THEN PlacesTo(i, column, m - 1) \cup {m}
           ELSE PlacesTo(i, column, m - 1)
  BY <1>1 DEF PlacesTo, Places
<1>3. CASE ColumnsAt(i)[m] = column
  <2>1. PlacesTo(i, column, m) \in SUBSET (1..m) /\ m \in PlacesTo(i, column, m)
    BY <1>1, <1>2, <1>3 DEF PlacesTo, Places
  <2>2. Max(PlacesTo(i, column, m)) \in 1..m /\ Max(PlacesTo(i, column, m)) >= m
    BY <1>1, <2>1, MaxOfIndexes
  <2>3. Max(PlacesTo(i, column, m)) = m
    BY <1>1, <2>2
  <2> QED
    BY <1>2, <1>3, <2>1, <2>3 DEF LastTo
<1>4. CASE ColumnsAt(i)[m] # column
  BY <1>2, <1>4 DEF LastTo
<1> QED
  BY <1>2, <1>3, <1>4

\* The last value under a column is one of the row, in a place of the column.
LEMMA LastIsThere ==
    ASSUME NEW i, file[i].words \in Seq(Values), NEW m \in Nat, NEW column,
           LastTo(i, column, m, "") # ""
    PROVE  \E k \in Places(i, column) : LastTo(i, column, m, "") = file[i].words[k]
<1>1. DOMAIN file[i].words = 1..Len(file[i].words) /\ Len(file[i].words) \in Nat
  BY LenProperties
<1>2. PlacesTo(i, column, m) \in SUBSET (1..Len(file[i].words))
  BY <1>1 DEF PlacesTo, Places
<1>3. ASSUME PlacesTo(i, column, m) # {}
      PROVE  Max(PlacesTo(i, column, m)) \in Places(i, column)
  <2>1. Max(PlacesTo(i, column, m)) \in PlacesTo(i, column, m)
    BY <1>1, <1>2, <1>3, MaxOfIndexes
  <2> QED
    BY <2>1 DEF PlacesTo
<1> QED
  BY <1>3 DEF LastTo

\* At the end of the row the first values are all values.
LEMMA AllValues ==
    ASSUME NEW i, file[i].words \in Seq(Values)
    PROVE  \A column :
              /\ PlacesTo(i, column, Len(file[i].words)) = Places(i, column)
              /\ LastTo(i, column, Len(file[i].words), "") = Under(i, column)
              /\ Places(i, column) # {} =>
                    LastTo(i, column, Len(file[i].words), "-") = Under(i, column)
              /\ Places(i, column) = {} =>
                    LastTo(i, column, Len(file[i].words), "-") = "-"
<1>1. DOMAIN file[i].words = 1..Len(file[i].words) /\ Len(file[i].words) \in Nat
  BY LenProperties
<1>2. \A column : PlacesTo(i, column, Len(file[i].words)) = Places(i, column)
  BY <1>1 DEF PlacesTo, Places
<1> QED
  BY <1>2 DEF LastTo, Under

Stamp == <<"2019-12-01", "22:42:31">>

Record ==
    [date : Texts, time : Texts, timestamp : {NoTime, Stamp}, string : Texts, number : Texts,
     status : Texts, category : Texts, agent : Texts]

CategoryOf(said) == IF said = Nil THEN Nil ELSE Category(said)

AgentOf(said) == IF said = Nil THEN Nil ELSE Unescape(said)

\* The record says what the first m values of row i say.  A column that is not
\* there is as good as a dash.
Filled(l, i, m) ==
    /\ l \in Record
    /\ l.date = LastTo(i, "date", m, "") /\ l.time = LastTo(i, "time", m, "")
    /\ l.timestamp = IF l.date # "" /\ l.time # "" THEN <<l.date, l.time>> ELSE NoTime
    /\ l.string = toPtrString(LastTo(i, "string", m, "-"))
    /\ l.number = toPtrString(LastTo(i, "number", m, "-"))
    /\ l.status = toPtrString(LastTo(i, "sc-status", m, "-"))
    /\ l.category = CategoryOf(LastSaidTo(i, "sc-status", m))
    /\ l.agent = AgentOf(LastSaidTo(i, "cs(User-Agent)", m))
    /\ \A k \in DOMAIN file[i].words : k <= m => ~ Bad(i, k)

\* The empty record says what no value says.
LEMMA EmptyFilled ==
    ASSUME NEW i, file[i].words \in Seq(Values)
    PROVE  Filled(Empty, i, 0)
<1>1. \A column : PlacesTo(i, column, 0) = {}
  <2>1. DOMAIN file[i].words = 1..Len(file[i].words) /\ Len(file[i].words) \in Nat
    BY LenProperties
  <2> QED
    BY <2>1 DEF PlacesTo, Places
<1>2. \A column, none : LastTo(i, column, 0, none) = none
  BY <1>1 DEF LastTo
<1>3. Empty \in Record
  BY DEF Empty, Record, Texts, Values, Nil
<1> QED
  <2>1. \A k \in DOMAIN file[i].words : ~ (k <= 0)
    <3>1. DOMAIN file[i].words = 1..Len(file[i].words) /\ Len(file[i].words) \in Nat
      BY LenProperties
    <3> QED
      BY <3>1
  <2>2. \A column : LastSaidTo(i, column, 0) = Nil
    BY SaidAtEnds
  <2> QED
    BY <1>1, <1>2, <1>3, <2>1, <2>2 DEF Filled, Empty, toPtrString, CategoryOf, AgentOf

\* What each setter writes of a record, and that the others leave it
Written(new, l, column, v) ==
    /\ new \in Record
    /\ new.date = IF column = "date" THEN v ELSE l.date
    /\ new.time = IF column = "time" THEN v ELSE l.time
    /\ column \notin {"date", "time"} => new.timestamp = l.timestamp
    /\ new.string = IF column = "string" THEN toPtrString(v) ELSE l.string
    /\ new.number = IF column = "number" THEN toPtrString(v) ELSE l.number
    /\ new.status = IF column = "sc-status" THEN toPtrString(v) ELSE l.status
    /\ new.category = IF column = "sc-status" /\ v # "-" THEN Category(v) ELSE l.category
    /\ new.agent = IF column = "cs(User-Agent)" /\ v # "-" THEN Unescape(v) ELSE l.agent
    /\ column = "date" =>
          /\ l.time = "" => new.timestamp = l.timestamp
          /\ l.time # "" => new.timestamp = <<v, l.time>> /\ v # ""
    /\ column = "time" =>
          /\ l.date = "" => new.timestamp = l.timestamp
          /\ l.date # "" => new.timestamp = <<l.date, v>> /\ v # ""

\* A setter that does not fail writes its column.
LEMMA SetWrites ==
    ASSUME NEW l \in Record, NEW v \in Values, NEW column \in Columns \cup {"unknown"},
           ~ SetterFails(l, column, v)
    PROVE  Written(Set(l, column, v), l, column, v)
<1> DEFINE new == Set(l, column, v)
<1>1. /\ v \in Texts /\ toPtrString(v) \in Texts /\ Unescape(v) \in Texts
      /\ Category(v) \in Texts /\ Nil \in Texts
  BY DEF Texts, Values, toPtrString, Unescape, Category
<1>2. /\ l.timestamp \in {NoTime, Stamp}
      /\ \A c \in {"date", "time", "string", "number", "status", "category", "agent"} : l[c] \in Texts
  BY DEF Record
<1>3. CASE column = "date"
  <2> DEFINE t == IF l.time = "" THEN l.timestamp ELSE <<v, l.time>>
  <2>1. new = [l EXCEPT !.date = v, !.timestamp = t]
    BY <1>3 DEF Set, SetDate
  <2>2. l.time # "" => v = "2019-12-01" /\ l.time = "22:42:31"
    BY <1>3 DEF SetterFails, Parses
  <2>3. l.time # "" => t = Stamp /\ t = <<v, l.time>>
    BY <2>2 DEF Stamp
  <2>4. l.time = "" => t = l.timestamp
    OBVIOUS
  <2> HIDE DEF new, t
  <2>5. t \in {NoTime, Stamp}
    BY <1>2, <2>3, <2>4
  <2> QED
    BY <1>1, <1>3, <2>1, <2>2, <2>3, <2>4, <2>5 DEF Record, new, Written
<1>4. CASE column = "time"
  <2> DEFINE t == IF l.date = "" THEN l.timestamp ELSE <<l.date, v>>
  <2>1. new = [l EXCEPT !.time = v, !.timestamp = t]
    BY <1>4 DEF Set, SetTime
  <2>2. l.date # "" => l.date = "2019-12-01" /\ v = "22:42:31"
    BY <1>4 DEF SetterFails, Parses
  <2>3. l.date # "" => t = Stamp /\ t = <<l.date, v>>
    BY <2>2 DEF Stamp
  <2>4. l.date = "" => t = l.timestamp
    OBVIOUS
  <2> HIDE DEF new, t
  <2>5. t \in {NoTime, Stamp}
    BY <1>2, <2>3, <2>4
  <2> QED
    BY <1>1, <1>4, <2>1, <2>2, <2>3, <2>4, <2>5 DEF Record, new, Written
<1>5. CASE column = "string"
  <2>1. new = [l EXCEPT !.string = toPtrString(v)]
    BY <1>5 DEF Set
  <2> QED
    BY <1>1, <1>5, <2>1 DEF Record, Written
<1>6. CASE column = "number"
  <2>1. new = [l EXCEPT !.number = toPtrString(v)]
    BY <1>6 DEF Set
  <2> QED
    BY <1>1, <1>6, <2>1 DEF Record, Written
<1>7. CASE column = "sc-status"
  <2>1. new = [l EXCEPT !.status = toPtrString(v),
                        !.category = IF v = "-" THEN l.category ELSE Category(v)]
    BY <1>7 DEF Set
  <2> QED
    BY <1>1, <1>7, <2>1 DEF Record, Written
<1>8. CASE column = "cs(User-Agent)"
  <2>1. new = [l EXCEPT !.agent = IF v = "-" THEN l.agent ELSE Unescape(v)]
    BY <1>8 DEF Set
  <2> QED
    BY <1>1, <1>8, <2>1 DEF Record, Written
<1>9. CASE column = "unknown"
  <2>1. new = l
    BY <1>9 DEF Set
  <2> QED
    BY <1>9, <2>1 DEF Written
<1> QED
  BY <1>3, <1>4, <1>5, <1>6, <1>7, <1>8, <1>9 DEF Columns

\* A setter that does not fail makes a record that says one value more.
LEMMA SetFilled ==
    ASSUME NEW i, file[i].words \in Seq(Values), NEW m \in DOMAIN file[i].words,
           NEW l, Filled(l, i, m - 1), NEW column, column = ColumnsAt(i)[m],
           column \in Columns \cup {"unknown"},
           ~ SetterFails(l, column, file[i].words[m])
    PROVE  Filled(Set(l, column, file[i].words[m]), i, m)
<1> DEFINE v == file[i].words[m]
           new == Set(l, column, v)
           Last(c, none) == LastTo(i, c, m, none)
           Before(c, none) == LastTo(i, c, m - 1, none)
<1>1. v \in Values /\ l \in Record
  BY ElementOfSeq, LenProperties DEF Filled
<1>2. \A c, none : Last(c, none) = IF column = c THEN v ELSE Before(c, none)
  <2> SUFFICES ASSUME NEW c, NEW none
               PROVE  LastTo(i, c, m, none) = IF column = c THEN v ELSE LastTo(i, c, m - 1, none)
    OBVIOUS
  <2>1. LastTo(i, c, m, none) = IF ColumnsAt(i)[m] = c THEN v ELSE LastTo(i, c, m - 1, none)
    BY OneValueMore
  <2> QED
    BY <2>1
<1>3. \A c : LastSaidTo(i, c, m) = IF column = c /\ v # "-" THEN v ELSE LastSaidTo(i, c, m - 1)
  BY OneSaidMore
<1>4. Written(new, l, column, v)
  <2>1. column \in Columns \cup {"unknown"} /\ ~ SetterFails(l, column, v)
    OBVIOUS
  <2> QED
    BY <1>1, <2>1, SetWrites
<1>5. /\ l.date = Before("date", "") /\ l.time = Before("time", "")
      /\ l.timestamp = IF l.date # "" /\ l.time # "" THEN <<l.date, l.time>> ELSE NoTime
      /\ l.string = toPtrString(Before("string", "-"))
      /\ l.number = toPtrString(Before("number", "-"))
      /\ l.status = toPtrString(Before("sc-status", "-"))
      /\ l.category = CategoryOf(LastSaidTo(i, "sc-status", m - 1))
      /\ l.agent = AgentOf(LastSaidTo(i, "cs(User-Agent)", m - 1))
      /\ \A k \in DOMAIN file[i].words : k <= m - 1 => ~ Bad(i, k)
  BY DEF Filled
<1>6. \A k \in DOMAIN file[i].words : k <= m => ~ Bad(i, k)
  <2>1. /\ DOMAIN file[i].words = 1..Len(file[i].words) /\ Len(file[i].words) \in Nat
    BY LenProperties
  <2>2. ~ Bad(i, m)
    BY <1>1 DEF Bad, SetterFails, IsNumber
  <2>3. \A k \in DOMAIN file[i].words : k <= m => k = m \/ k <= m - 1
    BY <2>1
  <2> QED
    BY <1>5, <2>2, <2>3, Zenon
<1>7. v # Nil
  BY <1>1 DEF Values, Nil
<1> HIDE DEF new, Last, Before
<1>8. new.date = Last("date", "") /\ new.time = Last("time", "")
  BY <1>2, <1>4, <1>5 DEF Written
<1>9. new.string = toPtrString(Last("string", "-"))
  BY <1>2, <1>4, <1>5 DEF Written
<1>10. new.number = toPtrString(Last("number", "-"))
  BY <1>2, <1>4, <1>5 DEF Written
<1>11. new.status = toPtrString(Last("sc-status", "-"))
  BY <1>2, <1>4, <1>5 DEF Written
<1>12. /\ new.category = CategoryOf(LastSaidTo(i, "sc-status", m))
       /\ new.agent = AgentOf(LastSaidTo(i, "cs(User-Agent)", m))
  BY <1>3, <1>4, <1>5, <1>7 DEF Written, CategoryOf, AgentOf
<1> HIDE DEF v
<1>13. new.timestamp = IF new.date # "" /\ new.time # "" THEN <<new.date, new.time>> ELSE NoTime
  <2>1. CASE column = "date"
    <3>1. new.date = v /\ new.time = l.time
      BY <1>4, <2>1 DEF Written
    <3>2. CASE l.time = ""
      <4>1. new.timestamp = NoTime
        BY <1>4, <1>5, <2>1, <3>2 DEF Written
      <4> QED
        BY <3>1, <3>2, <4>1
    <3>3. CASE l.time # ""
      <4>1. new.timestamp = <<v, l.time>> /\ v # ""
        BY <1>4, <2>1, <3>3 DEF Written
      <4> QED
        BY <3>1, <3>3, <4>1
    <3> QED
      BY <3>2, <3>3
  <2>2. CASE column = "time"
    <3>1. new.time = v /\ new.date = l.date
      BY <1>4, <2>2 DEF Written
    <3>2. CASE l.date = ""
      <4>1. new.timestamp = NoTime
        BY <1>4, <1>5, <2>2, <3>2 DEF Written
      <4> QED
        BY <3>1, <3>2, <4>1
    <3>3. CASE l.date # ""
      <4>1. new.timestamp = <<l.date, v>> /\ v # ""
        BY <1>4, <2>2, <3>3 DEF Written
      <4> QED
        BY <3>1, <3>3, <4>1
    <3> QED
      BY <3>2, <3>3
  <2>3. CASE column \notin {"date", "time"}
    <3>1. new.date = l.date /\ new.time = l.time /\ new.timestamp = l.timestamp
      BY <1>4, <2>3 DEF Written
    <3> QED
      BY <1>5, <3>1
  <2> QED
    BY <2>1, <2>2, <2>3
<1> QED
  BY <1>4, <1>6, <1>8, <1>9, <1>10, <1>11, <1>12, <1>13 DEF Filled, Written, new, v, Last

-----------------------------------------------------------------------------
(* Rows *)

RowsTo(k) == {j \in Rows : j <= k}

LEMMA RowsFinite ==
    ASSUME FilesAssumption, file \in Files
    PROVE  /\ Rows \in SUBSET (1..Len(file)) /\ Len(file) \in Nat
           /\ \A k : IsFiniteSet(RowsTo(k)) /\ Cardinality(RowsTo(k)) \in Nat
<1>1. Rows \in SUBSET (1..Len(file)) /\ Len(file) \in Nat
  BY LineTypes DEF Rows
<1>2. IsFiniteSet(1..Len(file))
  BY <1>1, FS_Interval
<1>3. \A k : RowsTo(k) \in SUBSET (1..Len(file))
  BY <1>1 DEF RowsTo
<1> QED
  BY <1>1, <1>2, <1>3, FS_Subset, FS_CardinalityType

\* The k-th row is the one that k rows end with.
LEMMA RowOfItsNumber ==
    ASSUME FilesAssumption, file \in Files, NEW i \in Rows
    PROVE  RowOf(Cardinality(RowsTo(i))) = i
<1>1. ASSUME NEW a \in Rows, NEW b \in Rows, a < b
      PROVE  Cardinality(RowsTo(a)) # Cardinality(RowsTo(b))
  <2>1. a \in Nat /\ b \in Nat /\ \A j \in Rows : j \in Nat
    BY RowsFinite
  <2>2. RowsTo(a) \subseteq RowsTo(b)
    <3> SUFFICES ASSUME NEW j \in RowsTo(a) PROVE j \in RowsTo(b)
      OBVIOUS
    <3>1. j \in Rows /\ j \in Nat /\ j <= a
      BY <2>1 DEF RowsTo
    <3> QED
      BY <1>1, <2>1, <3>1 DEF RowsTo
  <2>3. b \in RowsTo(b) /\ ~ (b <= a)
    BY <1>1, <2>1 DEF RowsTo
  <2>4. b \notin RowsTo(a)
    BY <2>3 DEF RowsTo
  <2> QED
    BY <2>2, <2>3, <2>4, RowsFinite, FS_Subset
<1>2. \A a, b \in Rows : Cardinality(RowsTo(a)) = Cardinality(RowsTo(b)) => a = b
  <2>1. \A a \in Rows : a \in Nat
    BY RowsFinite
  <2> QED
    BY <1>1, <2>1
<1> DEFINE k == Cardinality(RowsTo(i))
<1>3. RowOf(k) = CHOOSE j \in Rows : Cardinality(RowsTo(j)) = k
  BY DEF RowOf, RowsTo
<1> QED
  BY <1>2, <1>3

\* A line more is a row more, or none.
LEMMA RowsAfter ==
    ASSUME FilesAssumption, file \in Files, NEW k \in Nat, k < Len(file)
    PROVE  Cardinality(RowsTo(k + 1))
              = IF file[k + 1].kind = "row" THEN Cardinality(RowsTo(k)) + 1
                ELSE Cardinality(RowsTo(k))
<1>1. Len(file) \in Nat
  BY LineTypes
<1>2. CASE file[k + 1].kind = "row"
  <2>1. RowsTo(k + 1) = RowsTo(k) \cup {k + 1} /\ k + 1 \notin RowsTo(k)
    BY <1>1, <1>2 DEF RowsTo, Rows
  <2>2. Cardinality(RowsTo(k) \cup {k + 1}) = Cardinality(RowsTo(k)) + 1
    BY <2>1, RowsFinite, FS_AddElement
  <2> QED
    BY <1>2, <2>1, <2>2
<1>3. CASE file[k + 1].kind # "row"
  <2>1. RowsTo(k + 1) = RowsTo(k)
    BY <1>1, <1>3 DEF RowsTo, Rows
  <2> QED
    BY <1>3, <2>1
<1> QED
  BY <1>2, <1>3

-----------------------------------------------------------------------------
(* The inductive invariant *)

\* What the state is while a row is read
InRow ==
    /\ n < Len(file) /\ Line.kind = "row" /\ Len(Line.words) <= Len(fields)
    /\ vi <= Len(Line.words) + 1
    /\ Filled(log, n + 1, vi - 1)

\* The k-th record says what the k-th row says.
Parsed(l, k) ==
    /\ RowOf(k) \in Rows /\ ~ Misfit(RowOf(k))
    /\ Filled(l, RowOf(k), Len(file[RowOf(k)].words))

Typed ==
    /\ file \in Files
    /\ n \in 0..Len(file)
    /\ fields \in Seq(Columns \cup {"unknown"})
    /\ vi \in Nat \ {0}
    /\ log \in Record
    /\ logs \in Seq(Record)
    /\ pc \in {"scan", "row", "ok", "error"}

\* What has been read so far
Read ==
    /\ fields = ColumnsAt(n + 1)
    /\ Len(logs) = Cardinality(RowsTo(n))
    /\ \A k \in DOMAIN logs : Parsed(logs[k], k)
    /\ \A i \in 1..n : file[i].kind # "long"

\* An error has its cause at the line it was met at.
ErrorCaused ==
    pc = "error" =>
        \/ Line.kind = "long"
        \/ Misfit(n + 1)
        \/ \E k \in DOMAIN Line.words :
              \/ Bad(n + 1, k)
              \/ ColumnsAt(n + 1)[k] = "date" /\ Line.words[k] # "2019-12-01"
              \/ ColumnsAt(n + 1)[k] = "time" /\ Line.words[k] # "22:42:31"

IInv ==
    /\ Typed
    /\ Read
    /\ pc = "row" => InRow
    /\ pc = "ok" => n = Len(file)
    /\ ErrorCaused

\* What is said of a file does not change, for the file does not.
LEMMA SameFile ==
    ASSUME file' = file
    PROVE  /\ \A i : ColumnsAt(i)' = ColumnsAt(i)
           /\ Rows' = Rows
           /\ \A k : RowsTo(k)' = RowsTo(k)
           /\ \A k : RowOf(k)' = RowOf(k)
           /\ \A i : Misfit(i)' <=> Misfit(i)
           /\ \A i, k : Bad(i, k)' <=> Bad(i, k)
           /\ \A l, i, m : Filled(l, i, m)' <=> Filled(l, i, m)
           /\ \A l, k : Parsed(l, k)' <=> Parsed(l, k)
<1>1. \A i : ColumnsAt(i)' = ColumnsAt(i)
  BY DEF ColumnsAt
<1>2. Rows' = Rows
  BY DEF Rows
<1>3. \A k : RowsTo(k)' = RowsTo(k)
  BY <1>2 DEF RowsTo
<1>4. \A k : RowOf(k)' = RowOf(k)
  BY <1>2 DEF RowOf
<1>5. \A i, column : Places(i, column)' = Places(i, column)
  BY <1>1 DEF Places
<1>6. \A i, column, m : PlacesTo(i, column, m)' = PlacesTo(i, column, m)
  BY <1>5 DEF PlacesTo
<1>7. \A i, column, m, none : LastTo(i, column, m, none)' = LastTo(i, column, m, none)
  BY <1>6 DEF LastTo
<1>8. \A i, column, m : LastSaidTo(i, column, m)' = LastSaidTo(i, column, m)
  BY <1>5 DEF LastSaidTo, SaidTo, Said
<1>9. /\ \A i : Misfit(i)' <=> Misfit(i)
      /\ \A i, k : Bad(i, k)' <=> Bad(i, k)
  BY <1>1 DEF Misfit, Bad
<1>10. ASSUME NEW l, NEW i, NEW m
      PROVE  Filled(l, i, m)' <=> Filled(l, i, m)
  BY <1>1, <1>6, <1>7, <1>8 DEF Filled, Bad
<1>11. ASSUME NEW l, NEW k
      PROVE  Parsed(l, k)' <=> Parsed(l, k)
  BY <1>1, <1>2, <1>4, <1>10 DEF Parsed, Misfit
<1> QED
  BY <1>1, <1>2, <1>3, <1>4, <1>9, <1>10, <1>11, Zenon

\* Nothing has been read at first.
LEMMA InitIInv ==
    ASSUME FilesAssumption, Init
    PROVE  IInv
<1>1. file \in Files /\ n = 0 /\ fields = <<>> /\ vi = 1 /\ log = Empty /\ logs = <<>> /\ pc = "scan"
  BY DEF Init
<1>2. Len(file) \in Nat
  BY <1>1, LineTypes
<1>3. Empty \in Record
  BY DEF Empty, Record, Texts, Values, Nil
<1>4. Typed
  BY <1>1, <1>2, <1>3 DEF Typed
<1>5. ColumnsAt(1) = <<>>
  BY DEF ColumnsAt
<1>6. Cardinality(RowsTo(0)) = 0
  <2>1. RowsTo(0) = {}
    BY <1>1, RowsFinite DEF RowsTo
  <2> QED
    BY <2>1, FS_EmptySet
<1>7. Len(logs) = 0 /\ DOMAIN logs = {}
  BY <1>1
<1> QED
  BY <1>1, <1>4, <1>5, <1>6, <1>7 DEF IInv, Read, ErrorCaused

\* Every step keeps it.
LEMMA StepIInv ==
    ASSUME FilesAssumption, IInv, [Next]_vars
    PROVE  IInv'
<1>1. /\ file \in Files /\ n \in 0..Len(file) /\ fields \in Seq(Columns \cup {"unknown"})
      /\ vi \in Nat \ {0} /\ log \in Record /\ logs \in Seq(Record)
      /\ pc \in {"scan", "row", "ok", "error"}
      /\ fields = ColumnsAt(n + 1) /\ Len(logs) = Cardinality(RowsTo(n))
      /\ \A k \in DOMAIN logs : Parsed(logs[k], k)
      /\ \A i \in 1..n : file[i].kind # "long"
      /\ ErrorCaused
  BY DEF IInv, Typed, Read
<1>2. Len(file) \in Nat /\ file' = file
  <2>1. file' = file
    BY DEF Next, vars, ScanHeader, ScanRow, ScanFails, SetValue, SetValueFails, EndRow, Return,
       Returned
  <2> QED
    BY <1>1, <2>1, LineTypes
<1>row. n < Len(file) /\ file[n + 1].kind = "row" =>
           file[n + 1].words \in Seq(Values) /\ Len(file[n + 1].words) \in Nat
  <2> SUFFICES ASSUME n < Len(file), file[n + 1].kind = "row"
               PROVE  file[n + 1].words \in Seq(Values) /\ Len(file[n + 1].words) \in Nat
    OBVIOUS
  <2>1. n + 1 \in 1..Len(file) /\ file \in Files
    BY <1>1, <1>2
  <2>2. file[n + 1].words \in Seq(Values)
    BY <2>1, LineTypes
  <2> QED
    BY <2>2, LenProperties
<1>3. /\ \A i : ColumnsAt(i)' = ColumnsAt(i)
      /\ \A k : RowsTo(k)' = RowsTo(k)
      /\ \A i : Misfit(i)' <=> Misfit(i)
      /\ \A i, k : Bad(i, k)' <=> Bad(i, k)
      /\ \A l, i, m : Filled(l, i, m)' <=> Filled(l, i, m)
      /\ \A l, k : Parsed(l, k)' <=> Parsed(l, k)
  BY <1>2, SameFile
<1>4. ASSUME UNCHANGED <<n, fields, logs>>
      PROVE  Read'
  BY <1>1, <1>2, <1>3, <1>4 DEF Read
<1>5. ASSUME NEW k \in Nat
      PROVE  ColumnsAt(k + 2) = IF file[k + 1].kind = "fields" THEN file[k + 1].words
                                ELSE ColumnsAt(k + 1)
  <2>1. ColumnsAt((k + 1) + 1) = IF file[k + 1].kind = "fields" THEN file[k + 1].words
                                ELSE ColumnsAt(k + 1)
    BY ColumnsAfter
  <2> QED
    BY <2>1
<1>6. CASE ScanHeader
  <2>1. /\ n' = n + 1 /\ n < Len(file) /\ UNCHANGED <<file, vi, log, logs, pc>> /\ pc = "scan"
        /\ file[n + 1].kind \in {"fields", "comment"}
        /\ fields' = IF file[n + 1].kind = "fields" THEN file[n + 1].words ELSE fields
    BY <1>6 DEF ScanHeader, Line
  <2>2. fields' \in Seq(Columns \cup {"unknown"})
    BY <1>1, <1>2, <2>1, LineTypes
  <2>3. fields' = ColumnsAt(n + 2)
    BY <1>1, <1>5, <2>1
  <2>4. Cardinality(RowsTo(n + 1)) = Cardinality(RowsTo(n))
    BY <1>1, <2>1, RowsAfter
  <2>5. Read'
    <3>1. n' + 1 = n + 2
      BY <1>1, <2>1
    <3>2. \A i \in 1..(n + 1) : file[i].kind # "long"
      BY <1>1, <2>1
    <3> QED
      BY <1>1, <1>2, <1>3, <2>1, <2>3, <2>4, <3>1, <3>2 DEF Read
  <2> QED
    BY <1>1, <1>2, <2>1, <2>2, <2>5 DEF IInv, Typed, ErrorCaused
<1>7. CASE ScanRow
  <2>1. /\ n < Len(file) /\ file[n + 1].kind = "row" /\ Len(file[n + 1].words) <= Len(fields)
        /\ vi' = 1 /\ log' = Empty /\ pc' = "row" /\ UNCHANGED <<file, n, fields, logs>>
    BY <1>7 DEF ScanRow, Line
  <2>2. file[n + 1].words \in Seq(Values) /\ Len(file[n + 1].words) \in Nat
    BY <1>row, <2>1
  <2>3. Filled(Empty, n + 1, 0) /\ Empty \in Record
    BY <2>2, EmptyFilled DEF Filled
  <2>4. InRow'
    <3>1. vi' - 1 = 0 /\ n' + 1 = n + 1
      BY <1>1, <2>1
    <3> QED
      BY <1>1, <1>3, <2>1, <2>2, <2>3, <3>1 DEF InRow, Line
  <2> QED
    BY <1>1, <1>4, <2>1, <2>3, <2>4 DEF IInv, Typed, ErrorCaused
<1>8. ASSUME UNCHANGED <<file, n, fields, vi, log, logs>>, pc' \in {"ok", "error"},
             pc' = "ok" => n = Len(file), pc' = "error" => ErrorCaused'
      PROVE  IInv'
  BY <1>1, <1>4, <1>8 DEF IInv, Typed, ErrorCaused
<1>9. CASE ScanFails
  <2>1. /\ file[n + 1].kind = "long"
           \/ (file[n + 1].kind = "row" /\ Len(file[n + 1].words) > Len(ColumnsAt(n + 1)))
        /\ pc' = "error" /\ UNCHANGED <<file, n, fields, vi, log, logs>>
    BY <1>1, <1>9 DEF ScanFails, Line
  <2>2. ErrorCaused'
    BY <1>3, <2>1 DEF ErrorCaused, Line, Misfit
  <2> QED
    BY <1>8, <2>1, <2>2
<1>10. ASSUME pc = "row", vi <= Len(file[n + 1].words)
       PROVE  /\ InRow /\ n < Len(file)
              /\ file[n + 1].words \in Seq(Values)
              /\ vi \in DOMAIN file[n + 1].words
              /\ fields[vi] \in Columns \cup {"unknown"}
              /\ fields[vi] = ColumnsAt(n + 1)[vi]
              /\ Filled(log, n + 1, vi - 1)
  <2>1. /\ InRow /\ n < Len(file) /\ file[n + 1].kind = "row"
        /\ Len(file[n + 1].words) <= Len(fields)
        /\ Filled(log, n + 1, vi - 1)
    BY <1>10 DEF IInv, InRow, Line
  <2>2. file[n + 1].words \in Seq(Values)
    BY <1>row, <2>1
  <2>3. /\ DOMAIN file[n + 1].words = 1..Len(file[n + 1].words) /\ Len(file[n + 1].words) \in Nat
        /\ DOMAIN fields = 1..Len(fields) /\ Len(fields) \in Nat
    BY <1>1, <2>2, LenProperties
  <2>4. vi \in 1..Len(fields)
    BY <1>1, <1>10, <2>1, <2>3
  <2>5. fields[vi] \in Columns \cup {"unknown"}
    BY <1>1, <2>4, ElementOfSeq
  <2> QED
    BY <1>1, <1>10, <2>1, <2>2, <2>3, <2>5
<1>11. CASE SetValue
  <2> DEFINE new == Set(log, fields[vi], file[n + 1].words[vi])
  <2>1. /\ pc = "row" /\ vi <= Len(file[n + 1].words)
        /\ ~ SetterFails(log, fields[vi], file[n + 1].words[vi])
        /\ log' = new /\ vi' = vi + 1 /\ UNCHANGED <<file, n, fields, logs, pc>>
    BY <1>11 DEF SetValue, Line
  <2>2. Filled(new, n + 1, vi)
    BY <1>10, <2>1, SetFilled
  <2> HIDE DEF new
  <2>3. new \in Record
    BY <2>2 DEF Filled
  <2>4. InRow'
    <3>1. vi' - 1 = vi /\ n' + 1 = n + 1 /\ vi + 1 <= Len(file[n + 1].words) + 1
      <4>1. Len(file[n + 1].words) \in Nat
        BY <1>10, <2>1, LenProperties
      <4> QED
        BY <1>1, <2>1, <4>1
    <3> QED
      BY <1>3, <1>10, <2>1, <2>2, <3>1 DEF InRow, Line
  <2> QED
    BY <1>1, <1>4, <2>1, <2>3, <2>4 DEF IInv, Typed, ErrorCaused
<1>12. CASE SetValueFails
  <2> DEFINE v == file[n + 1].words[vi]
             words == file[n + 1].words
  <2>1. /\ pc = "row" /\ vi <= Len(words) /\ SetterFails(log, fields[vi], v)
        /\ pc' = "error" /\ UNCHANGED <<file, n, fields, vi, log, logs>>
    BY <1>12 DEF SetValueFails, Line
  <2>2. /\ vi \in DOMAIN words /\ words \in Seq(Values)
        /\ fields[vi] = ColumnsAt(n + 1)[vi] /\ Filled(log, n + 1, vi - 1) /\ vi - 1 \in Nat
    BY <1>1, <1>10, <2>1
  <2>3. \E k \in DOMAIN words :
            \/ Bad(n + 1, k)
            \/ ColumnsAt(n + 1)[k] = "date" /\ words[k] # "2019-12-01"
            \/ ColumnsAt(n + 1)[k] = "time" /\ words[k] # "22:42:31"
    <3>1. \A column : LastTo(n + 1, column, vi - 1, "") # "" =>
             \E k \in DOMAIN words : /\ ColumnsAt(n + 1)[k] = column
                                     /\ LastTo(n + 1, column, vi - 1, "") = words[k]
      <4> SUFFICES ASSUME NEW column, LastTo(n + 1, column, vi - 1, "") # ""
                   PROVE  \E k \in Places(n + 1, column) :
                             LastTo(n + 1, column, vi - 1, "") = words[k]
        BY DEF Places
      <4> QED
        BY <2>2, LastIsThere
    <3>2. log.date = LastTo(n + 1, "date", vi - 1, "") /\ log.time = LastTo(n + 1, "time", vi - 1, "")
      BY <2>2 DEF Filled
    <3>3. CASE \/ fields[vi] \in {"number", "sc-status"} /\ ~ IsNumber(v)
               \/ fields[vi] = "cs(User-Agent)" /\ v = "%zz"
      BY <2>2, <3>3 DEF IsNumber, Bad
    <3>4. CASE fields[vi] = "date" /\ log.time # "" /\ ~ Parses(v, log.time)
      BY <2>2, <3>1, <3>2, <3>4 DEF Parses
    <3>5. CASE fields[vi] = "time" /\ log.date # "" /\ ~ Parses(log.date, v)
      <4>1. v # "22:42:31" \/ log.date # "2019-12-01"
        BY <3>5 DEF Parses
      <4>2. CASE v # "22:42:31"
        BY <2>2, <3>5, <4>2
      <4>3. CASE log.date # "2019-12-01"
        <5>1. PICK k \in DOMAIN words : ColumnsAt(n + 1)[k] = "date" /\ log.date = words[k]
          <6>1. /\ log.date = LastTo(n + 1, "date", vi - 1, "")
                /\ LastTo(n + 1, "date", vi - 1, "") # ""
            BY <3>2, <3>5
          <6>2. \E k \in DOMAIN words : /\ ColumnsAt(n + 1)[k] = "date"
                                        /\ LastTo(n + 1, "date", vi - 1, "") = words[k]
            BY <3>1, <6>1
          <6> QED
            BY <6>1, <6>2
        <5> QED
          BY <4>3, <5>1
      <4> QED
        BY <4>1, <4>2, <4>3
    <3> QED
      BY <2>1, <3>3, <3>4, <3>5 DEF SetterFails
  <2>4. ErrorCaused'
    BY <1>3, <2>1, <2>3 DEF ErrorCaused, Line
  <2> QED
    BY <1>8, <2>1, <2>4
<1>13. CASE EndRow
  <2> DEFINE words == file[n + 1].words
  <2>1. /\ pc = "row" /\ vi > Len(words) /\ logs' = Append(logs, log) /\ n' = n + 1
        /\ pc' = "scan" /\ UNCHANGED <<file, fields, vi, log>>
    BY <1>13 DEF EndRow, Line
  <2>2. /\ n < Len(file) /\ file[n + 1].kind = "row" /\ vi <= Len(words) + 1
        /\ Len(words) <= Len(fields)
        /\ Filled(log, n + 1, vi - 1)
    BY <2>1 DEF IInv, InRow, Line
  <2>3. words \in Seq(Values) /\ Len(words) \in Nat
    BY <1>row, <2>2
  <2>4. Filled(log, n + 1, Len(words))
    <3>1. vi - 1 = Len(words)
      BY <1>1, <2>1, <2>2, <2>3
    <3> QED
      BY <2>2, <3>1
  <2>5. n + 1 \in Rows
    BY <1>1, <1>2, <2>2 DEF Rows
  <2>6. Cardinality(RowsTo(n + 1)) = Len(logs) + 1
    BY <1>1, <2>2, RowsAfter
  <2>7. RowOf(Len(logs) + 1) = n + 1
    BY <1>1, <2>5, <2>6, RowOfItsNumber
  <2>8. Parsed(log, Len(logs) + 1)
    <3>1. ~ Misfit(n + 1)
      <4>1. Len(fields) \in Nat
        BY <1>1, LenProperties
      <4> QED
        BY <1>1, <2>2, <2>3, <4>1 DEF Misfit
    <3> QED
      BY <2>4, <2>5, <2>7, <3>1 DEF Parsed
  <2>9. /\ logs' \in Seq(Record) /\ Len(logs') = Len(logs) + 1
        /\ \A k \in 1..Len(logs) : logs'[k] = logs[k]
        /\ logs'[Len(logs) + 1] = log
    BY <1>1, <2>1, AppendProperties
  <2>10. DOMAIN logs = 1..Len(logs) /\ DOMAIN logs' = 1..(Len(logs) + 1) /\ Len(logs) \in Nat
    BY <1>1, <2>9, LenProperties
  <2>11. \A k \in DOMAIN logs' : Parsed(logs[k], k)'
    <3> SUFFICES ASSUME NEW k \in DOMAIN logs'
                 PROVE  Parsed(logs[k], k)'
      OBVIOUS
    <3>1. CASE k \in DOMAIN logs
      BY <1>1, <1>3, <2>9, <2>10, <3>1
    <3>2. CASE k = Len(logs) + 1
      BY <1>3, <2>8, <2>9, <3>2
    <3> QED
      BY <2>10, <3>1, <3>2
  <2>12. ColumnsAt(n + 2) = ColumnsAt(n + 1)
    BY <1>1, <1>5, <2>2
  <2>13. Read'
    <3>1. n' + 1 = n + 2
      BY <1>1, <2>1
    <3>2. \A i \in 1..(n + 1) : file[i].kind # "long"
      BY <1>1, <2>2
    <3> QED
      BY <1>1, <1>2, <1>3, <2>1, <2>6, <2>9, <2>11, <2>12, <3>1, <3>2 DEF Read
  <2> QED
    BY <1>1, <1>2, <2>1, <2>2, <2>9, <2>13 DEF IInv, Typed, ErrorCaused
<1>14. CASE Return
  BY <1>8, <1>14 DEF Return
<1>15. CASE UNCHANGED vars
  <2>1. UNCHANGED <<file, n, fields, vi, log, logs, pc>>
    BY <1>15 DEF vars
  <2>2. InRow' <=> InRow
    BY <1>3, <2>1 DEF InRow, Line
  <2>3. ErrorCaused' <=> ErrorCaused
    BY <1>3, <2>1 DEF ErrorCaused, Line
  <2> QED
    BY <1>1, <1>4, <2>1, <2>2, <2>3 DEF IInv, Typed
<1> QED
  BY <1>6, <1>7, <1>9, <1>11, <1>12, <1>13, <1>14, <1>15 DEF Next, Returned

LEMMA Invariant == Spec => []IInv
<1>1. Init => IInv
  BY InitIInv, FilesAssumption
<1>2. IInv /\ [Next]_vars => IInv'
  BY StepIInv, FilesAssumption
<1> QED
  BY <1>1, <1>2, PTL DEF Spec

-----------------------------------------------------------------------------
(* The theorems *)

\* Every variable of the parser keeps its type, and every record's values are
\* of the kinds its setters make.
THEOREM TypeCorrect == Spec => []TypeOK
<1>1. IInv => TypeOK
  <2> SUFFICES ASSUME IInv PROVE TypeOK
    OBVIOUS
  <2>1. ASSUME NEW l \in Record
        PROVE  /\ \A c \in DOMAIN Empty \ {"timestamp"} : l[c] \in Texts
               /\ l.timestamp = NoTime \/ Parses(l.timestamp[1], l.timestamp[2])
    BY DEF Record, Empty, Stamp, Parses
  <2>2. \A k \in DOMAIN logs : logs[k] \in Record
    BY ElementOfSeq, LenProperties DEF IInv, Typed
  <2> QED
    BY <2>1, <2>2 DEF IInv, Typed, TypeOK
<1> QED
  BY <1>1, Invariant, PTL

\* Every record says what its row says under the header in force: texts,
\* numbers, the status and its category, and the unescaped agent.  A file that
\* is parsed has one record for every row, whatever the lines and the headers.
THEOREM RecordsFaithful == Spec => []RowsFaithful
<1>1. IInv => RowsFaithful
  <2> SUFFICES ASSUME IInv PROVE RowsFaithful
    OBVIOUS
  <2>1. file \in Files /\ FilesAssumption
    BY FilesAssumption DEF IInv, Typed
  <2>2. ASSUME pc = "ok" PROVE Len(logs) = Cardinality(Rows)
    <3>1. RowsTo(Len(file)) = Rows
      BY <2>1, RowsFinite DEF RowsTo
    <3> QED
      BY <2>2, <3>1 DEF IInv, Read
  <2>3. ASSUME NEW k \in DOMAIN logs, NEW i, i = RowOf(k)
        PROVE  /\ logs[k].string = IF Places(i, "string") = {} THEN Nil
                                   ELSE toPtrString(Under(i, "string"))
               /\ logs[k].number = IF Places(i, "number") = {} THEN Nil
                                   ELSE toPtrString(Under(i, "number"))
               /\ logs[k].status = IF Places(i, "sc-status") = {} THEN Nil
                                   ELSE toPtrString(Under(i, "sc-status"))
               /\ logs[k].category = CategoryOf(LastSaid(i, "sc-status"))
               /\ logs[k].agent = AgentOf(LastSaid(i, "cs(User-Agent)"))
    <3>1. i \in Rows /\ Filled(logs[k], i, Len(file[i].words))
      BY <2>3 DEF IInv, Read, Parsed
    <3>2. file[i].words \in Seq(Values)
      BY <2>1, <3>1, LineTypes DEF Rows
    <3>3. \A column : toPtrString(LastTo(i, column, Len(file[i].words), "-"))
                         = IF Places(i, column) = {} THEN Nil ELSE toPtrString(Under(i, column))
      BY <3>2, AllValues DEF toPtrString
    <3>4. \A column : LastSaidTo(i, column, Len(file[i].words)) = LastSaid(i, column)
      BY <3>2, SaidAtEnds
    <3> QED
      BY <3>1, <3>3, <3>4 DEF Filled
  <2> QED
    BY <2>2, <2>3 DEF RowsFaithful, CategoryOf, AgentOf
<1> QED
  BY <1>1, Invariant, PTL

\* The timestamp of every record is that of its date and its time, in
\* whatever order and however often the columns come.
THEOREM TimestampFollowsColumns == Spec => []TimestampFollows
<1>1. IInv => TimestampFollows
  <2> SUFFICES ASSUME IInv, NEW k \in DOMAIN logs, NEW i, i = RowOf(k)
               PROVE  /\ logs[k].date = Under(i, "date") /\ logs[k].time = Under(i, "time")
                      /\ logs[k].timestamp =
                            IF Under(i, "date") # "" /\ Under(i, "time") # ""
                            THEN <<Under(i, "date"), Under(i, "time")>> ELSE NoTime
    BY DEF TimestampFollows
  <2>1. i \in Rows /\ Filled(logs[k], i, Len(file[i].words))
    BY DEF IInv, Read, Parsed
  <2>2. file[i].words \in Seq(Values)
    BY <2>1, LineTypes, FilesAssumption DEF Rows, IInv, Typed
  <2>3. \A column : LastTo(i, column, Len(file[i].words), "") = Under(i, column)
    BY <2>2, AllValues
  <2> QED
    BY <2>1, <2>3 DEF Filled
<1> QED
  BY <1>1, Invariant, PTL

\* Parsing fails only for a row that does not fit its header, a value its
\* column cannot take or a line that is too long, and no record is ever made
\* of such a row, whatever the file.
THEOREM ErrorsHaveCauses == Spec => []ErrorHasCause
<1>1. IInv => ErrorHasCause
  <2> SUFFICES ASSUME IInv PROVE ErrorHasCause
    OBVIOUS
  <2>1. ASSUME NEW k \in DOMAIN logs, NEW i, i = RowOf(k)
        PROVE  ~ Misfit(i) /\ \A m \in DOMAIN file[i].words : ~ Bad(i, m)
    <3>1. i \in Rows /\ ~ Misfit(i) /\ Filled(logs[k], i, Len(file[i].words))
      BY <2>1 DEF IInv, Read, Parsed
    <3>2. file[i].words \in Seq(Values)
      BY <3>1, LineTypes, FilesAssumption DEF Rows, IInv, Typed
    <3>3. DOMAIN file[i].words = 1..Len(file[i].words) /\ Len(file[i].words) \in Nat
      BY <3>2, LenProperties
    <3>4. \A m \in DOMAIN file[i].words : m <= Len(file[i].words)
      BY <3>3
    <3>5. \A m \in DOMAIN file[i].words : m <= Len(file[i].words) => ~ Bad(i, m)
      BY <3>1 DEF Filled
    <3> QED
      BY <3>1, <3>4, <3>5, Zenon
  <2>2. pc = "ok" => \A i \in 1..Len(file) : file[i].kind # "long"
    BY DEF IInv, Read
  <2> QED
    BY <2>1, <2>2 DEF IInv, ErrorCaused, ErrorHasCause
<1> QED
  BY <1>1, Invariant, PTL
=============================================================================
