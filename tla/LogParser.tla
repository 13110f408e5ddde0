----------------------------- MODULE LogParser -----------------------------
(***************************************************************************)
(* ParseCloudFrontLog (cloudfront_std_log.go:279-331): the lines of a log  *)
(* file become log records, the columns named by the last #Fields header.  *)
(*                                                                         *)
(* A value is one of a few kinds, told apart by what the setters do with   *)
(* them, and the three dozen columns are told apart by the kind of their   *)
(* setter: date, time, the strings, the numbers, sc-status (a number that  *)
(* sets a second attribute), cs(User-Agent) (unescaped).                   *)
(***************************************************************************)
EXTENDS Naturals, Sequences, FiniteSets, FiniteSetsExt

CONSTANTS Files   \* the files ParseCloudFrontLog may be given

Columns == {"date", "time", "string", "number", "sc-status", "cs(User-Agent)"}

\* "-", an empty value, a date, a time of day, two status codes, a text, a
\* text with %-escapes, and one with a broken escape
Values == {"-", "", "2019-12-01", "22:42:31", "200", "404", "text", "esc%61pe", "%zz"}

\* A line of a file: a header with columns, another comment, a row of values,
\* or a line longer than the scanner's buffer.
Header(columns) == [kind |-> "fields", words |-> columns]
Comment == [kind |-> "comment", words |-> <<>>]
Row(values) == [kind |-> "row", words |-> values]
TooLong == [kind |-> "long", words |-> <<>>]

Lines ==
    [kind : {"fields"}, words : Seq(Columns \cup {"unknown"})]
        \cup [kind : {"row"}, words : Seq(Values)]
        \cup [kind : {"comment", "long"}, words : {<<>>}]

ASSUME FilesAssumption == Files \subseteq Seq(Lines)

Nil == "nil"                 \* a nil pointer
NoTime == <<>>               \* the zero time

Empty ==
    [date |-> "", time |-> "", timestamp |-> NoTime, string |-> Nil, number |-> Nil,
     status |-> Nil, category |-> Nil, agent |-> Nil]

VARIABLES
    file,    \* the lines of the file
    n,       \* lines scanned so far
    fields,  \* the columns of the last #Fields header
    vi,      \* the value of the row the inner loop is at
    log,     \* l, the record being filled
    logs,    \* the records so far
    pc       \* "scan", "row", "ok" or "error"

vars == <<file, n, fields, vi, log, logs, pc>>

-----------------------------------------------------------------------------
(* The setters *)

toPtrString(v) == IF v = "-" THEN Nil ELSE v

IsNumberOnly(v) == v \in {"200", "404"}

\* toPtrInt and toPtrFloat64 take a number or a dash.
IsNumber(v) == v \in {"-", "200", "404"}

\* The class of a status code
Category(v) == IF v = "200" THEN "2xx" ELSE "4xx"

Parses(date, time) == date = "2019-12-01" /\ time = "22:42:31"

Unescape(v) == IF v = "esc%61pe" THEN "escape" ELSE v

SetterFailsNotForDates(l, column, v) ==
    \/ column \in {"number", "sc-status"} /\ ~ IsNumber(v)
    \/ column = "cs(User-Agent)" /\ v = "%zz"

SetterFails(l, column, v) ==
    \/ column \in {"number", "sc-status"} /\ ~ IsNumber(v)
    \/ column = "cs(User-Agent)" /\ v = "%zz"
    \/ column = "date" /\ l.time # "" /\ ~ Parses(v, l.time)
    \/ column = "time" /\ l.date # "" /\ ~ Parses(l.date, v)

\* As if the date always came first
SetDateFirst(l, v) == [l EXCEPT !.date = v]

\* The timestamp is set by whichever of date and time comes second.
SetDate(l, v) ==
    [l EXCEPT !.date = v, !.timestamp = IF l.time = "" THEN @ ELSE <<v, l.time>>]

SetTime(l, v) ==
    [l EXCEPT !.time = v, !.timestamp = IF l.date = "" THEN @ ELSE <<l.date, v>>]

\* What a setter that returns no error does.  A dash leaves the category and
\* the agent as they are; a column nobody knows is only warned of.
Set(l, column, v) ==
    CASE column = "date"           -> SetDate(l, v)
      [] column = "time"           -> SetTime(l, v)
      [] column = "string"         -> [l EXCEPT !.string = toPtrString(v)]
      [] column = "number"         -> [l EXCEPT !.number = toPtrString(v)]
      [] column = "sc-status"      -> [l EXCEPT !.status = toPtrString(v),
                                                !.category = IF v = "-" THEN @ ELSE Category(v)]
      [] column = "cs(User-Agent)" -> [l EXCEPT !.agent = IF v = "-" THEN @ ELSE Unescape(v)]
      [] OTHER                     -> l

-----------------------------------------------------------------------------
Init ==
    /\ file \in Files
    /\ n = 0
    /\ fields = <<>>
    /\ vi = 1
    /\ log = Empty
    /\ logs = <<>>
    /\ pc = "scan"

Line == file[n + 1]

\* A line that starts with #
ScanHeader ==
    /\ pc = "scan" /\ n < Len(file) /\ Line.kind \in {"fields", "comment"}
    /\ fields' = IF Line.kind = "fields" THEN Line.words ELSE fields
    /\ n' = n + 1
    /\ UNCHANGED <<file, vi, log, logs, pc>>

ScanRowAgain ==
    /\ pc = "scan" /\ n < Len(file) /\ Line.kind = "row"
    /\ Len(Line.words) <= Len(fields)
    /\ vi' = 1
    /\ pc' = "row"
    /\ UNCHANGED <<file, n, fields, log, logs>>

\* A row: its record starts empty.
ScanRow ==
    /\ pc = "scan" /\ n < Len(file) /\ Line.kind = "row"
    /\ Len(Line.words) <= Len(fields)
    /\ vi' = 1
    /\ log' = Empty
    /\ pc' = "row"
    /\ UNCHANGED <<file, n, fields, logs>>

\* It has more values than there are columns, or the scanner gives up.
ScanFails ==
    /\ pc = "scan" /\ n < Len(file)
    /\ Line.kind = "long" \/ (Line.kind = "row" /\ Len(Line.words) > Len(fields))
    /\ pc' = "error"
    /\ UNCHANGED <<file, n, fields, vi, log, logs>>

SetValue ==
    /\ pc = "row" /\ vi <= Len(Line.words)
    /\ ~ SetterFails(log, fields[vi], Line.words[vi])
    /\ log' = Set(log, fields[vi], Line.words[vi])
    /\ vi' = vi + 1
    /\ UNCHANGED <<file, n, fields, logs, pc>>

SetValueFails ==
    /\ pc = "row" /\ vi <= Len(Line.words)
    /\ SetterFails(log, fields[vi], Line.words[vi])
    /\ pc' = "error"
    /\ UNCHANGED <<file, n, fields, vi, log, logs>>

EndRow ==
    /\ pc = "row" /\ vi > Len(Line.words)
    /\ logs' = Append(logs, log)
    /\ n' = n + 1
    /\ pc' = "scan"
    /\ UNCHANGED <<file, fields, vi, log>>

Return ==
    /\ pc = "scan" /\ n = Len(file)
    /\ pc' = "ok"
    /\ UNCHANGED <<file, n, fields, vi, log, logs>>

Returned == pc \in {"ok", "error"} /\ UNCHANGED vars

Next ==
    \/ ScanHeader \/ ScanRow \/ ScanFails
    \/ SetValue \/ SetValueFails \/ EndRow
    \/ Return \/ Returned

Spec == Init /\ [][Next]_vars

-----------------------------------------------------------------------------
(* The records a file stands for *)

Rows == {i \in 1..Len(file) : file[i].kind = "row"}

\* The columns in force at a line, and what a row has under one of them: a
\* column that is named twice counts the last time.
ColumnsAt(i) ==
    LET headers == {j \in 1..(i - 1) : file[j].kind = "fields"}
    IN  IF headers = {} THEN <<>> ELSE file[Max(headers)].words

Places(i, column) == {k \in DOMAIN file[i].words : ColumnsAt(i)[k] = column}

Under(i, column) ==
    IF Places(i, column) = {} THEN "" ELSE file[i].words[Max(Places(i, column))]

\* What it has under it the last time that is no dash
Said(i, column) == {k \in Places(i, column) : file[i].words[k] # "-"}

LastSaid(i, column) ==
    IF Said(i, column) = {} THEN Nil ELSE file[i].words[Max(Said(i, column))]

\* It has more values than there are columns, or one its column cannot take.
Misfit(i) == Len(file[i].words) > Len(ColumnsAt(i))

Bad(i, k) ==
    LET column == ColumnsAt(i)[k]  v == file[i].words[k]
    IN  \/ column \in {"number", "sc-status"} /\ v \notin {"-", "200", "404"}
        \/ column = "cs(User-Agent)" /\ v = "%zz"

\* The row the k-th record is made of
RowOf(k) == CHOOSE i \in Rows : Cardinality({j \in Rows : j <= i}) = k

-----------------------------------------------------------------------------
Texts == Values \cup {Nil, "escape", "2xx", "4xx"}

TypeOK ==
    /\ file \in Files
    /\ n \in 0..Len(file)
    /\ fields \in Seq(Columns \cup {"unknown"})
    /\ vi \in Nat \ {0}
    /\ pc \in {"scan", "row", "ok", "error"}
    /\ \A l \in {log} \cup {logs[k] : k \in DOMAIN logs} :
          /\ \A c \in DOMAIN Empty \ {"timestamp"} : l[c] \in Texts
          /\ l.timestamp = NoTime \/ Parses(l.timestamp[1], l.timestamp[2])

\* Every record has, under each column, the value that its row has under the
\* header in force there, and nothing of the row before it: of a column that
\* is named twice the last value, or, for the category of the status and for
\* the unescaped agent, the last that is no dash; a file that is parsed has
\* one record for every row, in the order of the file
\* (cloudfront_std_log.go:109-134, 285-324).
RowsFaithful ==
    /\ pc = "ok" => Len(logs) = Cardinality(Rows)
    /\ \A k \in DOMAIN logs :
          LET i == RowOf(k)
              Value(column) == IF Places(i, column) = {} THEN Nil ELSE toPtrString(Under(i, column))
              status == LastSaid(i, "sc-status")
              agent == LastSaid(i, "cs(User-Agent)")
          IN  /\ logs[k].string = Value("string")
              /\ logs[k].number = Value("number")
              /\ logs[k].status = Value("sc-status")
              /\ logs[k].category = IF status = Nil THEN Nil ELSE Category(status)
              /\ logs[k].agent = IF agent = Nil THEN Nil ELSE Unescape(agent)

\* A record with a date and a time has their timestamp, in whatever order and
\* however often the columns come; without one of them it has the zero time.
TimestampFollows ==
    \A k \in DOMAIN logs :
        LET date == Under(RowOf(k), "date")  time == Under(RowOf(k), "time")
        IN  /\ logs[k].date = date /\ logs[k].time = time
            /\ logs[k].timestamp = IF date # "" /\ time # "" THEN <<date, time>> ELSE NoTime

\* Parsing fails only for a row that does not fit its header or holds a value
\* its column cannot, or for a line the scanner cannot hold; and nothing of
\* the kind is ever accepted: no record is made of such a row, and a file with
\* a line that long is never parsed (cloudfront_std_log.go:305-329).
ErrorHasCause ==
    /\ pc = "error" =>
          \/ Line.kind = "long"
          \/ Misfit(n + 1)
          \/ \E k \in DOMAIN Line.words :
                \/ Bad(n + 1, k)
                \/ ColumnsAt(n + 1)[k] = "date" /\ Line.words[k] # "2019-12-01"
                \/ ColumnsAt(n + 1)[k] = "time" /\ Line.words[k] # "22:42:31"
    /\ \A k \in DOMAIN logs :
          LET i == RowOf(k)
          IN  ~ Misfit(i) /\ \A m \in DOMAIN file[i].words : ~ Bad(i, m)
    /\ pc = "ok" => \A i \in 1..Len(file) : file[i].kind # "long"
=============================================================================
