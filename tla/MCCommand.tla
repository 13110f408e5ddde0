----------------------------- MODULE MCCommand ------------------------------
(***************************************************************************)
(* Files that vary a small configuration in one place at a time, with the  *)
(* flags of a plain run and with all the others on a good file, and the    *)
(* events: of every nesting AWS offers with one or two records a level,    *)
(* batches with other texts in them, and batches of mixed sources, which   *)
(* AWS does not send and the code has a path for.                          *)
(***************************************************************************)
EXTENDS Command

Object == Handler!Object
Document(rs) == Handler!Document(rs)
Rec(source, body) == [source |-> source, body |-> body]

\* The S3 event number n: one record or two, each different from all others
S3(n, len) == Document([k \in 1..len |-> Rec("aws:s3", [Object EXCEPT !.body = <<n, k>>])])

\* What may be in an SNS message or an SQS body: event number n
Plain(n) == {S3(n, 1), S3(n, 2), Object, Handler!Text}

Topic(n) ==
    Plain(n) \cup {Handler!Entity(d) : d \in Plain(n)}
        \cup {Handler!Message("aws:sns", d) : d \in Plain(n)}
        \cup {Document(<<Rec("aws:sns", S3(n, 2)), Rec("aws:sns", S3(n + 1, 1))>>)}

Batch(sources) ==
    {Document([k \in 1..2 |-> Rec(s[k], b[k])]) :
        s \in [1..2 -> sources], b \in {<<x, y>> : x \in Topic(1), y \in Topic(3)}}

MCEvents ==
    Topic(1) \cup {Handler!Message("aws:sqs", d) : d \in Topic(1)}
        \cup {Document(<<Rec("aws:sqs", d)>>) : d \in Topic(1)}
        \cup Batch({"aws:sqs", "aws:sns"})

-----------------------------------------------------------------------------
(* Expressions: on zero variables and on two log lines *)

MCVariables == {"zero", "a", "b"}

On(zero, a, b) == [v \in MCVariables |-> CASE v = "zero" -> zero [] v = "a" -> a [] OTHER -> b]

MCValues == {"true", "false", "null", "object", "text", "0", "1", "2"}

MCGoType ==
    [v \in MCValues |-> CASE v \in {"true", "false"} -> "bool"
                          [] v \in {"0", "1", "2"}   -> "float64"
                          [] v = "text"              -> "string"
                          [] v = "null"              -> "null"
                          [] OTHER                   -> "map"]

MCZeroValue == [T \in {"bool", "float64", "any"} |->
                   CASE T = "bool" -> "false" [] T = "float64" -> "0" [] OTHER -> "null"]

MCExprs == {"isA", "isB", "failsOnA", "textOnB", "number", "numberFailsOnB", "numberOrText", "bad"}

MCResult ==
    [e \in MCExprs |->
        CASE e = "isA"            -> On("false", "true", "false")
          [] e = "isB"            -> On("false", "false", "true")
          [] e = "failsOnA"       -> On("false", "error", "true")
          [] e = "textOnB"        -> On("true", "false", "text")
          [] e = "number"         -> On("0", "1", "2")
          [] e = "numberFailsOnB" -> On("0", "1", "error")
          [] e = "numberOrText"   -> On("0", "text", "2")
          [] OTHER                -> On("error", "error", "error")]

Entry(case, value, default) == [case |-> case, value |-> value, default |-> default]

\* Entries of a switch
CaseEntries ==
    {Entry(Cel(c), v, Absent) :
        c \in {"isA", "isB", "failsOnA", "textOnB", ""}, v \in {Literal("1"), Cel("number"), Cel("numberOrText")}}
DefaultEntries ==
    {Entry(Absent, Absent, v) : v \in {Literal("2"), Literal("null"), Cel("number"), Cel("numberFailsOnB"), Cel("")}}
BadEntries ==
    {Entry(Literal("true"), Literal("1"), Absent), Entry(Cel("isA"), Absent, Absent),
     Entry(Absent, Literal("1"), Absent), Entry(Cel("bad"), Literal("1"), Absent),
     Entry(Cel("number"), Literal("1"), Absent), Entry(Cel("isA"), Literal("text"), Absent),
     Entry(Cel("isA"), Cel("isB"), Absent), Entry(Absent, Absent, Cel("bad")),
     Entry(Absent, Absent, Cel("isA")), Entry(Absent, Literal("1"), Literal("2")),
     Entry(Absent, Cel("number"), Literal("2")), Entry(Absent, Cel("isA"), Cel("number"))}

Short == CaseEntries \cup DefaultEntries \cup BadEntries

Switches ==
    {Switch(<<>>)} \cup {Switch(<<x>>) : x \in Short} \cup {Switch(<<x, y>>) : x, y \in Short \ BadEntries}
        \cup {Switch(<<x, y>>) : x \in BadEntries, y \in {Entry(Cel("isB"), Literal("1"), Absent)}}
        \cup {Switch(<<Entry(Cel("isB"), Literal("1"), Absent), x, Entry(Cel("failsOnA"), Cel("number"), Absent)>>) :
                 x \in Short}

Fields ==
    {Absent} \cup {Literal(v) : v \in MCValues} \cup {Cel(e) : e \in MCExprs \cup {""}} \cup Switches

-----------------------------------------------------------------------------
(* Files *)

Attr(key, value) == [unknown |-> FALSE, key |-> key, value |-> value]

Good == Attr(Literal("status"), Cel("numberOrText"))

GoodMetric ==
    [unknown |-> FALSE, name |-> Literal("m"), interval |-> Absent, type |-> {"histogram"},
     attributes |-> <<>>, filter |-> Absent, value |-> Cel("number"), boundaries |-> {<<1, 2, 3>>}]

GoodFile ==
    [broken |-> FALSE, unknown |-> FALSE, endpoint |-> Absent, tolerance |-> Absent,
     resource |-> <<Good>>, metrics |-> <<GoodMetric, [GoodMetric EXCEPT !.type = {}]>>]

Texts == {Absent, Literal(""), Cel("isA"), Env("EMPTY", "5s"), Env("UNSET", ""), MustEnv("EMPTY"), MustEnv("UNSET")}

BadAttributes ==
    {[Good EXCEPT !.unknown = TRUE]} \cup {[Good EXCEPT !.key = k] : k \in Texts}
        \cup {[Good EXCEPT !.value = v] : v \in {Absent, Literal("null"), Literal("object"), Cel("bad"), Cel("")}}

MetricFiles ==
    {[GoodMetric EXCEPT !.unknown = TRUE]} \cup {[GoodMetric EXCEPT !.name = n] : n \in Texts}
        \cup {[GoodMetric EXCEPT !.interval = n] : n \in Texts \cup {Literal(t) : t \in {"5s", "500us", "-1m", "soon"}}}
        \cup {[GoodMetric EXCEPT !.attributes = <<Good, a>>] : a \in BadAttributes}
        \cup {[GoodMetric EXCEPT !.type = t, !.value = v] :
                 t \in {{}, {"Count"}, {"SUM"}, {"Sum"}, {"Histogram"}, {"Gauge"}},
                 v \in {Absent, Literal("1"), Cel("number")}}
        \cup {[GoodMetric EXCEPT !.boundaries = b, !.type = t] :
                 t \in {{"Sum"}, {"Histogram"}}, b \in {{}, {<<>>}, {<<7>>}, {<<1, 3, 2>>}, {<<1, 1>>}}}
        \cup {[GoodMetric EXCEPT !.filter = f] : f \in Fields}
        \cup {[GoodMetric EXCEPT !.value = f] : f \in Fields}

MCDocuments ==
    {GoodFile, [GoodFile EXCEPT !.broken = TRUE], [GoodFile EXCEPT !.unknown = TRUE]}
        \cup {[GoodFile EXCEPT !.endpoint = t] : t \in Texts \cup {Literal("https://example.com"), Literal("ftp://example.com")}}
        \cup {[GoodFile EXCEPT !.tolerance = t] : t \in Texts \cup {Literal("soon"), Literal("-1m")}}
        \cup {[GoodFile EXCEPT !.resource = <<Good, a>>] : a \in BadAttributes}
        \cup {[GoodFile EXCEPT !.resource[1].value = f] : f \in Switches}
        \cup {[GoodFile EXCEPT !.metrics[2] = m] : m \in MetricFiles}

MCEnvironment == [v \in {"EMPTY", "SET"} |-> IF v = "EMPTY" THEN "" ELSE "5s"]

\* In tenths of a millisecond
MCDuration ==
    [t \in {"1h", "1m", "5s", "500us", "-1m"} |->
        CASE t = "1h" -> 36000000 [] t = "1m" -> 600000 [] t = "5s" -> 50000
          [] t = "500us" -> 5 [] OTHER -> -600000]

MCBoundaries == <<0, 5, 10>>

-----------------------------------------------------------------------------
MCURLs == {"", "s3://b/key", "s3://b//key", "http://b/key"}
MCS3Part ==
    [u \in {"s3://b/key", "s3://b//key"} |-> [Object EXCEPT !.body = <<9, IF u = "s3://b/key" THEN 1 ELSE 2>>]]

Flags == [validateOnly : BOOLEAN, render : BOOLEAN, local : BOOLEAN, s3URL : MCURLs, lambda : BOOLEAN]
PlainRun == [validateOnly |-> FALSE, render |-> FALSE, local |-> FALSE, s3URL |-> "", lambda |-> FALSE]

MCStarts ==
    {[doc |-> d, flags |-> [PlainRun EXCEPT !.render = TRUE], event |-> S3(1, 1)] : d \in MCDocuments}
        \cup {[doc |-> GoodFile, flags |-> f, event |-> S3(1, 2)] : f \in Flags}
        \cup {[doc |-> GoodFile, flags |-> PlainRun, event |-> e] : e \in MCEvents}
=============================================================================
