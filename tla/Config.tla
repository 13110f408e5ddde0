------------------------------- MODULE Config -------------------------------
(***************************************************************************)
(* Config.Load and Config.Validate (config.go, jsonnet.go): a file is      *)
(* evaluated into JSON, decoded, and validated part by part, in the order  *)
(* of the code, with defaults filled in.  What --render-config prints is   *)
(* JSON again and can be loaded in its turn.                               *)
(*                                                                         *)
(* A member that may be missing from the JSON, and a pointer or slice that *)
(* may be nil, is a set of at most one value.  CELCapable keeps the JSON   *)
(* it was decoded from, and stands here for it.  Descriptions, units,      *)
(* headers, scope and the Boolean settings are copied and left out.        *)
(***************************************************************************)
EXTENDS CEL

CONSTANTS
    Environment,    \* the environment variables that are set
    NotText,        \* an object where a text should be
    Duration,       \* the texts time.ParseDuration accepts
    Millisecond,
    HTTP,           \* the texts url.Parse accepts, with an http or https scheme
    DefaultHistogramBoundaries

\* AggregationTypeString takes the names in any case.
AggregationTypeString ==
    [s \in {"Count", "count", "Sum", "SUM", "Histogram", "histogram"} |->
        CASE s \in {"Count", "count"} -> "Count"
          [] s \in {"Sum", "SUM"}     -> "Sum"
          [] OTHER                    -> "Histogram"]

DefaultEndpoint == "http://localhost:4317"

ASSUME ConfigAssumption ==
    /\ NotText \notin DOMAIN Duration /\ NotText \notin HTTP
    /\ "" \notin DOMAIN Duration /\ "" \notin HTTP
    /\ {"1m", "1h"} \subseteq DOMAIN Duration
    /\ Duration \in [DOMAIN Duration -> Int]
    /\ Millisecond \in Nat \ {0}
    /\ Duration["1m"] >= Millisecond
    /\ DefaultEndpoint \in HTTP
    /\ DefaultHistogramBoundaries \in Seq(Int)
    /\ \A j, k \in DOMAIN DefaultHistogramBoundaries :
          j < k => DefaultHistogramBoundaries[j] < DefaultHistogramBoundaries[k]

\* In any file lists are lists and boundaries are numbers.
IsList(s) == s \in Seq({s[n] : n \in DOMAIN s})

IsFile(d) ==
    /\ IsList(d.resource) /\ IsList(d.metrics)
    /\ \A n \in DOMAIN d.metrics : d.metrics[n].boundaries \subseteq Seq(Int)

\* The expressions in a file
FieldsIn(d) ==
    {d.resource[n].value : n \in DOMAIN d.resource}
        \cup UNION {LET m == d.metrics[n]
                    IN  {m.filter, m.value} \cup {m.attributes[k].value : k \in DOMAIN m.attributes} :
                    n \in DOMAIN d.metrics}

VARIABLES
    doc,       \* the file, as its author wrote it
    json,      \* what it is evaluated into
    cfg,       \* the Config
    i,         \* index of the loop in Validate
    rendered,  \* the Config that --render-config printed, if it has
    stage      \* how far Load has come; "accepted" or "refused"

configVars == <<doc, json, cfg, i, rendered, stage>>

-----------------------------------------------------------------------------
(* Evaluation *)

\* A text may also be env(name, default) or must_env(name).
Env(name, default) == [kind |-> "env", of |-> name, entries |-> <<default>>]
MustEnv(name) == [kind |-> "must_env", of |-> name, entries |-> <<>>]

TextFails(field) == field.kind = "must_env" /\ field.of \notin DOMAIN Environment

\* An empty environment variable is none for env, and a text for must_env.
Text(field) ==
    CASE field.kind = "absent"   -> ""
      [] field.kind = "literal"  -> field.of
      [] field.kind = "must_env" -> Environment[field.of]
      [] field.kind = "env"      -> IF field.of \in DOMAIN Environment /\ Environment[field.of] # ""
                                    THEN Environment[field.of] ELSE field.entries[1]
      [] OTHER                   -> NotText

\* A null leaves a pointer nil, like a missing member.
Member(field) == IF field.kind = "absent" \/ field = Literal(Null) THEN {} ELSE {Native(field)}

AttributeJSON(a) == [unknown |-> a.unknown, key |-> Text(a.key), value |-> Member(a.value)]

AttributesJSON(as) == [n \in DOMAIN as |-> AttributeJSON(as[n])]

MetricJSON(m) ==
    [unknown |-> m.unknown, name |-> Text(m.name), interval |-> Text(m.interval), type |-> m.type,
     attributes |-> AttributesJSON(m.attributes), filter |-> Member(m.filter),
     value |-> Member(m.value), boundaries |-> m.boundaries]

ConfigJSON(d) ==
    [unknown |-> d.unknown, endpoint |-> Text(d.endpoint), tolerance |-> Text(d.tolerance),
     resource |-> AttributesJSON(d.resource), metrics |-> [n \in DOMAIN d.metrics |-> MetricJSON(d.metrics[n])]]

AttributesFail(as) == \E n \in DOMAIN as : TextFails(as[n].key) \/ NativeFails(as[n].value)

EvaluationFails(d) ==
    \/ d.broken
    \/ TextFails(d.endpoint) \/ TextFails(d.tolerance) \/ AttributesFail(d.resource)
    \/ \E n \in DOMAIN d.metrics :
          LET m == d.metrics[n]
          IN  \/ TextFails(m.name) \/ TextFails(m.interval)
              \/ AttributesFail(m.attributes) \/ NativeFails(m.filter) \/ NativeFails(m.value)

-----------------------------------------------------------------------------
(* Decoding: unknown members are refused at every level but inside a       *)
(* CELCapable, and cel(...) where it cannot be used                        *)

AttributesDecode(as) ==
    \A n \in DOMAIN as : /\ ~ as[n].unknown /\ as[n].key # NotText
                         /\ \A v \in as[n].value : Unmarshals(v, "any")

MetricDecodes(m) ==
    /\ ~ m.unknown /\ m.name # NotText /\ m.interval # NotText
    /\ m.type \subseteq DOMAIN AggregationTypeString
    /\ AttributesDecode(m.attributes)
    /\ \A v \in m.filter : Unmarshals(v, "bool")
    /\ \A v \in m.value : Unmarshals(v, "float64")

Decodable(c) ==
    /\ ~ c.unknown /\ c.endpoint # NotText /\ c.tolerance # NotText
    /\ AttributesDecode(c.resource)
    /\ \A n \in DOMAIN c.metrics : MetricDecodes(c.metrics[n])

DecodedAttributes(as) == [n \in DOMAIN as |-> [key |-> as[n].key, value |-> as[n].value]]

\* Without a type it is the zero value, Count.
DecodedMetric(m) ==
    [name |-> m.name, interval |-> m.interval,
     type |-> IF m.type = {} THEN "Count" ELSE CHOOSE t \in {AggregationTypeString[s] : s \in m.type} : TRUE,
     attributes |-> DecodedAttributes(m.attributes), filter |-> m.filter, value |-> m.value,
     boundaries |-> m.boundaries, aggregateInterval |-> 0]

DecodedConfig(c) ==
    [endpoint |-> c.endpoint, endpointURL |-> {}, tolerance |-> c.tolerance, timeTolerance |-> 0,
     resource |-> DecodedAttributes(c.resource),
     metrics |-> [n \in DOMAIN c.metrics |-> DecodedMetric(c.metrics[n])]]

DefaultConfig ==
    [endpoint |-> "", endpointURL |-> {}, tolerance |-> "", timeTolerance |-> 0,
     resource |-> <<>>, metrics |-> <<>>]

-----------------------------------------------------------------------------
(* Validation *)

Or(text, default) == IF text = "" THEN default ELSE text

OtelValid(c) == Or(c.endpoint, DefaultEndpoint) \in HTTP

WithEndpoint(c) ==
    LET endpoint == Or(c.endpoint, DefaultEndpoint)
    IN  [c EXCEPT !.endpoint = endpoint, !.endpointURL = {endpoint}]

AttributeValid(a) == a.key # "" /\ a.value # {}

BackfillValid(c) == Or(c.tolerance, "1h") \in DOMAIN Duration

WithTolerance(c) ==
    LET tolerance == Or(c.tolerance, "1h")
    IN  [c EXCEPT !.tolerance = tolerance, !.timeTolerance = Duration[tolerance]]

BoundariesOf(m) == IF m.boundaries = {} THEN DefaultHistogramBoundaries
                   ELSE CHOOSE b \in m.boundaries : TRUE

Increasing(b) == \A n \in 2..Len(b) : b[n] > b[n - 1]

MetricValid(m) ==
    /\ m.name # ""
    /\ \A n \in DOMAIN m.attributes : AttributeValid(m.attributes[n])
    /\ Or(m.interval, "1m") \in DOMAIN Duration
    /\ Duration[Or(m.interval, "1m")] >= Millisecond
    /\ m.type # "Count" => m.value # {}
    /\ m.type = "Histogram" => Increasing(BoundariesOf(m))

WithDefaults(m) ==
    LET interval == Or(m.interval, "1m")
    IN  [m EXCEPT !.interval = interval, !.aggregateInterval = Duration[interval],
                  !.boundaries = IF m.type = "Histogram" THEN {BoundariesOf(m)} ELSE @]

-----------------------------------------------------------------------------
LoadInit ==
    /\ json = {}
    /\ cfg = DefaultConfig
    /\ i = 1
    /\ rendered = {}
    /\ stage = "evaluate"

\* The file is missing or cannot be evaluated, or it is.
Evaluate ==
    /\ stage = "evaluate"
    /\ IF EvaluationFails(doc) THEN stage' = "refused" /\ UNCHANGED json
       ELSE stage' = "decode" /\ json' = {ConfigJSON(doc)}
    /\ UNCHANGED <<doc, cfg, i, rendered>>

Decode ==
    /\ stage = "decode"
    /\ \E c \in json :
          IF Decodable(c) THEN cfg' = DecodedConfig(c) /\ stage' = "otel"
          ELSE stage' = "refused" /\ UNCHANGED cfg
    /\ UNCHANGED <<doc, json, i, rendered>>

ValidateOtel ==
    /\ stage = "otel"
    /\ IF OtelValid(cfg) THEN cfg' = WithEndpoint(cfg) /\ stage' = "resource"
       ELSE stage' = "refused" /\ UNCHANGED cfg
    /\ UNCHANGED <<doc, json, i, rendered>>

ValidateResourceAttribute ==
    /\ stage = "resource" /\ i <= Len(cfg.resource)
    /\ IF AttributeValid(cfg.resource[i]) THEN i' = i + 1 /\ UNCHANGED stage
       ELSE stage' = "refused" /\ UNCHANGED i
    /\ UNCHANGED <<doc, json, cfg, rendered>>

ValidateBackfill ==
    /\ stage = "resource" /\ i > Len(cfg.resource)
    /\ IF BackfillValid(cfg) THEN cfg' = WithTolerance(cfg) /\ stage' = "metrics" /\ i' = 1
       ELSE stage' = "refused" /\ UNCHANGED <<cfg, i>>
    /\ UNCHANGED <<doc, json, rendered>>

ValidateMetric ==
    /\ stage = "metrics" /\ i <= Len(cfg.metrics)
    /\ IF MetricValid(cfg.metrics[i])
       THEN cfg' = [cfg EXCEPT !.metrics[i] = WithDefaults(@)] /\ i' = i + 1 /\ UNCHANGED stage
       ELSE stage' = "refused" /\ UNCHANGED <<cfg, i>>
    /\ UNCHANGED <<doc, json, rendered>>

Accept ==
    /\ stage = "metrics" /\ i > Len(cfg.metrics)
    /\ stage' = "accepted"
    /\ UNCHANGED <<doc, json, cfg, i, rendered>>

LoadNext ==
    \/ Evaluate \/ Decode
    \/ ValidateOtel \/ ValidateResourceAttribute \/ ValidateBackfill \/ ValidateMetric
    \/ Accept

-----------------------------------------------------------------------------
(* Rendering *)

\* As if an expression were printed as its value
RenderedAttributesValues(as) ==
    [n \in DOMAIN as |-> [unknown |-> FALSE, key |-> as[n].key,
                          value |-> {JSONLiteral(v.value) : v \in as[n].value}]]

RenderedAttributes(as) ==
    [n \in DOMAIN as |-> [unknown |-> FALSE, key |-> as[n].key, value |-> as[n].value]]

\* omitempty leaves out Count, the zero value, and boundaries that are empty,
\* nil or not.
RenderedMetric(m) ==
    [unknown |-> FALSE, name |-> m.name, interval |-> m.interval,
     type |-> {m.type} \ {"Count"}, attributes |-> RenderedAttributes(m.attributes),
     filter |-> m.filter, value |-> m.value, boundaries |-> m.boundaries \ {<<>>}]

Rendered(c) ==
    [unknown |-> FALSE, endpoint |-> c.endpoint, tolerance |-> c.tolerance,
     resource |-> RenderedAttributes(c.resource),
     metrics |-> [n \in DOMAIN c.metrics |-> RenderedMetric(c.metrics[n])]]

\* Another process loads what this one printed.
LoadRendered ==
    /\ stage = "rendered"
    /\ json' = {Rendered(cfg)}
    /\ rendered' = {cfg}
    /\ cfg' = DefaultConfig
    /\ i' = 1
    /\ stage' = "decode"
    /\ UNCHANGED doc

-----------------------------------------------------------------------------
Accepted == stage \notin {"evaluate", "decode", "otel", "resource", "metrics", "refused"}

\* A metric as Aggregation assumes it: a positive interval of its own, a value
\* where it is needed, and strictly increasing boundaries that are not nil.
MetricUsable(m) ==
    /\ m.name # "" /\ m.type \in {"Count", "Sum", "Histogram"}
    /\ m.aggregateInterval \in Nat \ {0}
    /\ m.aggregateInterval = Duration[m.interval]
    /\ \A n \in DOMAIN m.attributes : AttributeValid(m.attributes[n])
    /\ m.type # "Count" => m.value # {}
    /\ m.type = "Histogram" =>
          /\ m.boundaries # {}
          /\ \A b \in m.boundaries : \A j, k \in DOMAIN b : j < k => b[j] < b[k]

\* An accepted configuration is what the rest of the program takes for
\* granted: AggregationAssumption, a parsed endpoint for the exporter (which
\* dereferences it without asking) and a parsed tolerance for the backfill
\* (config.go:90-183, app.go:247).
AcceptedIsUsable ==
    Accepted =>
        /\ cfg.endpointURL = {cfg.endpoint} /\ cfg.endpoint \in HTTP
        /\ cfg.tolerance \in DOMAIN Duration /\ cfg.timeTolerance = Duration[cfg.tolerance]
        /\ \A n \in DOMAIN cfg.resource : AttributeValid(cfg.resource[n])
        /\ \A n \in DOMAIN cfg.metrics : MetricUsable(cfg.metrics[n])

\* The expressions an author wrote, and those of the configuration with their
\* type, side by side
FieldPairs ==
    LET Attributes(ds, as) ==
            {<<ds[n].value, as[n].value, "any">> : n \in DOMAIN ds}
    IN  Attributes(doc.resource, cfg.resource)
            \cup UNION {LET d == doc.metrics[n]  m == cfg.metrics[n]
                        IN  Attributes(d.attributes, m.attributes)
                                \cup {<<d.filter, m.filter, "bool">>, <<d.value, m.value, "float64">>} :
                        n \in DOMAIN doc.metrics}

\* Every expression of an accepted configuration has, on every log line, the
\* value of what its author wrote: the first case of a switch that holds
\* decides it, an error in it is not taken for false, the default counts only
\* when none holds, and none of this changes when the configuration is
\* rendered and loaded again (cel.go:239-292, jsonnet.go:174-233).
EvaluatesAsWritten ==
    Accepted =>
        \A pair \in FieldPairs :
            LET field == pair[1]  value == pair[2]  T == pair[3]
            IN  /\ value = {} <=> (field.kind = "absent" \/ field = Literal(Null))
                /\ ~ UsesEmpty(field) =>
                      \A v \in value : \A vars \in Variables :
                          Meanings(field, T, vars) = {Eval(v, T, vars)}

\* What --render-config prints is accepted and means the same, but that a
\* histogram written with no boundaries comes back with the default ones.
RenderedMeansSame ==
    LET Same(m, before) ==
            /\ [m EXCEPT !.boundaries = {}] = [before EXCEPT !.boundaries = {}]
            /\ m.type = "Histogram" =>
                  m.boundaries = IF before.boundaries = {<<>>} THEN {DefaultHistogramBoundaries}
                                 ELSE before.boundaries
    IN  \A c \in rendered :
            /\ stage # "refused"
            /\ stage = "accepted" =>
                  /\ [cfg EXCEPT !.metrics = <<>>] = [c EXCEPT !.metrics = <<>>]
                  /\ DOMAIN cfg.metrics = DOMAIN c.metrics
                  /\ \A n \in DOMAIN c.metrics : Same(cfg.metrics[n], c.metrics[n])
=============================================================================
