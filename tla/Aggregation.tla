---------------------------- MODULE Aggregation ----------------------------
(***************************************************************************)
(* Aggregate (aggregation.go): one call folds a slice of parsed CloudFront *)
(* log lines into OTLP metrics.  The result is grouped three times: lines  *)
(* with equal resource attributes share a resource, every configured       *)
(* metric has one entry per resource, and inside an entry the lines of one *)
(* aggregation window with equal data point attributes share a point.  At  *)
(* every level the code searches a slice and appends when the search       *)
(* fails.                                                                  *)
(*                                                                         *)
(* The loops are modelled one iteration per step: StartLine is the head of *)
(* the loop over the lines, AggregateMetric one iteration of the loop over *)
(* cfg.Metrics.  CEL expressions are data: a compiled expression is the    *)
(* function that gives its result for every line.  Floats are integers,    *)
(* times are whole units since the zero time.                              *)
(***************************************************************************)
EXTENDS Integers, Sequences, FiniteSets, FiniteSetsExt, Functions, Slices

CONSTANTS
    Lines,               \* parsed log lines
    Timestamp,           \* when each line was logged
    Keys, AttrValues,    \* attribute keys, and the values an attribute can have
    Nil,                 \* a null (or unsupported) attribute value: left out
    EvalError,           \* the expression fails on this line
    ResourceAttributes,  \* cfg.ResourceAttributes
    Metrics,             \* cfg.Metrics, after Config.Validate
    LogInputs            \* the slices of lines Aggregate may be called with

AggregationTypes == {"Count", "Sum", "Histogram"}

\* An AttributeConfig and a MetricsConfig as Config.Validate leaves them:
\* a type is one of the three, the interval is positive, and a Histogram's
\* boundaries increase (those of other types are not looked at).
AttributeConfig ==
    [key : Keys, value : [Lines -> AttrValues \cup {Nil, EvalError}]]

MetricsConfig ==
    [name : STRING, type : AggregationTypes, interval : Nat \ {0},
     filter : [Lines -> BOOLEAN \cup {EvalError}],
     attributes : Seq(AttributeConfig),
     value : [Lines -> Int \cup {EvalError}],
     boundaries : Seq(Int), noMinMax : BOOLEAN]

ASSUME AggregationAssumption ==
    /\ Timestamp \in [Lines -> Nat]
    /\ ResourceAttributes \in Seq(AttributeConfig)
    /\ Metrics \in Seq(MetricsConfig)
    /\ \A k \in DOMAIN Metrics :
          Metrics[k].type = "Histogram" =>
              \A i, j \in DOMAIN Metrics[k].boundaries :
                  i < j => Metrics[k].boundaries[i] < Metrics[k].boundaries[j]
    /\ LogInputs \subseteq Seq(Lines)
    /\ EvalError \notin BOOLEAN

VARIABLES
    logs,       \* the argument of the call
    li,         \* the line the outer loop is at
    mi,         \* the metric the inner loop is at
    target,     \* index of the resource of the current line
    resources,  \* resourceMetrics: what has been aggregated so far
    resp,       \* what the call returns when it succeeds
    pc          \* "line", "metric", "done" or "failed"

vars == <<logs, li, mi, target, resources, resp, pc>>

-----------------------------------------------------------------------------
(* Attributes and windows *)

AttributesFail(cfgs, l) ==
    \E i \in DOMAIN cfgs : cfgs[i].value[l] = EvalError

\* ToAttributes, and the attribute.NewSet made of its result: null values are
\* left out and the last of several values of a key wins.
ToAttributes(cfgs, l) ==
    LET kept == {i \in DOMAIN cfgs : cfgs[i].value[l] # Nil}
        last == {i \in kept : \A j \in kept :
                                  cfgs[j].key = cfgs[i].key => j <= i}
    IN  {<<cfgs[i].key, cfgs[i].value[l]>> : i \in last}

StartTimeRounded(m, l) ==
    ((Timestamp[l] + (m.interval \div 2)) \div m.interval) * m.interval

\* getStartTimeAndTime: time.Truncate, and the end of the window
StartTime(m, l) == Timestamp[l] - (Timestamp[l] % m.interval)

EndTime(m, l) == StartTime(m, l) + m.interval

-----------------------------------------------------------------------------
(* Data points *)

BucketUpperInclusive(bounds, v) ==
    Min({i \in DOMAIN bounds : v <= bounds[i]} \cup {Len(bounds) + 1})

\* The bucket AppendValueToHistogramDataPoint increments: the first bound
\* greater than the value, or the last bucket.
Bucket(bounds, v) ==
    Min({i \in DOMAIN bounds : v < bounds[i]} \cup {Len(bounds) + 1})

EmptyPointNoOverflow(m, l) ==
    LET start == StartTime(m, l)
        time  == EndTime(m, l)
        attrs == ToAttributes(m.attributes, l)
    IN  IF m.type = "Histogram"
        THEN [start |-> start, time |-> time, attrs |-> attrs,
              count |-> 0, sum |-> 0, min |-> {}, max |-> {},
              bounds |-> m.boundaries,
              buckets |-> [i \in 1..Len(m.boundaries) |-> 0]]
        ELSE [start |-> start, time |-> time, attrs |-> attrs, value |-> 0]

\* A point before its first line is added: newEmptyHistgramDataPonit, or a
\* DataPoint.  Boundaries are never nil once validated; an undefined extremum
\* is {}.
EmptyPoint(m, l) ==
    LET start == StartTime(m, l)
        time  == EndTime(m, l)
        attrs == ToAttributes(m.attributes, l)
    IN  IF m.type = "Histogram"
        THEN [start |-> start, time |-> time, attrs |-> attrs,
              count |-> 0, sum |-> 0, min |-> {}, max |-> {},
              bounds |-> m.boundaries,
              buckets |-> [i \in 1..(Len(m.boundaries) + 1) |-> 0]]
        ELSE [start |-> start, time |-> time, attrs |-> attrs, value |-> 0]

\* AppendValueToHistogramDataPoint: the bounds are those the point was made
\* with, noMinMax is the current metric's.
AppendValueToHistogramDataPoint(point, m, v) ==
    [point EXCEPT !.count = @ + 1, !.sum = @ + v,
                  !.min = IF m.noMinMax \/ \E x \in @ : x <= v THEN @ ELSE {v},
                  !.max = IF m.noMinMax \/ \E x \in @ : x >= v THEN @ ELSE {v},
                  !.buckets[Bucket(point.bounds, v)] = @ + 1]

\* The update of a point by one line, in the three aggregateFor...Metric.
AddTo(point, m, l) ==
    CASE m.type = "Count"     -> [point EXCEPT !.value = @ + 1]
      [] m.type = "Sum"       -> [point EXCEPT !.value = @ + m.value[l]]
      [] m.type = "Histogram" ->
             AppendValueToHistogramDataPoint(point, m, m.value[l])

MatchingStart(points, m, l) ==
    {p \in DOMAIN points : /\ points[p].time = StartTime(m, l)
                           /\ points[p].attrs = ToAttributes(m.attributes, l)}

MatchingTimeOnly(points, m, l) ==
    {p \in DOMAIN points : points[p].time = EndTime(m, l)}

\* The points the search of aggregateFor...Metric would stop at: equal Time
\* and equal attributes (StartTime is not compared).
Matching(points, m, l) ==
    {p \in DOMAIN points : /\ points[p].time = EndTime(m, l)
                           /\ points[p].attrs = ToAttributes(m.attributes, l)}

UpdateStartsEmpty(points, m, l) ==
    IF Matching(points, m, l) = {}
    THEN Append(points, EmptyPoint(m, l))
    ELSE [points EXCEPT ![Min(Matching(points, m, l))] = AddTo(@, m, l)]

UpdateRestarts(points, m, l) ==
    IF Matching(points, m, l) = {}
    THEN Append(points, AddTo(EmptyPoint(m, l), m, l))
    ELSE [points EXCEPT ![Min(Matching(points, m, l))] =
             AddTo([@ EXCEPT !.start = StartTime(m, l)], m, l)]

\* Add the line to the first matching point, or append a point for it.
Update(points, m, l) ==
    IF Matching(points, m, l) = {}
    THEN Append(points, AddTo(EmptyPoint(m, l), m, l))
    ELSE [points EXCEPT ![Min(Matching(points, m, l))] = AddTo(@, m, l)]

-----------------------------------------------------------------------------
(* Metric entries and resources *)

NoData == "NoData"       \* metricdata.Metrics.Data is nil

NewEntry(m) == [name |-> m.name, type |-> NoData, points |-> <<>>]

EntriesOf(metrics, m) == {e \in DOMAIN metrics : metrics[e].name = m.name}

\* The metric entries after the search by name of the loop over cfg.Metrics,
\* which appends an entry when there is none.
WithEntry(metrics, m) ==
    IF EntriesOf(metrics, m) = {} THEN Append(metrics, NewEntry(m)) ELSE metrics

EntryIndex(metrics, m) == Min(EntriesOf(WithEntry(metrics, m), m))

FailsBeforeFilter(m, entry, l) ==
    \/ m.filter[l] = EvalError
    \/ entry.type \notin {NoData, m.type}
    \/ AttributesFail(m.attributes, l)
    \/ m.type \in {"Sum", "Histogram"} /\ m.value[l] = EvalError

\* aggregateMetric returns an error: nothing after the filter is evaluated
\* for a line the filter rejects.
Fails(m, entry, l) ==
    \/ m.filter[l] = EvalError
    \/ /\ m.filter[l] = TRUE
       /\ \/ entry.type \notin {NoData, m.type}
          \/ AttributesFail(m.attributes, l)
          \/ m.type \in {"Sum", "Histogram"} /\ m.value[l] = EvalError

\* aggregateMetric when it returns no error
aggregateMetric(m, entry, l) ==
    IF m.filter[l] = TRUE
    THEN [entry EXCEPT !.type = m.type, !.points = Update(@, m, l)]
    ELSE entry

PrunedOfIncomplete(rs) ==
    Kept(rs, {r \in DOMAIN rs : \A e \in DOMAIN rs[r].metrics : rs[r].metrics[e].points # <<>>})

\* The last loop of Aggregate: metrics without data points (LenDataPoints)
\* and resources without metrics are left out.
WithPoints(metrics) == Kept(metrics, {e \in DOMAIN metrics : metrics[e].points # <<>>})

Pruned(rs) ==
    LET trimmed == [r \in DOMAIN rs |-> [rs[r] EXCEPT !.metrics = WithPoints(@)]]
    IN  Kept(trimmed, {r \in DOMAIN rs : trimmed[r].metrics # <<>>})

ResourcesOf(rs, attrs) == {r \in DOMAIN rs : rs[r].attrs = attrs}

-----------------------------------------------------------------------------
Init ==
    /\ logs \in LogInputs
    /\ li = 1
    /\ mi = 1
    /\ target = 0
    /\ resources = <<>>
    /\ resp = <<>>
    /\ pc = "line"

\* Find the resource of the next line, or append one.  The search has no
\* break: the last match wins.
StartLine ==
    /\ pc = "line"
    /\ li <= Len(logs)
    /\ ~ AttributesFail(ResourceAttributes, logs[li])
    /\ LET attrs == ToAttributes(ResourceAttributes, logs[li])
           found == ResourcesOf(resources, attrs)
       IN  IF found = {}
           THEN /\ resources' = Append(resources, [attrs |-> attrs, metrics |-> <<>>])
                /\ target' = Len(resources) + 1
           ELSE /\ resources' = resources
                /\ target' = Max(found)
    /\ pc' = "metric"
    /\ UNCHANGED <<logs, li, mi, resp>>

ResourceAttributesFail ==
    /\ pc = "line"
    /\ li <= Len(logs)
    /\ AttributesFail(ResourceAttributes, logs[li])
    /\ pc' = "failed"
    /\ UNCHANGED <<logs, li, mi, target, resources, resp>>

\* One iteration of the loop over cfg.Metrics that succeeds
AggregateMetric ==
    /\ pc = "metric"
    /\ mi <= Len(Metrics)
    /\ LET m       == Metrics[mi]
           l       == logs[li]
           entries == WithEntry(resources[target].metrics, m)
           e       == EntryIndex(resources[target].metrics, m)
       IN  /\ ~ Fails(m, entries[e], l)
           /\ resources' = [resources EXCEPT ![target].metrics =
                               [entries EXCEPT ![e] = aggregateMetric(m, @, l)]]
    /\ mi' = mi + 1
    /\ UNCHANGED <<logs, li, target, resp, pc>>

\* One iteration that returns an error: Aggregate returns it and no metrics.
AggregateMetricFail ==
    /\ pc = "metric"
    /\ mi <= Len(Metrics)
    /\ LET m       == Metrics[mi]
           entries == WithEntry(resources[target].metrics, m)
           e       == EntryIndex(resources[target].metrics, m)
       IN  Fails(m, entries[e], logs[li])
    /\ pc' = "failed"
    /\ UNCHANGED <<logs, li, mi, target, resources, resp>>

EndLine ==
    /\ pc = "metric"
    /\ mi > Len(Metrics)
    /\ li' = li + 1
    /\ mi' = 1
    /\ pc' = "line"
    /\ UNCHANGED <<logs, target, resources, resp>>

Return ==
    /\ pc = "line"
    /\ li > Len(logs)
    /\ resp' = Pruned(resources)
    /\ pc' = "done"
    /\ UNCHANGED <<logs, li, mi, target, resources>>

Returned ==
    /\ pc \in {"done", "failed"}
    /\ UNCHANGED vars

Next ==
    \/ StartLine
    \/ ResourceAttributesFail
    \/ AggregateMetric
    \/ AggregateMetricFail
    \/ EndLine
    \/ Return
    \/ Returned

Spec == Init /\ [][Next]_vars

-----------------------------------------------------------------------------
(* What the properties speak of *)

\* The (line, metric) pairs whose iteration has been completed
Processed ==
    {q \in (DOMAIN logs) \X (DOMAIN Metrics) :
        q[1] < li \/ (q[1] = li /\ q[2] < mi)}

Counted(q) == Metrics[q[2]].filter[logs[q[1]]] = TRUE

\* The point a pair belongs to
KeyOf(q) ==
    [resource |-> ToAttributes(ResourceAttributes, logs[q[1]]),
     name     |-> Metrics[q[2]].name,
     time     |-> EndTime(Metrics[q[2]], logs[q[1]]),
     attrs    |-> ToAttributes(Metrics[q[2]].attributes, logs[q[1]])]

\* The pairs a point is to be made of
Contributors(key) == {q \in Processed : Counted(q) /\ KeyOf(q) = key}

KeyAt(rs, r, e, p) ==
    LET point == rs[r].metrics[e].points[p]
    IN  [resource |-> rs[r].attrs, name |-> rs[r].metrics[e].name,
         time |-> point.time, attrs |-> point.attrs]

ValueOf(q) == Metrics[q[2]].value[logs[q[1]]]

SumOf(qs) == SumFunction([q \in qs |-> ValueOf(q)])

-----------------------------------------------------------------------------
(* Types *)

Names == {Metrics[k].name : k \in DOMAIN Metrics}

AttributeSets == SUBSET (Keys \X AttrValues)

\* metricdata.DataPoint and metricdata.HistogramDataPoint
NumberPoint == [start : Int, time : Int, attrs : AttributeSets, value : Int]

HistogramPoint ==
    [start : Int, time : Int, attrs : AttributeSets, count : Nat, sum : Int,
     min : SUBSET Int, max : SUBSET Int, bounds : Seq(Int), buckets : Seq(Nat)]

Entry ==
    [name : Names, type : AggregationTypes \cup {NoData},
     points : Seq(NumberPoint \cup HistogramPoint)]

Resource == [attrs : AttributeSets, metrics : Seq(Entry)]

\* Points are of the kind their entry's type calls for, and a histogram has
\* one bucket more than it has bounds.
PointsOK(rs) ==
    \A r \in DOMAIN rs : \A e \in DOMAIN rs[r].metrics :
        \A p \in DOMAIN rs[r].metrics[e].points :
            LET type  == rs[r].metrics[e].type
                point == rs[r].metrics[e].points[p]
            IN  /\ type # NoData
                /\ type = "Histogram" =>
                      /\ point \in HistogramPoint
                      /\ Len(point.buckets) = Len(point.bounds) + 1
                /\ type # "Histogram" => point \in NumberPoint

\* Every variable has its type, and the current indexes are in range.
TypeOK ==
    /\ logs \in LogInputs
    /\ li \in 1..(Len(logs) + 1)
    /\ mi \in 1..(Len(Metrics) + 1)
    /\ resources \in Seq(Resource)
    /\ pc \in {"line", "metric", "done", "failed"}
    /\ target \in 0..Len(resources)
    /\ pc = "metric" => li <= Len(logs) /\ target # 0
    /\ PointsOK(resources)

-----------------------------------------------------------------------------
(* Safety *)

\* No two points, in one entry, in two entries or in two resources, are for
\* the same resource, metric name, window and attributes: the three searches
\* (aggregation.go:26-36, 53-68 and 166-190) never append what is there.  A
\* backend would drop or double one of two such points.
KeysUnique ==
    \A r1, r2 \in DOMAIN resources :
        /\ resources[r1].attrs = resources[r2].attrs => r1 = r2
        /\ \A e1 \in DOMAIN resources[r1].metrics, e2 \in DOMAIN resources[r2].metrics :
              \A p1 \in DOMAIN resources[r1].metrics[e1].points,
                 p2 \in DOMAIN resources[r2].metrics[e2].points :
                  KeyAt(resources, r1, e1, p1) = KeyAt(resources, r2, e2, p2)
                      => <<r1, e1, p1>> = <<r2, e2, p2>>

HasKey(rs, key) ==
    \E r \in DOMAIN rs : \E e \in DOMAIN rs[r].metrics :
        \E p \in DOMAIN rs[r].metrics[e].points : KeyAt(rs, r, e, p) = key

\* Every line a metric's filter accepted has the point its window and its
\* attributes call for.
NothingLost == \A q \in Processed : Counted(q) => HasKey(resources, KeyOf(q))

\* A Count point counts the lines that belong to it, each once: none is
\* missed, counted twice, or counted in another window, attribute set or
\* resource (aggregation.go:166-190).
CountsExact ==
    \A r \in DOMAIN resources : \A e \in DOMAIN resources[r].metrics :
        resources[r].metrics[e].type = "Count" =>
            \A p \in DOMAIN resources[r].metrics[e].points :
                resources[r].metrics[e].points[p].value
                    = Cardinality(Contributors(KeyAt(resources, r, e, p)))

InBucket(h, j, v) ==
    /\ j > 1 => h.bounds[j - 1] <= v
    /\ j <= Len(h.bounds) => v < h.bounds[j]

HistogramAgrees(h, qs) ==
    LET extrema == {ValueOf(q) : q \in {x \in qs : ~ Metrics[x[2]].noMinMax}}
    IN  /\ h.count = Cardinality(qs)
        /\ h.sum = SumOf(qs)
        /\ h.min = {v \in extrema : \A w \in extrema : v <= w}
        /\ h.max = {v \in extrema : \A w \in extrema : v >= w}
        /\ Len(h.buckets) = Len(h.bounds) + 1
        /\ \A j \in DOMAIN h.buckets :
              h.buckets[j] = Cardinality({q \in qs : InBucket(h, j, ValueOf(q))})

\* A Sum point is the sum of its lines' values, and a histogram point agrees
\* with the lines it is made of: how many, their sum, their extrema (over the
\* lines whose metric records them), and the number of lines in each bucket,
\* whatever the boundaries (aggregation.go:194-331).
ValuesExact ==
    \A r \in DOMAIN resources : \A e \in DOMAIN resources[r].metrics :
        \A p \in DOMAIN resources[r].metrics[e].points :
            LET point == resources[r].metrics[e].points[p]
                qs    == Contributors(KeyAt(resources, r, e, p))
            IN  CASE resources[r].metrics[e].type = "Sum"       -> point.value = SumOf(qs)
                  [] resources[r].metrics[e].type = "Histogram" -> HistogramAgrees(point, qs)
                  [] OTHER                                      -> TRUE

\* The call fails only for a cause that the documentation of the expressions
\* knows: an expression that is needed for some line fails, or two metrics of
\* one name have different types.  An expression of a line that its filter
\* rejects is never a cause (aggregation.go:113-122).
FailsOnlyForCause ==
    pc = "failed" =>
        \E i \in DOMAIN logs :
            \/ AttributesFail(ResourceAttributes, logs[i])
            \/ \E k \in DOMAIN Metrics :
                  \/ Metrics[k].filter[logs[i]] = EvalError
                  \/ /\ Metrics[k].filter[logs[i]] = TRUE
                     /\ \/ AttributesFail(Metrics[k].attributes, logs[i])
                        \/ Metrics[k].type # "Count" /\ Metrics[k].value[logs[i]] = EvalError
                        \/ \E j \in DOMAIN Metrics : /\ Metrics[j].name = Metrics[k].name
                                                     /\ Metrics[j].type # Metrics[k].type

Increases(f) == \A m, n \in DOMAIN f : m < n => f[m] < f[n]

Onto(f, S) == \A x \in S : \E n \in DOMAIN f : f[n] = x

PlacesWithPoints(metrics) == {e \in DOMAIN metrics : metrics[e].points # <<>>}

\* The response's resource is the aggregated one without the entries that
\* have no points: the others are what they were, in the order they had.
SameWithoutEmpty(new, old) ==
    /\ new.attrs = old.attrs
    /\ new.metrics # <<>>
    /\ \E of \in [DOMAIN new.metrics -> PlacesWithPoints(old.metrics)] :
          /\ Increases(of)
          /\ Onto(of, PlacesWithPoints(old.metrics))
          /\ \A e \in DOMAIN new.metrics : new.metrics[e] = old.metrics[of[e]]

\* What is returned is all of it, as it was aggregated, and nothing empty
\* (aggregation.go:75-93).  Every accepted line of every metric has its point
\* in the response; the response has the resources with points, in the order
\* they were made in, and in each the entries with points, in their order,
\* with the very points that were aggregated.
ResponseComplete ==
    pc = "done" =>
        /\ \A q \in (DOMAIN logs) \X (DOMAIN Metrics) :
              Counted(q) => HasKey(resp, KeyOf(q))
        /\ LET full == {r \in DOMAIN resources : PlacesWithPoints(resources[r].metrics) # {}}
           IN  \E from \in [DOMAIN resp -> full] :
                  /\ Increases(from)
                  /\ Onto(from, full)
                  /\ \A n \in DOMAIN resp : SameWithoutEmpty(resp[n], resources[from[n]])

\* Every accepted line is inside the window of its point: the point starts no
\* later than the line and ends after it (aggregation.go:135-138).  Only a
\* name that several metrics of different intervals share is exempt from the
\* start: their windows meet in one point, which has the start of the first.
LinesInWindow ==
    \A r \in DOMAIN resources : \A e \in DOMAIN resources[r].metrics :
        LET name        == resources[r].metrics[e].name
            sharing     == {k \in DOMAIN Metrics : Metrics[k].name = name}
            oneInterval == \A j, k \in sharing : Metrics[j].interval = Metrics[k].interval
        IN  \A p \in DOMAIN resources[r].metrics[e].points :
                LET point == resources[r].metrics[e].points[p]
                IN  \A q \in Contributors(KeyAt(resources, r, e, p)) :
                        /\ oneInterval => point.start <= Timestamp[logs[q[1]]]
                        /\ Timestamp[logs[q[1]]] < point.time

\* A point, once made, keeps its key, its start and its place, whatever lines
\* and metrics follow, others of its name included: every line has to find it
\* again by its end and its attributes (aggregation.go:166-190), and the start
\* it is exported with is not one of them.
PointsKept ==
    [][\A r \in DOMAIN resources : \A e \in DOMAIN resources[r].metrics :
          \A p \in DOMAIN resources[r].metrics[e].points :
              /\ r \in DOMAIN resources'
              /\ e \in DOMAIN resources'[r].metrics
              /\ p \in DOMAIN resources'[r].metrics[e].points
              /\ KeyAt(resources', r, e, p) = KeyAt(resources, r, e, p)
              /\ resources'[r].metrics[e].points[p].start
                     = resources[r].metrics[e].points[p].start]_vars

-----------------------------------------------------------------------------
(* Claims of the documentation *)

\* README.md:431 and the comment at aggregation.go:319-321 give the buckets
\* as (-inf, b1], (b1, b2], ..., (bn, +inf): a bound belongs to the bucket it
\* closes.
BucketsUpperInclusive ==
    \A r \in DOMAIN resources : \A e \in DOMAIN resources[r].metrics :
        resources[r].metrics[e].type = "Histogram" =>
            \A p \in DOMAIN resources[r].metrics[e].points :
                LET h  == resources[r].metrics[e].points[p]
                    qs == Contributors(KeyAt(resources, r, e, p))
                IN  \A j \in DOMAIN h.bounds :
                        h.buckets[j] = Cardinality({q \in qs :
                            /\ j > 1 => h.bounds[j - 1] < ValueOf(q)
                            /\ ValueOf(q) <= h.bounds[j]})
=============================================================================
