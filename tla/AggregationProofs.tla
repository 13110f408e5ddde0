------------------------- MODULE AggregationProofs -------------------------
(***************************************************************************)
(* Theorems about Aggregation, for every configuration and every slice of  *)
(* log lines.                                                              *)
(***************************************************************************)
EXTENDS Aggregation, DataLemmas

-----------------------------------------------------------------------------
(* Attributes, windows and points *)

\* Attributes that do not fail are keys paired with attribute values.
LEMMA AttributesType ==
    ASSUME NEW cfgs \in Seq(AttributeConfig), NEW l \in Lines,
           ~ AttributesFail(cfgs, l)
    PROVE  ToAttributes(cfgs, l) \in AttributeSets
<1>1. ASSUME NEW i \in DOMAIN cfgs, cfgs[i].value[l] # Nil
      PROVE  <<cfgs[i].key, cfgs[i].value[l]>> \in Keys \X AttrValues
  <2>1. cfgs[i] \in AttributeConfig
    BY LenProperties, ElementOfSeq
  <2>2. cfgs[i].value[l] \in AttrValues \cup {Nil, EvalError}
    BY <2>1 DEF AttributeConfig
  <2>3. cfgs[i].value[l] # EvalError
    BY DEF AttributesFail
  <2> QED
    BY <1>1, <2>1, <2>2, <2>3 DEF AttributeConfig
<1> QED
  BY <1>1 DEF ToAttributes, AttributeSets

\* The window of a line is made of integers.
LEMMA WindowType ==
    ASSUME AggregationAssumption, NEW m \in MetricsConfig, NEW l \in Lines
    PROVE  StartTime(m, l) \in Int /\ EndTime(m, l) \in Int
<1>1. Timestamp[l] \in Nat /\ m.interval \in Nat \ {0}
  BY DEF AggregationAssumption, MetricsConfig
<1>2. Timestamp[l] % m.interval \in Int
  BY <1>1
<1> QED
  BY <1>1, <1>2 DEF StartTime, EndTime

\* The bucket of a value is one of the Len(bounds) + 1 buckets.
LEMMA BucketInRange ==
    ASSUME NEW bounds \in Seq(Int), NEW v \in Int
    PROVE  Bucket(bounds, v) \in 1..(Len(bounds) + 1)
<1> DEFINE S == {i \in DOMAIN bounds : v < bounds[i]} \cup {Len(bounds) + 1}
<1>1. DOMAIN bounds = 1..Len(bounds) /\ Len(bounds) \in Nat
  BY LenProperties
<1>2. S \in SUBSET Nat /\ S # {} /\ S \subseteq 1..(Len(bounds) + 1)
  BY <1>1
<1>3. Min(S) \in S
  BY <1>2, MinOfNats
<1> QED
  BY <1>2, <1>3 DEF Bucket

\* What a point of a metric of the given type must look like
PointOfType(type, point) ==
    /\ type = "Histogram" =>
          /\ point \in HistogramPoint
          /\ Len(point.buckets) = Len(point.bounds) + 1
    /\ type # "Histogram" => point \in NumberPoint

SameKey(p1, p2) == p1.time = p2.time /\ p1.attrs = p2.attrs

\* The result of a value expression that is needed and does not fail
ValueNeeded(m, l) == m.type # "Count" => m.value[l] \in Int

\* A line added to a point leaves its kind and its key; a count grows by one.
LEMMA AddToProperties ==
    ASSUME NEW m \in MetricsConfig, NEW l \in Lines, ValueNeeded(m, l),
           NEW point, PointOfType(m.type, point)
    PROVE  /\ PointOfType(m.type, AddTo(point, m, l))
           /\ SameKey(AddTo(point, m, l), point)
           /\ m.type = "Count" => AddTo(point, m, l).value = point.value + 1
<1>1. m.type \in {"Count", "Sum", "Histogram"}
  BY DEF MetricsConfig, AggregationTypes
<1>2. CASE m.type = "Count"
  <2>1. AddTo(point, m, l) = [point EXCEPT !.value = @ + 1]
    BY <1>2 DEF AddTo
  <2> QED
    BY <1>2, <2>1 DEF PointOfType, SameKey, NumberPoint
<1>3. CASE m.type = "Sum"
  <2>1. AddTo(point, m, l) = [point EXCEPT !.value = @ + m.value[l]]
    BY <1>3 DEF AddTo
  <2>2. m.value[l] \in Int
    BY <1>3 DEF ValueNeeded
  <2> QED
    BY <1>3, <2>1, <2>2 DEF PointOfType, SameKey, NumberPoint
<1>4. CASE m.type = "Histogram"
  <2> DEFINE v == m.value[l]
             b == Bucket(point.bounds, v)
             new == AppendValueToHistogramDataPoint(point, m, v)
  <2>1. AddTo(point, m, l) = new
    BY <1>4 DEF AddTo
  <2>2. v \in Int
    BY <1>4 DEF ValueNeeded
  <2>3. point \in HistogramPoint /\ Len(point.buckets) = Len(point.bounds) + 1
    BY <1>4 DEF PointOfType
  <2>4. b \in 1..Len(point.buckets)
    BY <2>2, <2>3, BucketInRange DEF HistogramPoint
  <2>5. point.buckets[b] + 1 \in Nat
    BY <2>3, <2>4, ElementOfSeq DEF HistogramPoint
  <2>6. /\ [point.buckets EXCEPT ![b] = @ + 1] \in Seq(Nat)
        /\ Len([point.buckets EXCEPT ![b] = @ + 1]) = Len(point.buckets)
    BY <2>3, <2>4, <2>5, ExceptSeq DEF HistogramPoint
  <2> DEFINE least    == IF m.noMinMax \/ \E x \in point.min : x <= v
                         THEN point.min ELSE {v}
             greatest == IF m.noMinMax \/ \E x \in point.max : x >= v
                         THEN point.max ELSE {v}
             counts   == [point.buckets EXCEPT ![b] = @ + 1]
  <2>7. new = [point EXCEPT !.count = @ + 1, !.sum = @ + v, !.min = least,
                            !.max = greatest, !.buckets = counts]
    BY Zenon DEF AppendValueToHistogramDataPoint
  <2>8. least \in SUBSET Int /\ greatest \in SUBSET Int
    BY <2>2, <2>3 DEF HistogramPoint
  <2> HIDE DEF least, greatest, counts, new, v, b
  <2>9. counts \in Seq(Nat) /\ Len(counts) = Len(point.buckets)
    BY <2>6 DEF counts
  <2>10. point.count + 1 \in Nat /\ point.sum + v \in Int
    BY <2>2, <2>3 DEF HistogramPoint
  <2>11. /\ new \in HistogramPoint
         /\ Len(new.buckets) = Len(new.bounds) + 1
         /\ SameKey(new, point)
    BY <2>3, <2>7, <2>8, <2>9, <2>10 DEF HistogramPoint, SameKey
  <2> QED
    BY <1>4, <2>1, <2>11 DEF PointOfType
<1> QED
  BY <1>1, <1>2, <1>3, <1>4

\* A new point is of its metric's kind and carries the line's key.
LEMMA EmptyPointProperties ==
    ASSUME AggregationAssumption, NEW m \in MetricsConfig, NEW l \in Lines,
           ~ AttributesFail(m.attributes, l)
    PROVE  /\ PointOfType(m.type, EmptyPoint(m, l))
           /\ EmptyPoint(m, l).time = EndTime(m, l)
           /\ EmptyPoint(m, l).attrs = ToAttributes(m.attributes, l)
           /\ m.type # "Histogram" => EmptyPoint(m, l).value = 0
<1> DEFINE attrs == ToAttributes(m.attributes, l)
           buckets == [i \in 1..(Len(m.boundaries) + 1) |-> 0]
<1>1. StartTime(m, l) \in Int /\ EndTime(m, l) \in Int
  BY WindowType
<1>2. attrs \in AttributeSets
  BY AttributesType DEF MetricsConfig
<1>3. m.boundaries \in Seq(Int) /\ Len(m.boundaries) \in Nat
  BY LenProperties DEF MetricsConfig
<1>4. buckets \in Seq(Nat) /\ Len(buckets) = Len(m.boundaries) + 1
  BY <1>3
<1> HIDE DEF attrs, buckets
<1>5. CASE m.type = "Histogram"
  <2>1. EmptyPoint(m, l) =
          [start |-> StartTime(m, l), time |-> EndTime(m, l), attrs |-> attrs,
           count |-> 0, sum |-> 0, min |-> {}, max |-> {},
           bounds |-> m.boundaries, buckets |-> buckets]
    BY <1>5 DEF EmptyPoint, attrs, buckets
  <2> QED
    BY <1>1, <1>2, <1>3, <1>4, <1>5, <2>1 DEF PointOfType, HistogramPoint, attrs
<1>6. CASE m.type # "Histogram"
  <2>1. EmptyPoint(m, l) =
          [start |-> StartTime(m, l), time |-> EndTime(m, l), attrs |-> attrs,
           value |-> 0]
    BY <1>6 DEF EmptyPoint, attrs
  <2> QED
    BY <1>1, <1>2, <1>6, <2>1 DEF PointOfType, NumberPoint, attrs
<1> QED
  BY <1>5, <1>6

\* Every point of the kind its type calls for is a point.
LEMMA PointOfTypeIsPoint ==
    ASSUME NEW type, NEW point, PointOfType(type, point)
    PROVE  point \in NumberPoint \cup HistogramPoint
  BY DEF PointOfType

\* Update touches one point, the one with the line's key: it adds the line to
\* it, or appends it when no point had the key.
LEMMA UpdateProperties ==
    ASSUME AggregationAssumption, NEW m \in MetricsConfig, NEW l \in Lines,
           ~ AttributesFail(m.attributes, l), ValueNeeded(m, l),
           NEW points \in Seq(NumberPoint \cup HistogramPoint),
           \A p \in DOMAIN points : PointOfType(m.type, points[p])
    PROVE  LET new == Update(points, m, l)
           IN  /\ new \in Seq(NumberPoint \cup HistogramPoint)
               /\ \A p \in DOMAIN new : PointOfType(m.type, new[p])
               /\ \A p \in DOMAIN points : p \in DOMAIN new /\ SameKey(new[p], points[p])
               /\ \E i \in DOMAIN new :
                     /\ new[i].time = EndTime(m, l)
                     /\ new[i].attrs = ToAttributes(m.attributes, l)
                     /\ \A p \in (DOMAIN new) \ {i} :
                            p \in DOMAIN points /\ new[p] = points[p]
                     /\ \/ /\ i \in Matching(points, m, l)
                           /\ new[i] = AddTo(points[i], m, l)
                        \/ /\ Matching(points, m, l) = {}
                           /\ new[i] = AddTo(EmptyPoint(m, l), m, l)
<1> DEFINE new == Update(points, m, l)
           Points == NumberPoint \cup HistogramPoint
           M == Matching(points, m, l)
<1>1. DOMAIN points = 1..Len(points) /\ Len(points) \in Nat
  BY LenProperties
<1>2. CASE M = {}
  <2> DEFINE point == AddTo(EmptyPoint(m, l), m, l)
             i == Len(points) + 1
  <2>1. /\ PointOfType(m.type, EmptyPoint(m, l))
        /\ EmptyPoint(m, l).time = EndTime(m, l)
        /\ EmptyPoint(m, l).attrs = ToAttributes(m.attributes, l)
    BY EmptyPointProperties
  <2>2. /\ PointOfType(m.type, point)
        /\ SameKey(point, EmptyPoint(m, l))
    BY <2>1, AddToProperties
  <2>3. /\ point.time = EndTime(m, l)
        /\ point.attrs = ToAttributes(m.attributes, l)
    BY <2>1, <2>2 DEF SameKey
  <2>4. point \in Points
    BY <2>2, PointOfTypeIsPoint
  <2>5. new = Append(points, point)
    BY <1>2 DEF Update
  <2> HIDE DEF new, point, M, Points
  <2>6. /\ new \in Seq(Points)
        /\ Len(new) = Len(points) + 1
        /\ \A p \in 1..Len(points) : new[p] = points[p]
        /\ new[i] = point
    BY <2>4, <2>5, AppendProperties DEF Points
  <2>7. DOMAIN new = 1..(Len(points) + 1)
    BY <2>6, LenProperties
  <2>8. \A p \in DOMAIN new : PointOfType(m.type, new[p])
    BY <1>1, <2>2, <2>6, <2>7
  <2>9. \A p \in DOMAIN points : p \in DOMAIN new /\ SameKey(new[p], points[p])
    BY <1>1, <2>6, <2>7 DEF SameKey
  <2>10. i \in DOMAIN new /\ \A p \in (DOMAIN new) \ {i} :
                                p \in DOMAIN points /\ new[p] = points[p]
    BY <1>1, <2>6, <2>7
  <2>11. /\ new[i].time = EndTime(m, l)
         /\ new[i].attrs = ToAttributes(m.attributes, l)
         /\ new[i] = AddTo(EmptyPoint(m, l), m, l)
    BY <2>3, <2>6 DEF point
  <2> HIDE DEF i
  <2> QED
    BY <1>2, <2>6, <2>8, <2>9, <2>10, <2>11 DEF new, M, Points
<1>3. CASE M # {}
  <2> DEFINE i == Min(M)
             point == AddTo(points[i], m, l)
  <2>1. M \in SUBSET Nat
    BY <1>1 DEF Matching
  <2>2. i \in M
    BY <1>3, <2>1, MinOfNats
  <2>3. /\ i \in DOMAIN points
        /\ points[i].time = EndTime(m, l)
        /\ points[i].attrs = ToAttributes(m.attributes, l)
    BY <2>2 DEF Matching
  <2>4. /\ PointOfType(m.type, point)
        /\ SameKey(point, points[i])
    BY <2>3, AddToProperties
  <2>5. point \in Points
    BY <2>4, PointOfTypeIsPoint
  <2>6. new = [points EXCEPT ![i] = point]
    BY <1>3 DEF Update
  <2> HIDE DEF new, point, M, Points, i
  <2>7. /\ new \in Seq(Points)
        /\ Len(new) = Len(points)
        /\ \A p \in 1..Len(points) : new[p] = IF p = i THEN point ELSE points[p]
    BY <1>1, <2>3, <2>5, <2>6, ExceptSeq DEF Points
  <2>8. DOMAIN new = DOMAIN points
    BY <2>6
  <2>9. \A p \in DOMAIN new : PointOfType(m.type, new[p])
    BY <1>1, <2>4, <2>7, <2>8
  <2>10. \A p \in DOMAIN points : p \in DOMAIN new /\ SameKey(new[p], points[p])
    BY <1>1, <2>4, <2>7, <2>8 DEF SameKey
  <2>11. /\ new[i].time = EndTime(m, l)
         /\ new[i].attrs = ToAttributes(m.attributes, l)
         /\ new[i] = AddTo(points[i], m, l)
    BY <1>1, <2>3, <2>4, <2>7 DEF SameKey, point
  <2>12. \A p \in (DOMAIN new) \ {i} : p \in DOMAIN points /\ new[p] = points[p]
    BY <1>1, <2>7, <2>8
  <2> QED
    BY <2>2, <2>3, <2>7, <2>8, <2>9, <2>10, <2>11, <2>12 DEF new, M, Points
<1> QED
  BY <1>2, <1>3

-----------------------------------------------------------------------------
(* Metric entries *)

\* A well-formed entry: its points are of its type, and of different keys.
EntryOK(entry) ==
    /\ \A p \in DOMAIN entry.points :
          entry.type # NoData /\ PointOfType(entry.type, entry.points[p])
    /\ \A p1, p2 \in DOMAIN entry.points :
          SameKey(entry.points[p1], entry.points[p2]) => p1 = p2

\* Well-formed entries of different names
MetricsOK(metrics) ==
    /\ metrics \in Seq(Entry)
    /\ \A e \in DOMAIN metrics : EntryOK(metrics[e])
    /\ \A e1, e2 \in DOMAIN metrics :
          metrics[e1].name = metrics[e2].name => e1 = e2

\* The search by name ends at the only entry of the name; an entry it had to
\* append is empty.
LEMMA WithEntryProperties ==
    ASSUME NEW metrics, MetricsOK(metrics),
           NEW m \in MetricsConfig, m.name \in Names
    PROVE  LET entries == WithEntry(metrics, m)
               e       == EntryIndex(metrics, m)
           IN  /\ MetricsOK(entries)
               /\ e \in DOMAIN entries /\ entries[e].name = m.name
               /\ \A i \in DOMAIN metrics : i \in DOMAIN entries /\ entries[i] = metrics[i]
               /\ \A i \in DOMAIN entries : i \notin DOMAIN metrics =>
                     i = e /\ entries[i].points = <<>>
<1> DEFINE entries == WithEntry(metrics, m)
           e == EntryIndex(metrics, m)
<1>1. /\ metrics \in Seq(Entry)
      /\ DOMAIN metrics = 1..Len(metrics)
      /\ Len(metrics) \in Nat
  BY LenProperties DEF MetricsOK
<1>2. CASE EntriesOf(metrics, m) = {}
  <2> DEFINE n == Len(metrics) + 1
  <2>1. entries = Append(metrics, NewEntry(m))
    BY <1>2 DEF WithEntry
  <2>2. NewEntry(m) \in Entry
    BY DEF NewEntry, Entry
  <2>3. /\ entries \in Seq(Entry)
        /\ Len(entries) = n
        /\ \A i \in 1..Len(metrics) : entries[i] = metrics[i]
        /\ entries[n] = NewEntry(m)
    BY <1>1, <2>1, <2>2, AppendProperties
  <2>4. DOMAIN entries = 1..n
    BY <2>3, LenProperties
  <2>5. /\ entries[n].name = m.name
        /\ entries[n].points = <<>>
        /\ EntryOK(entries[n])
    BY <2>3 DEF NewEntry, EntryOK
  <2>6. \A i \in DOMAIN metrics : metrics[i].name # m.name
    BY <1>2 DEF EntriesOf
  <2> HIDE DEF entries
  <2>7. EntriesOf(entries, m) = {n}
    BY <1>1, <2>3, <2>4, <2>5, <2>6 DEF EntriesOf
  <2>8. Min({n}) = n
    BY <1>1, MinOfNats
  <2>9. e = n
    BY <2>7, <2>8 DEF EntryIndex, entries
  <2>10. \A i \in DOMAIN entries : EntryOK(entries[i])
    BY <1>1, <2>3, <2>4, <2>5 DEF MetricsOK
  <2>11. ASSUME NEW e1 \in DOMAIN entries, NEW e2 \in DOMAIN entries,
                entries[e1].name = entries[e2].name
         PROVE  e1 = e2
    BY <1>1, <2>3, <2>4, <2>5, <2>6, <2>11 DEF MetricsOK
  <2>12. MetricsOK(entries)
    BY <2>3, <2>10, <2>11 DEF MetricsOK
  <2> QED
    BY <1>1, <2>3, <2>4, <2>5, <2>9, <2>12 DEF entries
<1>3. CASE EntriesOf(metrics, m) # {}
  <2>1. entries = metrics
    BY <1>3 DEF WithEntry
  <2>2. e = Min(EntriesOf(metrics, m))
    BY <2>1 DEF EntryIndex
  <2>3. EntriesOf(metrics, m) \in SUBSET Nat
    BY <1>1 DEF EntriesOf
  <2>4. e \in EntriesOf(metrics, m)
    BY <1>3, <2>2, <2>3, MinOfNats
  <2> QED
    BY <2>1, <2>4 DEF EntriesOf
<1> QED
  BY <1>2, <1>3

\* One iteration of the loop over the metrics, on the entries of a resource:
\* entries and points keep their places and their keys, and at most the point
\* with the line's key changes.
LEMMA IterationProperties ==
    ASSUME AggregationAssumption, NEW metrics, MetricsOK(metrics),
           NEW m \in MetricsConfig, m.name \in Names, NEW l \in Lines,
           ~ Fails(m, WithEntry(metrics, m)[EntryIndex(metrics, m)], l)
    PROVE  LET e   == EntryIndex(metrics, m)
               new == [WithEntry(metrics, m) EXCEPT ![e] = aggregateMetric(m, @, l)]
           IN  /\ MetricsOK(new)
               /\ \A i \in DOMAIN metrics :
                     /\ i \in DOMAIN new
                     /\ new[i].name = metrics[i].name
                     /\ \A p \in DOMAIN metrics[i].points :
                           /\ p \in DOMAIN new[i].points
                           /\ SameKey(new[i].points[p], metrics[i].points[p])
                           /\ new[i].type = metrics[i].type
               /\ m.filter[l] # TRUE =>
                     \A i \in DOMAIN new : \A p \in DOMAIN new[i].points :
                         i \in DOMAIN metrics /\ new[i] = metrics[i]
               /\ m.filter[l] = TRUE =>
                     /\ e \in DOMAIN new
                     /\ new[e].name = m.name
                     /\ new[e].type = m.type
                     /\ \E k \in DOMAIN new[e].points :
                          /\ new[e].points[k].time = EndTime(m, l)
                          /\ new[e].points[k].attrs = ToAttributes(m.attributes, l)
                          /\ \A i \in DOMAIN new : \A p \in DOMAIN new[i].points :
                                <<i, p>> # <<e, k>> =>
                                   /\ i \in DOMAIN metrics
                                   /\ p \in DOMAIN metrics[i].points
                                   /\ new[i].points[p] = metrics[i].points[p]
                          /\ \/ /\ e \in DOMAIN metrics
                                /\ k \in DOMAIN metrics[e].points
                                /\ new[e].points[k] = AddTo(metrics[e].points[k], m, l)
                             \/ /\ \A p \in DOMAIN metrics[e].points : e \in DOMAIN metrics =>
                                      ~ SameKey(new[e].points[k], metrics[e].points[p])
                                /\ new[e].points[k] = AddTo(EmptyPoint(m, l), m, l)
<1> DEFINE entries == WithEntry(metrics, m)
           e == EntryIndex(metrics, m)
           entry == entries[e]
           result == aggregateMetric(m, entry, l)
           new == [entries EXCEPT ![e] = aggregateMetric(m, @, l)]
<1>1. /\ MetricsOK(entries)
      /\ e \in DOMAIN entries /\ entry.name = m.name
      /\ \A i \in DOMAIN metrics : i \in DOMAIN entries /\ entries[i] = metrics[i]
      /\ \A i \in DOMAIN entries : i \notin DOMAIN metrics =>
            i = e /\ entries[i].points = <<>>
  BY WithEntryProperties
<1>2. entries \in Seq(Entry) /\ DOMAIN entries = 1..Len(entries) /\ Len(entries) \in Nat
  BY <1>1, LenProperties DEF MetricsOK
<1>3. entry \in Entry /\ EntryOK(entry)
  BY <1>1, <1>2, ElementOfSeq DEF MetricsOK
<1>4. ~ Fails(m, entry, l)
  OBVIOUS
<1>5. CASE m.filter[l] # TRUE
  <2>1. result = entry
    BY <1>5 DEF aggregateMetric
  <2>2. new = entries
    BY <1>1, <1>2, <2>1
  <2> HIDE DEF new, entries, e, result, entry
  <2>3. \A i \in DOMAIN new : \A p \in DOMAIN new[i].points :
            i \in DOMAIN metrics /\ new[i] = metrics[i]
    BY <1>1, <2>2
  <2>4. \A i \in DOMAIN metrics : i \in DOMAIN new /\ new[i] = metrics[i]
    BY <1>1, <2>2
  <2> QED
    BY <1>1, <1>5, <2>2, <2>3, <2>4 DEF SameKey, new, entries, e, entry
<1>6. CASE m.filter[l] = TRUE
  <2> DEFINE points == Update(entry.points, m, l)
  <2>1. /\ entry.type \in {NoData, m.type}
        /\ ~ AttributesFail(m.attributes, l)
        /\ m.type \in {"Sum", "Histogram"} => m.value[l] # EvalError
    BY <1>4, <1>6 DEF Fails
  <2>2. /\ m.type \in {"Count", "Sum", "Histogram"}
        /\ m.value[l] \in Int \cup {EvalError}
    BY DEF MetricsConfig, AggregationTypes
  <2>3. ValueNeeded(m, l)
    BY <2>1, <2>2 DEF ValueNeeded
  <2>4. entry.points \in Seq(NumberPoint \cup HistogramPoint)
    BY <1>3 DEF Entry
  <2>5. \A p \in DOMAIN entry.points :
            entry.type = m.type /\ PointOfType(m.type, entry.points[p])
    BY <1>3, <2>1 DEF EntryOK
  <2>6. /\ points \in Seq(NumberPoint \cup HistogramPoint)
        /\ \A p \in DOMAIN points : PointOfType(m.type, points[p])
        /\ \A p \in DOMAIN entry.points :
              p \in DOMAIN points /\ SameKey(points[p], entry.points[p])
        /\ \E k \in DOMAIN points :
              /\ points[k].time = EndTime(m, l)
              /\ points[k].attrs = ToAttributes(m.attributes, l)
              /\ \A p \in (DOMAIN points) \ {k} :
                     p \in DOMAIN entry.points /\ points[p] = entry.points[p]
              /\ \/ /\ k \in Matching(entry.points, m, l)
                    /\ points[k] = AddTo(entry.points[k], m, l)
                 \/ /\ Matching(entry.points, m, l) = {}
                    /\ points[k] = AddTo(EmptyPoint(m, l), m, l)
    <3> HIDE DEF entries, e, entry, result, new
    <3> QED BY <2>1, <2>3, <2>4, <2>5, UpdateProperties, ZenonT(40)
  <2>7. result = [entry EXCEPT !.type = m.type, !.points = points]
    BY <1>6 DEF aggregateMetric
  <2>8. new = [entries EXCEPT ![e] = result]
    OBVIOUS
  <2> HIDE DEF points, new, entries, e, entry, result
  <2>9. /\ result \in Entry
        /\ result.name = m.name
        /\ result.type = m.type
        /\ result.points = points
    BY <1>1, <1>3, <2>2, <2>6, <2>7 DEF Entry, AggregationTypes
  <2>10. /\ new \in Seq(Entry)
         /\ DOMAIN new = DOMAIN entries
         /\ \A i \in DOMAIN entries : new[i] = IF i = e THEN result ELSE entries[i]
    BY <1>1, <1>2, <2>8, <2>9, ExceptSeq, LenProperties
  <2>11. m.type # NoData
    BY <2>2 DEF NoData
  <2>16. PICK k \in DOMAIN points :
            /\ points[k].time = EndTime(m, l)
            /\ points[k].attrs = ToAttributes(m.attributes, l)
            /\ \A p \in (DOMAIN points) \ {k} :
                   p \in DOMAIN entry.points /\ points[p] = entry.points[p]
            /\ \/ /\ k \in Matching(entry.points, m, l)
                  /\ points[k] = AddTo(entry.points[k], m, l)
               \/ /\ Matching(entry.points, m, l) = {}
                  /\ points[k] = AddTo(EmptyPoint(m, l), m, l)
    BY <2>6
  <2>21. ASSUME NEW p \in DOMAIN points, SameKey(points[p], points[k])
         PROVE  p = k
    <3> SUFFICES ASSUME p # k PROVE FALSE
      OBVIOUS
    <3>1. p \in DOMAIN entry.points /\ points[p] = entry.points[p]
      BY <2>16
    <3>2. p \in Matching(entry.points, m, l)
      BY <2>16, <2>21, <3>1 DEF Matching, SameKey
    <3>3. k \in Matching(entry.points, m, l)
      BY <2>16, <3>2
    <3>4. SameKey(entry.points[p], entry.points[k])
      BY <3>2, <3>3 DEF Matching, SameKey
    <3> QED
      BY <1>3, <3>2, <3>3, <3>4 DEF EntryOK, Matching
  <2>12. ASSUME NEW p1 \in DOMAIN points, NEW p2 \in DOMAIN points,
                SameKey(points[p1], points[p2])
         PROVE  p1 = p2
    <3>1. CASE p1 = k \/ p2 = k
      BY <2>12, <2>21, <3>1 DEF SameKey
    <3>2. CASE p1 # k /\ p2 # k
      BY <1>3, <2>12, <2>16, <3>2 DEF EntryOK
    <3> QED
      BY <3>1, <3>2
  <2>13. EntryOK(result)
    BY <2>6, <2>9, <2>11, <2>12 DEF EntryOK
  <2>14. MetricsOK(new)
    <3>1. entries[e].name = m.name
      BY <1>1 DEF entry
    <3>2. \A i \in DOMAIN new : EntryOK(new[i]) /\ new[i].name = entries[i].name
      BY <1>1, <2>9, <2>10, <2>13, <3>1 DEF MetricsOK
    <3> QED
      BY <1>1, <2>10, <3>2 DEF MetricsOK
  <2>15. ASSUME NEW i \in DOMAIN metrics
         PROVE  /\ i \in DOMAIN new
                /\ new[i].name = metrics[i].name
                /\ \A p \in DOMAIN metrics[i].points :
                      /\ p \in DOMAIN new[i].points
                      /\ SameKey(new[i].points[p], metrics[i].points[p])
                      /\ new[i].type = metrics[i].type
    <3>1. i \in DOMAIN new
      BY <1>1, <2>10
    <3>2. CASE i # e
      BY <1>1, <2>10, <3>1, <3>2 DEF SameKey
    <3>3. CASE i = e
      <4>1. new[i] = result /\ metrics[i] = entry
        BY <1>1, <2>10, <3>3 DEF entry
      <4> QED
        BY <1>1, <2>5, <2>6, <2>9, <3>1, <4>1
    <3> QED
      BY <3>2, <3>3
  <2>17. e \in DOMAIN new /\ new[e] = result
    BY <1>1, <2>10
  <2>18. ASSUME NEW i \in DOMAIN new, NEW p \in DOMAIN new[i].points,
                <<i, p>> # <<e, k>>
         PROVE  /\ i \in DOMAIN metrics
                /\ p \in DOMAIN metrics[i].points
                /\ new[i].points[p] = metrics[i].points[p]
    <3>1. CASE i # e
      BY <1>1, <2>10, <3>1
    <3>2. CASE i = e
      <4>1. p \in DOMAIN points /\ p # k
        BY <2>9, <2>17, <2>18, <3>2
      <4>2. p \in DOMAIN entry.points /\ points[p] = entry.points[p]
        BY <2>16, <4>1
      <4>3. e \in DOMAIN metrics
        BY <1>1, <4>2 DEF entry
      <4> QED
        BY <1>1, <2>9, <2>17, <3>2, <4>2, <4>3 DEF entry
    <3> QED
      BY <3>1, <3>2
  <2>19. \/ /\ e \in DOMAIN metrics
            /\ k \in DOMAIN metrics[e].points
            /\ new[e].points[k] = AddTo(metrics[e].points[k], m, l)
         \/ /\ \A p \in DOMAIN metrics[e].points : e \in DOMAIN metrics =>
                  ~ SameKey(new[e].points[k], metrics[e].points[p])
            /\ new[e].points[k] = AddTo(EmptyPoint(m, l), m, l)
    <3>1. CASE /\ k \in Matching(entry.points, m, l)
               /\ points[k] = AddTo(entry.points[k], m, l)
      <4>1. k \in DOMAIN entry.points
        BY <3>1 DEF Matching
      <4>2. e \in DOMAIN metrics
        BY <1>1, <4>1 DEF entry
      <4> QED
        BY <1>1, <2>9, <2>17, <3>1, <4>1, <4>2 DEF entry
    <3>2. CASE /\ Matching(entry.points, m, l) = {}
               /\ points[k] = AddTo(EmptyPoint(m, l), m, l)
      <4>1. ASSUME e \in DOMAIN metrics, NEW p \in DOMAIN metrics[e].points
            PROVE  ~ SameKey(new[e].points[k], metrics[e].points[p])
        BY <1>1, <2>9, <2>16, <2>17, <3>2, <4>1 DEF Matching, SameKey, entry
      <4> QED
        BY <2>9, <2>17, <3>2, <4>1
    <3> QED
      BY <2>16, <3>1, <3>2
  <2>20. /\ new[e].name = m.name
         /\ new[e].type = m.type
         /\ k \in DOMAIN new[e].points
         /\ new[e].points[k].time = EndTime(m, l)
         /\ new[e].points[k].attrs = ToAttributes(m.attributes, l)
    BY <2>9, <2>16, <2>17
  <2> QED
    BY <1>6, <2>14, <2>15, <2>17, <2>18, <2>19, <2>20 DEF new, entries, e
<1> QED
  BY <1>5, <1>6

-----------------------------------------------------------------------------
(* Well-formedness: types, and slices without duplicates *)

ResourcesOK(rs) ==
    /\ rs \in Seq(Resource)
    /\ \A r \in DOMAIN rs : MetricsOK(rs[r].metrics)
    /\ \A r1, r2 \in DOMAIN rs : rs[r1].attrs = rs[r2].attrs => r1 = r2

\* The target is the resource of the current line.
TargetOK ==
    pc = "metric" =>
        /\ target \in DOMAIN resources
        /\ resources[target].attrs = ToAttributes(ResourceAttributes, logs[li])

WellFormed == TypeOK /\ ResourcesOK(resources) /\ TargetOK

\* Well-formed resources have points of the kinds PointsOK asks for.
LEMMA ResourcesOKPoints ==
    ASSUME NEW rs, ResourcesOK(rs)
    PROVE  PointsOK(rs)
<1> SUFFICES ASSUME NEW r \in DOMAIN rs, NEW e \in DOMAIN rs[r].metrics,
                    NEW p \in DOMAIN rs[r].metrics[e].points
             PROVE  /\ rs[r].metrics[e].type # NoData
                    /\ PointOfType(rs[r].metrics[e].type, rs[r].metrics[e].points[p])
  BY DEF PointsOK, PointOfType
<1> QED
  BY DEF ResourcesOK, MetricsOK, EntryOK

\* Slices without duplicates hold no two points of one key.
LEMMA SameKeySamePlace ==
    ASSUME NEW rs, ResourcesOK(rs),
           NEW r1 \in DOMAIN rs, NEW r2 \in DOMAIN rs,
           NEW e1 \in DOMAIN rs[r1].metrics, NEW e2 \in DOMAIN rs[r2].metrics,
           NEW p1 \in DOMAIN rs[r1].metrics[e1].points,
           NEW p2 \in DOMAIN rs[r2].metrics[e2].points,
           KeyAt(rs, r1, e1, p1) = KeyAt(rs, r2, e2, p2)
    PROVE  <<r1, e1, p1>> = <<r2, e2, p2>>
<1>1. /\ rs[r1].attrs = rs[r2].attrs
      /\ rs[r1].metrics[e1].name = rs[r2].metrics[e2].name
      /\ SameKey(rs[r1].metrics[e1].points[p1], rs[r2].metrics[e2].points[p2])
  BY DEF KeyAt, SameKey
<1>2. r1 = r2
  BY <1>1 DEF ResourcesOK
<1>3. e1 = e2
  BY <1>1, <1>2 DEF ResourcesOK, MetricsOK
<1>4. p1 = p2
  BY <1>1, <1>2, <1>3 DEF ResourcesOK, MetricsOK, EntryOK
<1> QED
  BY <1>2, <1>3, <1>4

\* What a well-formed state says of the slices: their indexes, and the types
\* of the lines and metrics in them.
LEMMA StepContext ==
    ASSUME AggregationAssumption, WellFormed
    PROVE  /\ logs \in Seq(Lines)
           /\ DOMAIN logs = 1..Len(logs) /\ Len(logs) \in Nat
           /\ DOMAIN Metrics = 1..Len(Metrics) /\ Len(Metrics) \in Nat
           /\ DOMAIN resources = 1..Len(resources) /\ Len(resources) \in Nat
           /\ \A k \in DOMAIN Metrics : Metrics[k] \in MetricsConfig
           /\ \A k \in DOMAIN Metrics : Metrics[k].name \in Names
           /\ \A i \in DOMAIN logs : logs[i] \in Lines
<1>1. logs \in Seq(Lines) /\ Metrics \in Seq(MetricsConfig) /\ resources \in Seq(Resource)
  BY DEF AggregationAssumption, WellFormed, TypeOK
<1>2. /\ DOMAIN logs = 1..Len(logs) /\ Len(logs) \in Nat
      /\ DOMAIN Metrics = 1..Len(Metrics) /\ Len(Metrics) \in Nat
      /\ DOMAIN resources = 1..Len(resources) /\ Len(resources) \in Nat
  BY <1>1, LenProperties
<1>3. /\ \A k \in DOMAIN Metrics : Metrics[k] \in MetricsConfig
      /\ \A i \in DOMAIN logs : logs[i] \in Lines
  BY <1>1, <1>2, ElementOfSeq
<1>4. \A k \in DOMAIN Metrics : Metrics[k].name \in Names
  BY DEF Names
<1> QED
  BY <1>1, <1>2, <1>3, <1>4

\* Aggregate starts well formed: it has no resources.
LEMMA InitWellFormed ==
    ASSUME AggregationAssumption, Init
    PROVE  WellFormed
<1>1. logs \in Seq(Lines)
  BY DEF Init, AggregationAssumption
<1>2. Len(logs) \in Nat /\ Len(Metrics) \in Nat
  BY <1>1, LenProperties DEF AggregationAssumption
<1>3. resources = <<>> /\ pc = "line" /\ li = 1 /\ mi = 1 /\ target = 0
  BY DEF Init
<1>4. resources \in Seq(Resource) /\ Len(resources) = 0 /\ DOMAIN resources = {}
  BY <1>3
<1>5. ResourcesOK(resources)
  BY <1>4 DEF ResourcesOK
<1>6. TypeOK
  BY <1>2, <1>3, <1>4, <1>5, ResourcesOKPoints DEF TypeOK, Init
<1> QED
  BY <1>3, <1>5, <1>6 DEF WellFormed, TargetOK

\* StartLine leaves the slice alone or appends an empty resource of a new
\* attribute set.
LEMMA StartLineEffect ==
    ASSUME AggregationAssumption, WellFormed, StartLine
    PROVE  /\ ResourcesOK(resources')
           /\ target' \in DOMAIN resources'
           /\ resources'[target'].attrs = ToAttributes(ResourceAttributes, logs[li])
           /\ \A r \in DOMAIN resources : r \in DOMAIN resources' /\ resources'[r] = resources[r]
           /\ \A r \in DOMAIN resources' : r \notin DOMAIN resources =>
                 resources'[r].metrics = <<>>
<1> DEFINE attrs == ToAttributes(ResourceAttributes, logs[li])
           found == ResourcesOf(resources, attrs)
<1>1. /\ DOMAIN resources = 1..Len(resources) /\ Len(resources) \in Nat
      /\ DOMAIN logs = 1..Len(logs) /\ Len(logs) \in Nat
      /\ \A i \in DOMAIN logs : logs[i] \in Lines
  BY StepContext
<1>2. logs[li] \in Lines
  BY <1>1 DEF StartLine, WellFormed, TypeOK
<1>3. attrs \in AttributeSets
  BY <1>2, AttributesType DEF StartLine, AggregationAssumption
<1>4. CASE found = {}
  <2> DEFINE new == [attrs |-> attrs, metrics |-> <<>>]
             n == Len(resources) + 1
  <2>1. resources' = Append(resources, new) /\ target' = n
    BY <1>4 DEF StartLine
  <2>2. new \in Resource /\ new.attrs = attrs /\ new.metrics = <<>>
    BY <1>3 DEF Resource
  <2> HIDE DEF new
  <2>3. /\ resources' \in Seq(Resource)
        /\ Len(resources') = n
        /\ \A r \in 1..Len(resources) : resources'[r] = resources[r]
        /\ resources'[n] = new
    BY <2>1, <2>2, AppendProperties DEF WellFormed, ResourcesOK
  <2>4. DOMAIN resources' = 1..n
    BY <2>3, LenProperties
  <2>5. MetricsOK(<<>>)
    BY DEF MetricsOK
  <2>6. \A r \in DOMAIN resources' : MetricsOK(resources'[r].metrics)
    BY <1>1, <2>2, <2>3, <2>4, <2>5 DEF WellFormed, ResourcesOK
  <2>7. \A r \in DOMAIN resources : resources[r].attrs # attrs
    BY <1>4 DEF ResourcesOf
  <2>8. ASSUME NEW r1 \in DOMAIN resources', NEW r2 \in DOMAIN resources',
               resources'[r1].attrs = resources'[r2].attrs
        PROVE  r1 = r2
    <3>1. \A r \in DOMAIN resources' :
             \/ r = n /\ resources'[r].attrs = attrs
             \/ r \in DOMAIN resources /\ resources'[r] = resources[r]
      BY <1>1, <2>2, <2>3, <2>4
    <3>2. \A i, j \in DOMAIN resources : resources[i].attrs = resources[j].attrs => i = j
      BY DEF WellFormed, ResourcesOK
    <3> HIDE DEF attrs, n
    <3> QED
      BY <2>7, <2>8, <3>1, <3>2
  <2> QED
    BY <1>1, <2>1, <2>2, <2>3, <2>4, <2>6, <2>8 DEF ResourcesOK
<1>5. CASE found # {}
  <2>1. resources' = resources /\ target' = Max(found)
    BY <1>5 DEF StartLine
  <2>2. found \in SUBSET (1..Len(resources))
    BY <1>1 DEF ResourcesOf
  <2>3. target' \in found
    BY <1>1, <1>5, <2>1, <2>2, MaxOfIndexes
  <2> QED
    BY <2>1, <2>3 DEF WellFormed, ResourcesOf
<1> QED
  BY <1>4, <1>5

\* The key of the iteration's pair, and whether its line is accepted
CurrentPair == <<li, mi>>

\* AggregateMetric keeps the places and the keys of all points.  For a line
\* the filter rejects no point changes; for one it accepts, one point, of the
\* line's key, is made or grows.
LEMMA AggregateMetricEffect ==
    ASSUME AggregationAssumption, WellFormed, AggregateMetric
    PROVE  /\ ResourcesOK(resources')
           /\ DOMAIN resources' = DOMAIN resources
           /\ resources'[target].attrs = resources[target].attrs
           /\ \A r \in DOMAIN resources : \A e \in DOMAIN resources[r].metrics :
                 \A p \in DOMAIN resources[r].metrics[e].points :
                    /\ e \in DOMAIN resources'[r].metrics
                    /\ p \in DOMAIN resources'[r].metrics[e].points
                    /\ KeyAt(resources', r, e, p) = KeyAt(resources, r, e, p)
           /\ ~ Counted(CurrentPair) =>
                 \A r \in DOMAIN resources' : \A e \in DOMAIN resources'[r].metrics :
                    \A p \in DOMAIN resources'[r].metrics[e].points :
                       /\ e \in DOMAIN resources[r].metrics
                       /\ resources'[r].metrics[e] = resources[r].metrics[e]
                       /\ KeyAt(resources', r, e, p) = KeyAt(resources, r, e, p)
           /\ Counted(CurrentPair) =>
                 \E r0 \in DOMAIN resources' : \E e0 \in DOMAIN resources'[r0].metrics :
                    \E p0 \in DOMAIN resources'[r0].metrics[e0].points :
                       LET type  == resources'[r0].metrics[e0].type
                           point == resources'[r0].metrics[e0].points[p0]
                       IN  /\ KeyAt(resources', r0, e0, p0) = KeyOf(CurrentPair)
                           /\ type = Metrics[mi].type
                           /\ \A r \in DOMAIN resources' :
                                 \A e \in DOMAIN resources'[r].metrics :
                                    \A p \in DOMAIN resources'[r].metrics[e].points :
                                       <<r, e, p>> # <<r0, e0, p0>> =>
                                          /\ e \in DOMAIN resources[r].metrics
                                          /\ p \in DOMAIN resources[r].metrics[e].points
                                          /\ resources'[r].metrics[e].type
                                                = resources[r].metrics[e].type
                                          /\ resources'[r].metrics[e].points[p]
                                                = resources[r].metrics[e].points[p]
                                          /\ KeyAt(resources', r, e, p)
                                                = KeyAt(resources, r, e, p)
                           /\ \/ /\ e0 \in DOMAIN resources[r0].metrics
                                 /\ p0 \in DOMAIN resources[r0].metrics[e0].points
                                 /\ resources[r0].metrics[e0].type = type
                                 /\ point = AddTo(resources[r0].metrics[e0].points[p0], Metrics[mi], logs[li])
                              \/ /\ ~ HasKey(resources, KeyOf(CurrentPair))
                                 /\ point = AddTo(EmptyPoint(Metrics[mi], logs[li]), Metrics[mi], logs[li])
<1> DEFINE m       == Metrics[mi]
           l       == logs[li]
           metrics == resources[target].metrics
           e1      == EntryIndex(metrics, m)
           new     == [WithEntry(metrics, m) EXCEPT ![e1] = aggregateMetric(m, @, l)]
<1>1. /\ DOMAIN resources = 1..Len(resources) /\ Len(resources) \in Nat
      /\ DOMAIN logs = 1..Len(logs) /\ Len(logs) \in Nat
      /\ DOMAIN Metrics = 1..Len(Metrics) /\ Len(Metrics) \in Nat
      /\ \A k \in DOMAIN Metrics : Metrics[k] \in MetricsConfig
      /\ \A k \in DOMAIN Metrics : Metrics[k].name \in Names
      /\ \A i \in DOMAIN logs : logs[i] \in Lines
  BY StepContext
<1>2. mi \in DOMAIN Metrics /\ li \in DOMAIN logs /\ target \in DOMAIN resources
  BY <1>1 DEF AggregateMetric, WellFormed, TypeOK, TargetOK
<1>3. /\ m \in MetricsConfig /\ m.name \in Names /\ l \in Lines
      /\ MetricsOK(metrics)
      /\ resources[target].attrs = ToAttributes(ResourceAttributes, l)
  BY <1>1, <1>2 DEF WellFormed, ResourcesOK, TargetOK, AggregateMetric
<1>4. /\ ~ Fails(m, WithEntry(metrics, m)[e1], l)
      /\ resources' = [resources EXCEPT ![target].metrics = new]
  BY DEF AggregateMetric
<1> HIDE DEF m, l, metrics
<1>5. /\ MetricsOK(new)
      /\ \A i \in DOMAIN metrics :
            /\ i \in DOMAIN new
            /\ new[i].name = metrics[i].name
            /\ \A p \in DOMAIN metrics[i].points :
                  /\ p \in DOMAIN new[i].points
                  /\ SameKey(new[i].points[p], metrics[i].points[p])
                  /\ new[i].type = metrics[i].type
      /\ m.filter[l] # TRUE =>
            \A i \in DOMAIN new : \A p \in DOMAIN new[i].points :
                i \in DOMAIN metrics /\ new[i] = metrics[i]
      /\ m.filter[l] = TRUE =>
            /\ e1 \in DOMAIN new
            /\ new[e1].name = m.name
            /\ new[e1].type = m.type
            /\ \E k \in DOMAIN new[e1].points :
                 /\ new[e1].points[k].time = EndTime(m, l)
                 /\ new[e1].points[k].attrs = ToAttributes(m.attributes, l)
                 /\ \A i \in DOMAIN new : \A p \in DOMAIN new[i].points :
                       <<i, p>> # <<e1, k>> =>
                          /\ i \in DOMAIN metrics
                          /\ p \in DOMAIN metrics[i].points
                          /\ new[i].points[p] = metrics[i].points[p]
                 /\ \/ /\ e1 \in DOMAIN metrics
                       /\ k \in DOMAIN metrics[e1].points
                       /\ new[e1].points[k] = AddTo(metrics[e1].points[k], m, l)
                    \/ /\ \A p \in DOMAIN metrics[e1].points : e1 \in DOMAIN metrics =>
                             ~ SameKey(new[e1].points[k], metrics[e1].points[p])
                       /\ new[e1].points[k] = AddTo(EmptyPoint(m, l), m, l)
  BY <1>3, <1>4, IterationProperties
<1> HIDE DEF e1, new
<1>6. resources[target] \in Resource
  BY <1>1, <1>2, ElementOfSeq DEF WellFormed, ResourcesOK
<1> DEFINE res == [resources[target] EXCEPT !.metrics = new]
<1>7. /\ res \in Resource
      /\ res.attrs = resources[target].attrs
      /\ res.metrics = new
  BY <1>5, <1>6 DEF Resource, MetricsOK
<1>8. resources' = [resources EXCEPT ![target] = res]
  BY <1>4
<1> HIDE DEF res
<1>9. /\ resources' \in Seq(Resource)
      /\ DOMAIN resources' = DOMAIN resources
      /\ \A r \in DOMAIN resources :
            resources'[r] = IF r = target THEN res ELSE resources[r]
  BY <1>1, <1>2, <1>7, <1>8, ExceptSeq DEF WellFormed, ResourcesOK
<1>10. \A r \in DOMAIN resources : resources'[r].attrs = resources[r].attrs
  BY <1>7, <1>9
<1>11. /\ resources'[target].metrics = new
       /\ resources[target].metrics = metrics
       /\ \A r \in DOMAIN resources : r # target => resources'[r].metrics = resources[r].metrics
  BY <1>2, <1>7, <1>9 DEF metrics
<1>12. ResourcesOK(resources')
  <2>1. \A r \in DOMAIN resources : MetricsOK(resources'[r].metrics)
    BY <1>5, <1>11 DEF WellFormed, ResourcesOK
  <2>2. \A r1, r2 \in DOMAIN resources :
            resources'[r1].attrs = resources'[r2].attrs => r1 = r2
    BY <1>10 DEF WellFormed, ResourcesOK
  <2> QED
    BY <1>9, <2>1, <2>2 DEF ResourcesOK
<1>13. ASSUME NEW r \in DOMAIN resources, NEW e \in DOMAIN resources[r].metrics,
              NEW p \in DOMAIN resources[r].metrics[e].points
       PROVE  /\ e \in DOMAIN resources'[r].metrics
              /\ p \in DOMAIN resources'[r].metrics[e].points
              /\ KeyAt(resources', r, e, p) = KeyAt(resources, r, e, p)
              /\ resources'[r].metrics[e].type = resources[r].metrics[e].type
  <2>1. CASE r # target
    BY <1>10, <1>11, <2>1 DEF KeyAt
  <2>2. CASE r = target
    BY <1>5, <1>10, <1>11, <2>2 DEF KeyAt, SameKey
  <2> QED
    BY <2>1, <2>2
<1>14. /\ Counted(CurrentPair) <=> m.filter[l] = TRUE
       /\ KeyOf(CurrentPair) = [resource |-> resources[target].attrs, name |-> m.name,
                                time |-> EndTime(m, l),
                                attrs |-> ToAttributes(m.attributes, l)]
  BY <1>3 DEF Counted, KeyOf, CurrentPair, m, l
<1>15. ASSUME ~ Counted(CurrentPair),
              NEW r \in DOMAIN resources', NEW e \in DOMAIN resources'[r].metrics,
              NEW p \in DOMAIN resources'[r].metrics[e].points
       PROVE  /\ e \in DOMAIN resources[r].metrics
              /\ resources'[r].metrics[e] = resources[r].metrics[e]
              /\ KeyAt(resources', r, e, p) = KeyAt(resources, r, e, p)
  <2>1. CASE r # target
    BY <1>9, <1>10, <1>11, <2>1 DEF KeyAt
  <2>2. CASE r = target
    <3>1. e \in DOMAIN new /\ p \in DOMAIN new[e].points
      BY <1>11, <2>2
    <3>2. e \in DOMAIN metrics /\ new[e] = metrics[e]
      BY <1>5, <1>14, <1>15, <3>1
    <3> QED
      BY <1>9, <1>10, <1>11, <2>2, <3>2 DEF KeyAt
  <2> QED
    BY <2>1, <2>2
<1> DEFINE Adds(r0, e0, p0) ==
        /\ KeyAt(resources', r0, e0, p0) = KeyOf(CurrentPair)
        /\ resources'[r0].metrics[e0].type = m.type
        /\ \A r \in DOMAIN resources' : \A e \in DOMAIN resources'[r].metrics :
              \A p \in DOMAIN resources'[r].metrics[e].points :
                 <<r, e, p>> # <<r0, e0, p0>> =>
                    /\ e \in DOMAIN resources[r].metrics
                    /\ p \in DOMAIN resources[r].metrics[e].points
                    /\ resources'[r].metrics[e].type = resources[r].metrics[e].type
                    /\ resources'[r].metrics[e].points[p] = resources[r].metrics[e].points[p]
                    /\ KeyAt(resources', r, e, p) = KeyAt(resources, r, e, p)
        /\ \/ /\ e0 \in DOMAIN resources[r0].metrics
              /\ p0 \in DOMAIN resources[r0].metrics[e0].points
              /\ resources[r0].metrics[e0].type = resources'[r0].metrics[e0].type
              /\ resources'[r0].metrics[e0].points[p0] = AddTo(resources[r0].metrics[e0].points[p0], m, l)
           \/ /\ ~ HasKey(resources, KeyOf(CurrentPair))
              /\ resources'[r0].metrics[e0].points[p0] = AddTo(EmptyPoint(m, l), m, l)
<1>16. ASSUME Counted(CurrentPair)
       PROVE  \E r0 \in DOMAIN resources' : \E e0 \in DOMAIN resources'[r0].metrics :
                 \E p0 \in DOMAIN resources'[r0].metrics[e0].points : Adds(r0, e0, p0)
  <2>1. PICK k \in DOMAIN new[e1].points :
           /\ new[e1].points[k].time = EndTime(m, l)
           /\ new[e1].points[k].attrs = ToAttributes(m.attributes, l)
           /\ \A i \in DOMAIN new : \A p \in DOMAIN new[i].points :
                 <<i, p>> # <<e1, k>> =>
                    /\ i \in DOMAIN metrics
                    /\ p \in DOMAIN metrics[i].points
                    /\ new[i].points[p] = metrics[i].points[p]
           /\ \/ /\ e1 \in DOMAIN metrics
                 /\ k \in DOMAIN metrics[e1].points
                 /\ new[e1].points[k] = AddTo(metrics[e1].points[k], m, l)
              \/ /\ \A p \in DOMAIN metrics[e1].points : e1 \in DOMAIN metrics =>
                       ~ SameKey(new[e1].points[k], metrics[e1].points[p])
                 /\ new[e1].points[k] = AddTo(EmptyPoint(m, l), m, l)
    BY <1>5, <1>14, <1>16
  <2>2. e1 \in DOMAIN new /\ new[e1].name = m.name /\ new[e1].type = m.type
    BY <1>5, <1>14, <1>16
  <2>3. KeyAt(resources', target, e1, k) = KeyOf(CurrentPair)
    BY <1>2, <1>10, <1>11, <1>14, <2>1, <2>2 DEF KeyAt
  <2>4. ASSUME NEW r \in DOMAIN resources', NEW e \in DOMAIN resources'[r].metrics,
               NEW p \in DOMAIN resources'[r].metrics[e].points,
               <<r, e, p>> # <<target, e1, k>>
        PROVE  /\ e \in DOMAIN resources[r].metrics
               /\ p \in DOMAIN resources[r].metrics[e].points
               /\ resources'[r].metrics[e].points[p] = resources[r].metrics[e].points[p]
    <3>1. CASE r # target
      BY <1>9, <1>11, <3>1
    <3>2. CASE r = target
      <4>1. e \in DOMAIN new /\ p \in DOMAIN new[e].points /\ <<e, p>> # <<e1, k>>
        BY <1>11, <2>4, <3>2
      <4> QED
        BY <1>11, <2>1, <3>2, <4>1
    <3> QED
      BY <3>1, <3>2
  <2>5. \/ /\ e1 \in DOMAIN resources[target].metrics
           /\ k \in DOMAIN resources[target].metrics[e1].points
           /\ resources[target].metrics[e1].type = resources'[target].metrics[e1].type
           /\ resources'[target].metrics[e1].points[k] = AddTo(resources[target].metrics[e1].points[k], m, l)
        \/ /\ ~ HasKey(resources, KeyOf(CurrentPair))
           /\ resources'[target].metrics[e1].points[k] = AddTo(EmptyPoint(m, l), m, l)
    <3>1. CASE /\ e1 \in DOMAIN metrics
               /\ k \in DOMAIN metrics[e1].points
               /\ new[e1].points[k] = AddTo(metrics[e1].points[k], m, l)
      BY <1>2, <1>11, <1>13, <2>2, <3>1
    <3>2. CASE /\ \A p \in DOMAIN metrics[e1].points : e1 \in DOMAIN metrics =>
                     ~ SameKey(new[e1].points[k], metrics[e1].points[p])
               /\ new[e1].points[k] = AddTo(EmptyPoint(m, l), m, l)
      <4>1. ASSUME NEW r \in DOMAIN resources, NEW e \in DOMAIN resources[r].metrics,
                   NEW p \in DOMAIN resources[r].metrics[e].points,
                   KeyAt(resources, r, e, p) = KeyOf(CurrentPair)
            PROVE  FALSE
        <5>1. /\ resources[r].attrs = resources[target].attrs
              /\ resources[r].metrics[e].name = m.name
              /\ SameKey(resources[r].metrics[e].points[p], new[e1].points[k])
          BY <1>14, <2>1, <4>1 DEF KeyAt, SameKey
        <5>2. r = target
          BY <1>2, <5>1 DEF WellFormed, ResourcesOK
        <5>3. e \in DOMAIN new /\ new[e].name = new[e1].name
          BY <1>5, <1>11, <2>2, <5>1, <5>2
        <5>4. e = e1
          BY <1>5, <2>2, <5>3 DEF MetricsOK
        <5> QED
          BY <1>11, <3>2, <5>1, <5>2, <5>4 DEF SameKey
      <4> QED
        BY <1>11, <2>2, <3>2, <4>1 DEF HasKey
    <3> QED
      BY <2>1, <3>1, <3>2
  <2>6. /\ target \in DOMAIN resources'
        /\ resources'[target].metrics[e1].type = m.type
        /\ e1 \in DOMAIN resources'[target].metrics
        /\ k \in DOMAIN resources'[target].metrics[e1].points
    BY <1>2, <1>9, <1>11, <2>2
  <2>7. ASSUME NEW r \in DOMAIN resources', NEW e \in DOMAIN resources'[r].metrics,
               NEW p \in DOMAIN resources'[r].metrics[e].points,
               <<r, e, p>> # <<target, e1, k>>
        PROVE  /\ resources'[r].metrics[e].type = resources[r].metrics[e].type
               /\ KeyAt(resources', r, e, p) = KeyAt(resources, r, e, p)
    BY <1>9, <1>13, <2>4, <2>7
  <2>8. Adds(target, e1, k)
    BY <2>3, <2>4, <2>5, <2>6, <2>7
  <2> HIDE DEF Adds
  <2> QED
    BY <2>6, <2>8
<1> QED
  BY <1>2, <1>9, <1>10, <1>12, <1>13, <1>15, <1>16 DEF m, l

\* Every step keeps well-formedness.
LEMMA WellFormedStep ==
    ASSUME AggregationAssumption, WellFormed, [Next]_vars
    PROVE  WellFormed'
<1>1. /\ DOMAIN resources = 1..Len(resources) /\ Len(resources) \in Nat
      /\ Len(logs) \in Nat /\ Len(Metrics) \in Nat
  BY StepContext
<1>2. /\ logs \in LogInputs /\ li \in 1..(Len(logs) + 1) /\ mi \in 1..(Len(Metrics) + 1)
      /\ target \in 0..Len(resources)
      /\ pc = "metric" => li <= Len(logs) /\ target # 0
      /\ ResourcesOK(resources) /\ TargetOK
  BY DEF WellFormed, TypeOK
<1>3. CASE StartLine
  <2>1. /\ ResourcesOK(resources')
        /\ target' \in DOMAIN resources'
        /\ resources'[target'].attrs = ToAttributes(ResourceAttributes, logs[li])
    BY <1>3, StartLineEffect
  <2>2. pc' = "metric" /\ logs' = logs /\ li' = li /\ mi' = mi /\ li <= Len(logs)
    BY <1>3 DEF StartLine
  <2>3. PointsOK(resources') /\ resources' \in Seq(Resource)
    BY <2>1, ResourcesOKPoints DEF ResourcesOK
  <2>4. target' \in 1..Len(resources') /\ Len(resources') \in Nat
    BY <2>1, <2>3, LenProperties
  <2>5. TypeOK'
    BY <1>1, <1>2, <2>2, <2>3, <2>4 DEF TypeOK, PointsOK
  <2>6. TargetOK'
    BY <2>1, <2>2 DEF TargetOK
  <2>7. ResourcesOK(resources)'
    BY <2>1 DEF ResourcesOK
  <2> QED
    BY <2>5, <2>6, <2>7 DEF WellFormed
<1>4. CASE AggregateMetric
  <2>1. /\ ResourcesOK(resources')
        /\ DOMAIN resources' = DOMAIN resources
        /\ resources'[target].attrs = resources[target].attrs
    BY <1>4, AggregateMetricEffect
  <2>2. /\ mi' = mi + 1 /\ mi <= Len(Metrics)
        /\ logs' = logs /\ li' = li /\ target' = target /\ pc' = pc /\ pc = "metric"
    BY <1>4 DEF AggregateMetric
  <2>3. PointsOK(resources') /\ resources' \in Seq(Resource)
    BY <2>1, ResourcesOKPoints DEF ResourcesOK
  <2>4. Len(resources') = Len(resources)
    BY <1>1, <2>1, <2>3, LenProperties
  <2>5. TypeOK'
    BY <1>1, <1>2, <2>2, <2>3, <2>4 DEF TypeOK, PointsOK
  <2>6. TargetOK'
    BY <1>2, <2>1, <2>2 DEF TargetOK
  <2>7. ResourcesOK(resources)'
    BY <2>1 DEF ResourcesOK
  <2> QED
    BY <2>5, <2>6, <2>7 DEF WellFormed
<1>5. ASSUME UNCHANGED <<logs, resources, target>>, pc' # "metric" \/ UNCHANGED <<pc, li>>,
             li' \in 1..(Len(logs) + 1), mi' \in 1..(Len(Metrics) + 1),
             pc' \in {"line", "metric", "done", "failed"}
      PROVE  WellFormed'
  <2>1. ResourcesOK(resources)' /\ PointsOK(resources)'
    BY <1>2, <1>5, ResourcesOKPoints
  <2>2. TypeOK'
    BY <1>2, <1>5, <2>1 DEF TypeOK, ResourcesOK
  <2>3. TargetOK'
    BY <1>2, <1>5 DEF TargetOK
  <2> QED
    BY <2>1, <2>2, <2>3 DEF WellFormed
<1>6. CASE ResourceAttributesFail
  BY <1>1, <1>2, <1>5, <1>6 DEF ResourceAttributesFail
<1>7. CASE AggregateMetricFail
  BY <1>1, <1>2, <1>5, <1>7 DEF AggregateMetricFail
<1>8. CASE EndLine
  <2>1. li <= Len(logs)
    BY <1>2, <1>8 DEF EndLine
  <2> QED
    BY <1>1, <1>2, <1>5, <1>8, <2>1 DEF EndLine
<1>9. CASE Return
  BY <1>1, <1>2, <1>5, <1>9 DEF Return
<1>10. CASE Returned \/ UNCHANGED vars
  <2>1. UNCHANGED <<logs, li, mi, target, resources, resp, pc>>
    BY <1>10 DEF Returned, vars
  <2>2. pc \in {"line", "metric", "done", "failed"}
    BY DEF WellFormed, TypeOK
  <2> QED
    BY <1>2, <1>5, <2>1, <2>2
<1> QED
  BY <1>3, <1>4, <1>6, <1>7, <1>8, <1>9, <1>10 DEF Next

\* The inductive invariant behind types and uniqueness: what the searches of
\* aggregation.go find or append keeps the slices without duplicates.
LEMMA WellFormedInvariant == Spec => []WellFormed
<1>1. Init => WellFormed
  BY InitWellFormed, AggregationAssumption
<1>2. WellFormed /\ [Next]_vars => WellFormed'
  BY WellFormedStep, AggregationAssumption
<1> QED
  BY <1>1, <1>2, PTL DEF Spec

\* Every variable of Aggregate keeps its type, its indexes stay in range, and
\* every point is of the kind its metric's data calls for.
THEOREM TypeCorrect == Spec => []TypeOK
<1>1. WellFormed => TypeOK
  BY DEF WellFormed
<1> QED
  BY <1>1, WellFormedInvariant, PTL

\* The three searches of aggregation.go never append what is there: no two
\* points have the same resource, name, window and attributes.
THEOREM NoDuplicates == Spec => []KeysUnique
<1>1. WellFormed => KeysUnique
  BY SameKeySamePlace DEF WellFormed, ResourcesOK, KeysUnique
<1> QED
  BY <1>1, WellFormedInvariant, PTL

-----------------------------------------------------------------------------
(* Exactness: points agree with the lines they are made of *)

\* An iteration that completes adds its pair, the line and the metric, to the
\* processed ones; no other step changes them.
LEMMA ProcessedGrows ==
    ASSUME AggregationAssumption, WellFormed
    PROVE  /\ AggregateMetric =>
                 /\ Processed' = Processed \cup {CurrentPair}
                 /\ CurrentPair \notin Processed
           /\ [Next]_vars /\ ~ AggregateMetric => Processed' = Processed
<1>1. /\ DOMAIN logs = 1..Len(logs) /\ Len(logs) \in Nat
      /\ DOMAIN Metrics = 1..Len(Metrics) /\ Len(Metrics) \in Nat
      /\ li \in Nat /\ mi \in 1..(Len(Metrics) + 1)
      /\ pc = "metric" => li \in 1..Len(logs)
  BY StepContext DEF WellFormed, TypeOK
<1>2. ASSUME AggregateMetric
      PROVE  Processed' = Processed \cup {CurrentPair} /\ CurrentPair \notin Processed
  <2>1. mi' = mi + 1 /\ li' = li /\ logs' = logs /\ pc = "metric" /\ mi <= Len(Metrics)
    BY <1>2 DEF AggregateMetric
  <2>2. CurrentPair \in (DOMAIN logs) \X (DOMAIN Metrics)
    BY <1>1, <2>1 DEF CurrentPair
  <2>3. CurrentPair[1] = li /\ CurrentPair[2] = mi
    BY DEF CurrentPair
  <2>4. CurrentPair \notin Processed
    BY <1>1, <2>3 DEF Processed
  <2>5. ASSUME NEW q \in (DOMAIN logs) \X (DOMAIN Metrics)
        PROVE  (q[1] < li \/ (q[1] = li /\ q[2] < mi + 1))
                  <=> (q[1] < li \/ (q[1] = li /\ q[2] < mi)) \/ q = CurrentPair
    <3>1. q[1] \in Nat /\ q[2] \in Nat /\ q = <<q[1], q[2]>>
      BY <1>1
    <3>2. q = CurrentPair <=> q[1] = li /\ q[2] = mi
      BY <3>1 DEF CurrentPair
    <3> QED
      BY <1>1, <3>1, <3>2
  <2> QED
    BY <2>1, <2>2, <2>4, <2>5 DEF Processed
<1>3. ASSUME UNCHANGED <<logs, li, mi>>
      PROVE  Processed' = Processed
  BY <1>3 DEF Processed
<1>4. ASSUME EndLine
      PROVE  Processed' = Processed
  <2>1. li' = li + 1 /\ mi' = 1 /\ logs' = logs /\ mi > Len(Metrics)
    BY <1>4 DEF EndLine
  <2>2. ASSUME NEW q \in (DOMAIN logs) \X (DOMAIN Metrics)
        PROVE  (q[1] < li + 1 \/ (q[1] = li + 1 /\ q[2] < 1))
                  <=> (q[1] < li \/ (q[1] = li /\ q[2] < mi))
    <3>1. q[1] \in Nat /\ q[2] \in 1..Len(Metrics)
      BY <1>1
    <3> QED
      BY <1>1, <2>1, <3>1
  <2> QED
    BY <2>1, <2>2 DEF Processed
<1> QED
  BY <1>2, <1>3, <1>4 DEF Next, vars, StartLine, ResourceAttributesFail,
     AggregateMetricFail, Return, Returned

\* Only finitely many pairs contribute to a point.
LEMMA ContributorsFinite ==
    ASSUME AggregationAssumption, WellFormed, NEW key
    PROVE  IsFiniteSet(Contributors(key))
<1>1. IsFiniteSet((DOMAIN logs) \X (DOMAIN Metrics))
  <2>1. /\ DOMAIN logs = 1..Len(logs) /\ Len(logs) \in Nat
        /\ DOMAIN Metrics = 1..Len(Metrics) /\ Len(Metrics) \in Nat
    BY StepContext
  <2>2. IsFiniteSet(DOMAIN logs) /\ IsFiniteSet(DOMAIN Metrics)
    BY <2>1, FS_Interval
  <2> QED
    BY <2>2, FS_Product
<1> QED
  BY <1>1, FS_Subset DEF Contributors, Processed

Increasing(bounds) == \A i, j \in DOMAIN bounds : i < j => bounds[i] < bounds[j]

\* With increasing bounds a value is in one bucket, the one that is counted.
LEMMA OneBucket ==
    ASSUME NEW h, h.bounds \in Seq(Int), Increasing(h.bounds), NEW v \in Int,
           NEW j \in 1..(Len(h.bounds) + 1)
    PROVE  InBucket(h, j, v) <=> j = Bucket(h.bounds, v)
<1> DEFINE bounds == h.bounds
           n == Len(bounds)
           S == {i \in DOMAIN bounds : v < bounds[i]} \cup {n + 1}
           b == Bucket(bounds, v)
<1>1. DOMAIN bounds = 1..n /\ n \in Nat /\ \A i \in 1..n : bounds[i] \in Int
  BY LenProperties, ElementOfSeq
<1>2. S \in SUBSET Nat /\ S # {}
  BY <1>1
<1>3. b \in S /\ \A y \in S : b <= y
  BY <1>2, MinOfNats DEF Bucket
<1>4. \A i \in 1..n : i \in S <=> v < bounds[i]
  BY <1>1
<1>5. n + 1 \in S /\ b \in 1..(n + 1) /\ S \subseteq 1..(n + 1)
  BY <1>1, <1>3
<1>6. \A i, k \in 1..n : i < k => bounds[i] < bounds[k]
  BY <1>1 DEF Increasing
<1>7. InBucket(h, j, v) <=> (j > 1 => bounds[j - 1] <= v) /\ (j <= n => v < bounds[j])
  BY DEF InBucket
<1> HIDE DEF S, b, bounds, n
<1>8. j \in 1..(n + 1)
  BY DEF n, bounds
<1>9. ASSUME InBucket(h, j, v), b # j
      PROVE  FALSE
  <2>1. b <= j
    BY <1>1, <1>3, <1>4, <1>5, <1>7, <1>8, <1>9
  <2>2. j - 1 \in 1..n /\ b \in 1..n /\ b <= j - 1 /\ bounds[j - 1] <= v /\ v < bounds[b]
    BY <1>1, <1>3, <1>4, <1>5, <1>7, <1>8, <1>9, <2>1
  <2> QED
    BY <1>1, <1>6, <2>2, SMTT(40)
<1>10. ASSUME j = b
       PROVE  InBucket(h, j, v)
  <2>1. ASSUME j > 1 PROVE bounds[j - 1] <= v
    <3>1. j - 1 \in 1..n /\ j - 1 \notin S
      BY <1>1, <1>3, <1>8, <1>10, <2>1
    <3> QED
      BY <1>1, <1>4, <3>1
  <2>2. ASSUME j <= n PROVE v < bounds[j]
    BY <1>1, <1>3, <1>4, <1>8, <1>10, <2>2
  <2> QED
    BY <1>7, <2>1, <2>2
<1> QED
  BY <1>9, <1>10 DEF b, bounds

\* The values of a histogram's lines whose metric records extrema
Recorded(qs) == {ValueOf(q) : q \in {x \in qs : ~ Metrics[x[2]].noMinMax}}

Least(E) == {v \in E : \A w \in E : v <= w}

Greatest(E) == {v \in E : \A w \in E : v >= w}

\* A point of a type is made of these pairs: they are of metrics of its type,
\* and its value, or each part of its histogram, is theirs.
MadeOf(type, point, qs) ==
    /\ \A q \in qs : type # "Count" => ValueOf(q) \in Int
    /\ type = "Count" => point.value = Cardinality(qs)
    /\ type = "Sum" => point.value = SumOf(qs)
    /\ type = "Histogram" =>
          /\ HistogramAgrees(point, qs)
          /\ Increasing(point.bounds)
          /\ Recorded(qs) # {} => point.min # {} /\ point.max # {}

\* The sum grows by the value of a line that was not in it.
LEMMA SumOfOneMore ==
    ASSUME NEW qs, IsFiniteSet(qs), \A q \in qs : ValueOf(q) \in Int,
           NEW q0, q0 \notin qs, ValueOf(q0) \in Int
    PROVE  SumOf(qs \cup {q0}) = SumOf(qs) + ValueOf(q0)
<1> DEFINE f == [q \in qs |-> ValueOf(q)]
           g == [q \in qs \cup {q0} |-> ValueOf(q)]
<1>1. SumOf(qs) = SumFunctionOnSet(f, qs) /\ SumOf(qs \cup {q0}) = SumFunctionOnSet(g, qs \cup {q0})
  BY DEF SumOf, SumFunction
<1>2. g[q0] = ValueOf(q0) /\ \A q \in qs : g[q] = ValueOf(q) /\ g[q] = f[q]
  OBVIOUS
<1> HIDE DEF f, g
<1>3. SumFunctionOnSet(g, qs \cup {q0}) = SumFunctionOnSet(g, qs) + g[q0]
  BY <1>2, SumOneMore
<1>4. SumFunctionOnSet(f, qs) = SumFunctionOnSet(g, qs)
  BY <1>2, SumOfEquals
<1> QED
  BY <1>1, <1>2, <1>3, <1>4

\* No lines have the sum zero.
LEMMA SumOfNoLines == SumOf({}) = 0
<1> DEFINE f == [q \in {} |-> ValueOf(q)]
<1>1. SumOf({}) = SumFunctionOnSet(f, {})
  BY DEF SumOf, SumFunction
<1> HIDE DEF f
<1> QED
  BY <1>1, SumOfNone

\* An extremum, kept or replaced as AppendValueToHistogramDataPoint does, is
\* the extremum of one value more.
LEMMA ExtremaOfOneMore ==
    ASSUME NEW E \in SUBSET Int, NEW v \in Int,
           E # {} => Least(E) # {} /\ Greatest(E) # {}
    PROVE  /\ Least(E \cup {v}) = IF \E x \in Least(E) : x <= v THEN Least(E) ELSE {v}
           /\ Greatest(E \cup {v})
                 = IF \E x \in Greatest(E) : x >= v THEN Greatest(E) ELSE {v}
<1>1. \A x \in E : x \in Int
  OBVIOUS
<1>2. CASE E = {}
  <2>1. Least(E) = {} /\ Greatest(E) = {} /\ E \cup {v} = {v}
    BY <1>2 DEF Least, Greatest
  <2>2. Least({v}) = {v} /\ Greatest({v}) = {v}
    BY DEF Least, Greatest
  <2> QED
    BY <2>1, <2>2
<1>3. CASE E # {}
  <2>1. ASSUME NEW x \in Least(E), x <= v
        PROVE  Least(E \cup {v}) = Least(E)
    <3>1. x \in E /\ \A w \in E : x <= w
      BY DEF Least
    <3>2. \A y \in E : (\A w \in E : y <= w) => y <= v
      BY <1>1, <2>1, <3>1
    <3>3. (\A w \in E : v <= w) => v = x
      BY <1>1, <2>1, <3>1
    <3> QED
      BY <3>1, <3>2, <3>3 DEF Least
  <2>2. ASSUME \A x \in Least(E) : ~ (x <= v)
        PROVE  Least(E \cup {v}) = {v}
    <3>1. PICK x \in Least(E) : TRUE
      BY <1>3
    <3>2. x \in Int /\ v < x /\ \A w \in E : x <= w
      BY <1>1, <2>2 DEF Least
    <3>3. \A w \in E : v < w
      BY <1>1, <3>2
    <3>4. v <= v /\ \A w \in E : v <= w /\ ~ (w <= v)
      BY <1>1, <3>3
    <3> QED
      BY <3>4 DEF Least
  <2>3. ASSUME NEW x \in Greatest(E), x >= v
        PROVE  Greatest(E \cup {v}) = Greatest(E)
    <3>1. x \in E /\ \A w \in E : x >= w
      BY DEF Greatest
    <3>2. \A y \in E : (\A w \in E : y >= w) => y >= v
      BY <1>1, <2>3, <3>1
    <3>3. (\A w \in E : v >= w) => v = x
      BY <1>1, <2>3, <3>1
    <3> QED
      BY <3>1, <3>2, <3>3 DEF Greatest
  <2>4. ASSUME \A x \in Greatest(E) : ~ (x >= v)
        PROVE  Greatest(E \cup {v}) = {v}
    <3>1. PICK x \in Greatest(E) : TRUE
      BY <1>3
    <3>2. x \in Int /\ x < v /\ \A w \in E : x >= w
      BY <1>1, <2>4 DEF Greatest
    <3>3. \A w \in E : w < v
      BY <1>1, <3>2
    <3>4. v >= v /\ \A w \in E : v >= w /\ ~ (w >= v)
      BY <1>1, <3>3
    <3> QED
      BY <3>4 DEF Greatest
  <2> QED
    BY <2>1, <2>2, <2>3, <2>4
<1> QED
  BY <1>2, <1>3

\* What it means that a histogram agrees with its lines, part by part.
LEMMA HistogramParts ==
    ASSUME NEW h, NEW qs
    PROVE  HistogramAgrees(h, qs) <=>
              /\ h.count = Cardinality(qs)
              /\ h.sum = SumOf(qs)
              /\ h.min = Least(Recorded(qs))
              /\ h.max = Greatest(Recorded(qs))
              /\ Len(h.buckets) = Len(h.bounds) + 1
              /\ \A j \in DOMAIN h.buckets :
                    h.buckets[j] = Cardinality({q \in qs : InBucket(h, j, ValueOf(q))})
  BY DEF HistogramAgrees, Recorded, Least, Greatest

\* A new point is made of no lines.
LEMMA EmptyPointMadeOf ==
    ASSUME AggregationAssumption, NEW k \in DOMAIN Metrics, Metrics[k] \in MetricsConfig,
           NEW l
    PROVE  MadeOf(Metrics[k].type, EmptyPoint(Metrics[k], l), {})
<1> DEFINE m == Metrics[k]
           point == EmptyPoint(m, l)
<1>1. m.boundaries \in Seq(Int) /\ Len(m.boundaries) \in Nat
  BY LenProperties DEF MetricsConfig
<1>2. CASE m.type = "Histogram"
  <2> DEFINE zeros == [i \in 1..(Len(m.boundaries) + 1) |-> 0]
  <2>1. point = [start |-> StartTime(m, l), time |-> EndTime(m, l),
                 attrs |-> ToAttributes(m.attributes, l),
                 count |-> 0, sum |-> 0, min |-> {}, max |-> {},
                 bounds |-> m.boundaries, buckets |-> zeros]
    BY <1>2 DEF EmptyPoint
  <2>2. Len(zeros) = Len(m.boundaries) + 1 /\ \A j \in DOMAIN zeros : zeros[j] = 0
    BY <1>1
  <2> HIDE DEF zeros
  <2>3. /\ point.count = 0 /\ point.sum = 0 /\ point.min = {} /\ point.max = {}
        /\ point.bounds = m.boundaries /\ point.buckets = zeros
    BY <2>1
  <2>4. Increasing(m.boundaries)
    BY <1>2 DEF AggregationAssumption, Increasing
  <2> HIDE DEF point
  <2>5. Recorded({}) = {} /\ Least({}) = {} /\ Greatest({}) = {}
    BY DEF Recorded, Least, Greatest
  <2>6. \A j : {q \in {} : InBucket(point, j, ValueOf(q))} = {}
    OBVIOUS
  <2>7. HistogramAgrees(point, {})
    BY <2>2, <2>3, <2>5, <2>6, HistogramParts, SumOfNoLines, FS_EmptySet
  <2> QED
    BY <1>2, <2>3, <2>4, <2>5, <2>7 DEF MadeOf, point
<1>3. CASE m.type # "Histogram"
  <2>1. point.value = 0
    BY <1>3 DEF EmptyPoint
  <2> HIDE DEF point
  <2> QED
    BY <1>3, <2>1, SumOfNoLines, FS_EmptySet DEF MadeOf, point
<1> QED
  BY <1>2, <1>3

\* A line more in each part of a histogram.
LEMMA HistogramOfOneMore ==
    ASSUME NEW h \in HistogramPoint, NEW qs, IsFiniteSet(qs), \A q \in qs : ValueOf(q) \in Int,
           MadeOf("Histogram", h, qs), NEW q0, q0 \notin qs, ValueOf(q0) \in Int
    PROVE  MadeOf("Histogram",
                  AppendValueToHistogramDataPoint(h, Metrics[q0[2]], ValueOf(q0)), qs \cup {q0})
<1> DEFINE m == Metrics[q0[2]]
           v == ValueOf(q0)
           new == AppendValueToHistogramDataPoint(h, m, v)
           after == qs \cup {q0}
           b == Bucket(h.bounds, v)
           least == IF m.noMinMax \/ \E x \in h.min : x <= v THEN h.min ELSE {v}
           greatest == IF m.noMinMax \/ \E x \in h.max : x >= v THEN h.max ELSE {v}
           counts == [h.buckets EXCEPT ![b] = @ + 1]
<1>1. new = [h EXCEPT !.count = @ + 1, !.sum = @ + v, !.min = least,
                      !.max = greatest, !.buckets = counts]
  BY Zenon DEF AppendValueToHistogramDataPoint
<1>2. /\ new.count = h.count + 1 /\ new.sum = h.sum + v
      /\ new.min = least /\ new.max = greatest
      /\ new.buckets = counts /\ new.bounds = h.bounds
  <2> HIDE DEF least, greatest, counts, new, v
  <2> QED
    BY <1>1 DEF HistogramPoint
<1>3. /\ HistogramAgrees(h, qs)
      /\ Increasing(h.bounds)
      /\ Recorded(qs) # {} => h.min # {} /\ h.max # {}
  BY DEF MadeOf
<1>4. /\ h.count = Cardinality(qs)
      /\ h.sum = SumOf(qs)
      /\ h.min = Least(Recorded(qs))
      /\ h.max = Greatest(Recorded(qs))
      /\ Len(h.buckets) = Len(h.bounds) + 1
      /\ \A j \in DOMAIN h.buckets :
            h.buckets[j] = Cardinality({q \in qs : InBucket(h, j, ValueOf(q))})
  BY <1>3, HistogramParts
<1>5. new.count = Cardinality(after)
  <2>1. Cardinality(after) = Cardinality(qs) + 1
    BY FS_AddElement
  <2> QED
    BY <1>2, <1>4, <2>1
<1>6. new.sum = SumOf(after)
  BY <1>2, <1>4, SumOfOneMore
<1>7. /\ new.min = Least(Recorded(after)) /\ new.max = Greatest(Recorded(after))
      /\ new.min # {} \/ Recorded(after) = {}
      /\ new.max # {} \/ Recorded(after) = {}
  <2>1. CASE m.noMinMax
    <3>1. Recorded(after) = Recorded(qs)
      BY <2>1 DEF Recorded
    <3> QED
      BY <1>2, <1>3, <1>4, <2>1, <3>1
  <2>2. CASE ~ m.noMinMax
    <3>1. Recorded(after) = Recorded(qs) \cup {v}
      BY <2>2 DEF Recorded
    <3>2. Recorded(qs) \in SUBSET Int
      BY DEF Recorded
    <3>3. /\ Least(Recorded(qs) \cup {v}) = least
          /\ Greatest(Recorded(qs) \cup {v}) = greatest
      <4> HIDE DEF v
      <4> QED BY <1>3, <1>4, <2>2, <3>2, ExtremaOfOneMore, ZenonT(40) DEF v
    <3>4. least # {} /\ greatest # {}
      BY <2>2
    <3> HIDE DEF least, greatest, v, new
    <3> QED
      BY <1>2, <3>1, <3>3, <3>4
  <2> QED
    BY <2>1, <2>2
<1>8. /\ h.bounds \in Seq(Int) /\ h.buckets \in Seq(Nat)
      /\ DOMAIN h.buckets = 1..(Len(h.bounds) + 1)
  BY <1>4, LenProperties DEF HistogramPoint
<1>9. DOMAIN counts = DOMAIN h.buckets
  OBVIOUS
<1>10. ASSUME NEW j \in DOMAIN counts
       PROVE  counts[j] = Cardinality({q \in after : InBucket(new, j, ValueOf(q))})
  <2> DEFINE In(s) == {q \in s : InBucket(h, j, ValueOf(q))}
  <2>1. j \in DOMAIN h.buckets /\ j \in 1..(Len(h.bounds) + 1)
    BY <1>8, <1>9
  <2>2. {q \in after : InBucket(new, j, ValueOf(q))} = In(after)
    BY <1>2 DEF InBucket
  <2>3. InBucket(h, j, v) <=> j = b
    BY <1>3, <1>8, <2>1, OneBucket
  <2>4. h.buckets[j] = Cardinality(In(qs)) /\ IsFiniteSet(In(qs)) /\ q0 \notin In(qs)
    BY <1>4, <2>1, FS_Subset
  <2>5. CASE j = b
    <3>1. In(after) = In(qs) \cup {q0}
      BY <2>3, <2>5
    <3>2. counts[j] = h.buckets[j] + 1
      BY <2>1, <2>5
    <3> HIDE DEF In, counts, after
    <3>3. Cardinality(In(qs) \cup {q0}) = Cardinality(In(qs)) + 1
      BY <2>4, FS_AddElement
    <3> QED
      BY <2>2, <2>4, <3>1, <3>2, <3>3
  <2>6. CASE j # b
    <3>1. In(after) = In(qs)
      BY <2>3, <2>6
    <3>2. counts[j] = h.buckets[j]
      BY <2>1, <2>6
    <3> HIDE DEF In, counts, after
    <3> QED
      BY <2>2, <2>4, <3>1, <3>2
  <2> QED
    BY <2>5, <2>6
<1>11. Len(counts) = Len(h.buckets)
  BY <1>8, <1>9, LenProperties
<1> HIDE DEF least, greatest, counts, new, v, after
<1>12. HistogramAgrees(new, after)
  BY <1>2, <1>4, <1>5, <1>6, <1>7, <1>10, <1>11, HistogramParts
<1>13. \A q \in after : ValueOf(q) \in Int
  BY DEF after, v
<1> QED
  BY <1>2, <1>3, <1>7, <1>12, <1>13 DEF MadeOf, after, new, v

\* A line added to a point adds its pair to those the point is made of.
LEMMA AddToMadeOf ==
    ASSUME NEW q0, Metrics[q0[2]] \in MetricsConfig, logs[q0[1]] \in Lines,
           ValueNeeded(Metrics[q0[2]], logs[q0[1]]),
           NEW point, PointOfType(Metrics[q0[2]].type, point),
           NEW qs, IsFiniteSet(qs), q0 \notin qs, MadeOf(Metrics[q0[2]].type, point, qs)
    PROVE  MadeOf(Metrics[q0[2]].type,
                  AddTo(point, Metrics[q0[2]], logs[q0[1]]), qs \cup {q0})
<1> DEFINE m == Metrics[q0[2]]
           l == logs[q0[1]]
           v == m.value[l]
           new == AddTo(point, m, l)
<1>1. m.type \in {"Count", "Sum", "Histogram"} /\ ValueOf(q0) = v
  BY DEF MetricsConfig, AggregationTypes, ValueOf
<1>2. CASE m.type = "Count"
  <2>1. new = [point EXCEPT !.value = @ + 1] /\ point \in NumberPoint
    BY <1>2 DEF AddTo, PointOfType
  <2>2. new.value = point.value + 1 /\ point.value = Cardinality(qs)
    BY <1>2, <2>1 DEF NumberPoint, MadeOf
  <2>3. Cardinality(qs \cup {q0}) = Cardinality(qs) + 1
    BY FS_AddElement
  <2> HIDE DEF new
  <2> QED
    BY <1>2, <2>2, <2>3 DEF MadeOf, new
<1>3. CASE m.type = "Sum"
  <2>1. new = [point EXCEPT !.value = @ + v] /\ point \in NumberPoint
    BY <1>3 DEF AddTo, PointOfType
  <2>2. new.value = point.value + v /\ point.value = SumOf(qs)
    BY <1>3, <2>1 DEF NumberPoint, MadeOf
  <2>3. v \in Int /\ \A q \in qs : ValueOf(q) \in Int
    BY <1>3 DEF ValueNeeded, MadeOf
  <2> HIDE DEF new, v
  <2>4. new.value = SumOf(qs \cup {q0})
    BY <1>1, <2>2, <2>3, SumOfOneMore
  <2> QED
    BY <1>1, <1>3, <2>3, <2>4 DEF MadeOf, new
<1>4. CASE m.type = "Histogram"
  <2>1. v \in Int /\ (\A q \in qs : ValueOf(q) \in Int) /\ point \in HistogramPoint
    BY <1>4 DEF ValueNeeded, MadeOf, PointOfType
  <2>2. new = AppendValueToHistogramDataPoint(point, m, ValueOf(q0))
    BY <1>1, <1>4 DEF AddTo
  <2> HIDE DEF new, v
  <2> QED
    BY <1>1, <1>4, <2>1, <2>2, HistogramOfOneMore DEF new
<1> QED
  BY <1>1, <1>2, <1>3, <1>4

\* As long as the slice of lines is the same, points are made of the same.
LEMMA MadeOfSameLines ==
    ASSUME logs' = logs, NEW type, NEW point, NEW qs
    PROVE  MadeOf(type, point, qs)' <=> MadeOf(type, point, qs)
<1>1. \A q : ValueOf(q)' = ValueOf(q)
  BY DEF ValueOf
<1>2. SumOf(qs)' = SumOf(qs)
  <2>1. [q \in qs |-> ValueOf(q)'] = [q \in qs |-> ValueOf(q)]
    BY <1>1
  <2> QED
    BY <2>1 DEF SumOf
<1>3. Recorded(qs)' = Recorded(qs)
  BY <1>1 DEF Recorded
<1>4. \A j : {q \in qs : InBucket(point, j, ValueOf(q))'} = {q \in qs : InBucket(point, j, ValueOf(q))}
  BY <1>1 DEF InBucket
<1>5. HistogramAgrees(point, qs)' <=> HistogramAgrees(point, qs)
  <2>1. HistogramAgrees(point, qs)' <=>
              /\ point.count = Cardinality(qs)
              /\ point.sum = SumOf(qs)'
              /\ point.min = Least(Recorded(qs)')
              /\ point.max = Greatest(Recorded(qs)')
              /\ Len(point.buckets) = Len(point.bounds) + 1
              /\ \A j \in DOMAIN point.buckets :
                    point.buckets[j] = Cardinality({q \in qs : InBucket(point, j, ValueOf(q))'})
    BY DEF HistogramAgrees, Recorded, Least, Greatest, InBucket
  <2> QED
    BY <1>2, <1>3, <1>4, <2>1, HistogramParts
<1> QED
  BY <1>1, <1>2, <1>3, <1>5 DEF MadeOf

\* Every point is made of the pairs that belong to it.
PointsMadeOf ==
    \A r \in DOMAIN resources : \A e \in DOMAIN resources[r].metrics :
        \A p \in DOMAIN resources[r].metrics[e].points :
            MadeOf(resources[r].metrics[e].type, resources[r].metrics[e].points[p],
                   Contributors(KeyAt(resources, r, e, p)))

\* When no place, key, type or value changes and nothing more is processed,
\* exactness is kept.
LEMMA ExactFrame ==
    ASSUME NothingLost, PointsMadeOf, logs' = logs, Processed' = Processed,
           \A r \in DOMAIN resources :
              r \in DOMAIN resources' /\ resources'[r] = resources[r],
           \A r \in DOMAIN resources' : r \notin DOMAIN resources =>
              resources'[r].metrics = <<>>
    PROVE  NothingLost' /\ PointsMadeOf'
<1>1. \A q : Counted(q)' <=> Counted(q)
  BY DEF Counted
<1>2. \A q : KeyOf(q)' = KeyOf(q)
  BY DEF KeyOf
<1>3. NothingLost'
  BY <1>1, <1>2 DEF NothingLost, HasKey, KeyAt
<1>4. \A key : Contributors(key)' = Contributors(key)
  BY <1>1, <1>2 DEF Contributors
<1>5. \A type, point, qs : MadeOf(type, point, qs)' <=> MadeOf(type, point, qs)
  BY MadeOfSameLines
<1>6. ASSUME NEW r \in DOMAIN resources', NEW e \in DOMAIN resources'[r].metrics,
             NEW p \in DOMAIN resources'[r].metrics[e].points
      PROVE  MadeOf(resources'[r].metrics[e].type, resources'[r].metrics[e].points[p],
                    Contributors(KeyAt(resources', r, e, p)))
  <2>1. r \in DOMAIN resources /\ resources'[r] = resources[r]
    OBVIOUS
  <2>2. KeyAt(resources', r, e, p) = KeyAt(resources, r, e, p)
    BY <2>1 DEF KeyAt
  <2> QED
    BY <2>1, <2>2 DEF PointsMadeOf
<1>7. PointsMadeOf'
  BY <1>4, <1>5, <1>6 DEF PointsMadeOf, KeyAt
<1> QED
  BY <1>3, <1>7

\* An iteration keeps exactness: the pair it adds belongs to the one point
\* that is made or grows, and to no other.
LEMMA ExactIteration ==
    ASSUME AggregationAssumption, WellFormed, NothingLost, PointsMadeOf, AggregateMetric
    PROVE  NothingLost' /\ PointsMadeOf'
<1> DEFINE q0 == CurrentPair
           m == Metrics[mi]
           l == logs[li]
<1>1. logs' = logs
  BY DEF AggregateMetric
<1>2. \A q : Counted(q)' <=> Counted(q)
  BY <1>1 DEF Counted
<1>3. \A q : KeyOf(q)' = KeyOf(q)
  BY <1>1 DEF KeyOf
<1>4. Processed' = Processed \cup {q0} /\ q0 \notin Processed
  BY ProcessedGrows
<1>5. /\ DOMAIN resources' = DOMAIN resources
      /\ \A r \in DOMAIN resources : \A e \in DOMAIN resources[r].metrics :
            \A p \in DOMAIN resources[r].metrics[e].points :
               /\ e \in DOMAIN resources'[r].metrics
               /\ p \in DOMAIN resources'[r].metrics[e].points
               /\ KeyAt(resources', r, e, p) = KeyAt(resources, r, e, p)
  BY AggregateMetricEffect
<1>6. \A key : HasKey(resources, key) => HasKey(resources', key)
  BY <1>5 DEF HasKey
<1>7. ASSUME Counted(q0) PROVE HasKey(resources', KeyOf(q0))
  BY <1>7, AggregateMetricEffect DEF HasKey
<1>8. NothingLost'
  <2>1. \A q \in Processed \cup {q0} : Counted(q) => HasKey(resources', KeyOf(q))
    BY <1>6, <1>7 DEF NothingLost
  <2> QED
    BY <1>2, <1>3, <1>4, <2>1 DEF NothingLost, HasKey, KeyAt
<1> DEFINE After(key) == {q \in Processed \cup {q0} : Counted(q) /\ KeyOf(q) = key}
<1>9. \A key : Contributors(key)' = After(key)
  BY <1>2, <1>3, <1>4 DEF Contributors
<1>10. ASSUME NEW key, ~ Counted(q0) \/ KeyOf(q0) # key
       PROVE  After(key) = Contributors(key)
  BY <1>10 DEF Contributors
<1>11. ASSUME NEW key, Counted(q0), KeyOf(q0) = key
       PROVE  After(key) = Contributors(key) \cup {q0} /\ q0 \notin Contributors(key)
  BY <1>4, <1>11 DEF Contributors
<1>12. /\ q0[1] = li /\ q0[2] = mi
       /\ mi \in DOMAIN Metrics /\ m \in MetricsConfig /\ l \in Lines
  BY StepContext DEF AggregateMetric, WellFormed, TypeOK, CurrentPair
<1>13. ASSUME Counted(q0)
       PROVE  ValueNeeded(m, l) /\ ~ AttributesFail(m.attributes, l)
  <2>1. m.filter[l] = TRUE
    BY <1>12, <1>13 DEF Counted
  <2>2. ~ Fails(m, WithEntry(resources[target].metrics, m)[EntryIndex(resources[target].metrics, m)], l)
    BY DEF AggregateMetric
  <2>3. /\ m.type \in {"Count", "Sum", "Histogram"}
        /\ m.value[l] \in Int \cup {EvalError}
    BY <1>12 DEF MetricsConfig, AggregationTypes
  <2> HIDE DEF m, l
  <2> QED
    BY <2>1, <2>2, <2>3 DEF Fails, ValueNeeded
<1> HIDE DEF After, q0
<1>14. ASSUME NEW r \in DOMAIN resources', NEW e \in DOMAIN resources'[r].metrics,
              NEW p \in DOMAIN resources'[r].metrics[e].points
       PROVE  MadeOf(resources'[r].metrics[e].type, resources'[r].metrics[e].points[p],
                     After(KeyAt(resources', r, e, p)))
  <2> DEFINE key == KeyAt(resources', r, e, p)
  <2>1. CASE ~ Counted(q0)
    <3>1. /\ e \in DOMAIN resources[r].metrics
          /\ resources'[r].metrics[e] = resources[r].metrics[e]
          /\ KeyAt(resources', r, e, p) = KeyAt(resources, r, e, p)
      BY <2>1, AggregateMetricEffect DEF q0
    <3>2. MadeOf(resources[r].metrics[e].type, resources[r].metrics[e].points[p],
                 Contributors(key))
      BY <1>5, <3>1 DEF PointsMadeOf
    <3>3. After(key) = Contributors(key)
      BY <1>10, <2>1
    <3> QED
      BY <3>1, <3>2, <3>3
  <2>2. CASE Counted(q0)
    <3>1. PICK r0, e0, p0 :
             /\ r0 \in DOMAIN resources'
             /\ e0 \in DOMAIN resources'[r0].metrics
             /\ p0 \in DOMAIN resources'[r0].metrics[e0].points
             /\ KeyAt(resources', r0, e0, p0) = KeyOf(q0)
             /\ resources'[r0].metrics[e0].type = m.type
             /\ <<r, e, p>> # <<r0, e0, p0>> =>
                   /\ e \in DOMAIN resources[r].metrics
                   /\ p \in DOMAIN resources[r].metrics[e].points
                   /\ resources'[r].metrics[e].type = resources[r].metrics[e].type
                   /\ resources'[r].metrics[e].points[p] = resources[r].metrics[e].points[p]
                   /\ KeyAt(resources', r, e, p) = KeyAt(resources, r, e, p)
             /\ \/ /\ e0 \in DOMAIN resources[r0].metrics
                   /\ p0 \in DOMAIN resources[r0].metrics[e0].points
                   /\ resources[r0].metrics[e0].type = m.type
                   /\ resources'[r0].metrics[e0].points[p0]
                         = AddTo(resources[r0].metrics[e0].points[p0], m, l)
                \/ /\ ~ HasKey(resources, KeyOf(q0))
                   /\ resources'[r0].metrics[e0].points[p0]
                         = AddTo(EmptyPoint(m, l), m, l)
      BY <2>2, AggregateMetricEffect DEF q0
    <3>2. CASE <<r, e, p>> # <<r0, e0, p0>>
      <4>1. key # KeyOf(q0)
        <5>1. ResourcesOK(resources')
          BY AggregateMetricEffect
        <5> QED
          BY <3>1, <3>2, <5>1, SameKeySamePlace
      <4>2. MadeOf(resources[r].metrics[e].type, resources[r].metrics[e].points[p],
                   Contributors(key))
        BY <1>5, <3>1, <3>2 DEF PointsMadeOf
      <4>3. After(key) = Contributors(key)
        BY <1>10, <4>1
      <4> QED
        BY <3>1, <3>2, <4>2, <4>3
    <3>3. CASE <<r, e, p>> = <<r0, e0, p0>>
      <4>1. r = r0 /\ e = e0 /\ p = p0 /\ key = KeyOf(q0)
        BY <3>1, <3>3
      <4>2. After(key) = Contributors(key) \cup {q0} /\ q0 \notin Contributors(key)
        BY <1>11, <2>2, <4>1
      <4>3. ASSUME NEW point, PointOfType(m.type, point), MadeOf(m.type, point, Contributors(key))
            PROVE  MadeOf(m.type, AddTo(point, m, l), After(key))
        <5>1. IsFiniteSet(Contributors(key))
          BY ContributorsFinite
        <5>2. /\ Metrics[q0[2]] = m /\ logs[q0[1]] = l
              /\ m \in MetricsConfig /\ l \in Lines /\ ValueNeeded(m, l)
          BY <1>12, <1>13, <2>2 DEF q0
        <5> HIDE DEF key, m, l
        <5>3. MadeOf(m.type, AddTo(point, m, l), Contributors(key) \cup {q0})
          BY <4>2, <4>3, <5>1, <5>2, AddToMadeOf
        <5> QED
          BY <4>2, <5>3
      <4>4. CASE /\ e0 \in DOMAIN resources[r0].metrics
                 /\ p0 \in DOMAIN resources[r0].metrics[e0].points
                 /\ resources[r0].metrics[e0].type = m.type
                 /\ resources'[r0].metrics[e0].points[p0]
                       = AddTo(resources[r0].metrics[e0].points[p0], m, l)
        <5>1. KeyAt(resources, r, e, p) = key
          BY <1>5, <4>1, <4>4
        <5>2. MadeOf(m.type, resources[r].metrics[e].points[p], Contributors(key))
          BY <1>5, <4>1, <4>4, <5>1 DEF PointsMadeOf
        <5>3. PointOfType(m.type, resources[r].metrics[e].points[p])
          BY <1>5, <4>1, <4>4 DEF WellFormed, ResourcesOK, MetricsOK, EntryOK
        <5> QED
          BY <3>1, <4>1, <4>3, <4>4, <5>2, <5>3
      <4>5. CASE /\ ~ HasKey(resources, KeyOf(q0))
                 /\ resources'[r0].metrics[e0].points[p0] = AddTo(EmptyPoint(m, l), m, l)
        <5>1. Contributors(key) = {}
          BY <4>1, <4>5 DEF NothingLost, Contributors
        <5>2. MadeOf(m.type, EmptyPoint(m, l), {})
          BY <1>12, EmptyPointMadeOf
        <5>3. PointOfType(m.type, EmptyPoint(m, l))
          BY <1>12, <1>13, <2>2, EmptyPointProperties
        <5> QED
          BY <3>1, <4>1, <4>3, <4>5, <5>1, <5>2, <5>3
      <4> QED
        BY <3>1, <4>4, <4>5
    <3> QED
      BY <3>2, <3>3
  <2> QED
    BY <2>1, <2>2
<1>15. PointsMadeOf'
  <2>1. \A type, point, qs : MadeOf(type, point, qs)' <=> MadeOf(type, point, qs)
    BY <1>1, MadeOfSameLines
  <2> QED
    BY <1>9, <1>14, <2>1 DEF PointsMadeOf, KeyAt
<1> QED
  BY <1>8, <1>15

Exact == WellFormed /\ NothingLost /\ PointsMadeOf

\* The inductive invariant behind counts and completeness: in a well-formed
\* state every processed pair has been added to the one point of its key.
LEMMA ExactInvariant == Spec => []Exact
<1>1. Init => Exact
  <2> SUFFICES ASSUME Init PROVE Exact
    OBVIOUS
  <2>1. WellFormed
    BY InitWellFormed, AggregationAssumption
  <2>2. resources = <<>> /\ li = 1 /\ mi = 1
    BY DEF Init
  <2>3. Processed = {}
    <3>1. /\ DOMAIN logs = 1..Len(logs) /\ DOMAIN Metrics = 1..Len(Metrics)
          /\ Len(logs) \in Nat /\ Len(Metrics) \in Nat
      BY <2>1, StepContext, AggregationAssumption
    <3> QED
      BY <2>2, <3>1 DEF Processed
  <2> QED
    BY <2>1, <2>2, <2>3 DEF Exact, NothingLost, PointsMadeOf
<1>2. Exact /\ [Next]_vars => Exact'
  <2> SUFFICES ASSUME Exact, [Next]_vars PROVE Exact'
    OBVIOUS
  <2>1. WellFormed /\ NothingLost /\ PointsMadeOf
    BY DEF Exact
  <2>2. WellFormed'
    BY <2>1, WellFormedStep, AggregationAssumption
  <2>3. CASE AggregateMetric
    BY <2>1, <2>2, <2>3, ExactIteration, AggregationAssumption DEF Exact
  <2>4. CASE ~ AggregateMetric
    <3>1. Processed' = Processed
      BY <2>1, <2>4, ProcessedGrows, AggregationAssumption
    <3>2. logs' = logs
      BY <2>4 DEF Next, vars, StartLine, ResourceAttributesFail, AggregateMetricFail,
         EndLine, Return, Returned
    <3>3. CASE StartLine
      BY <2>1, <2>2, <3>1, <3>2, <3>3, StartLineEffect, ExactFrame,
         AggregationAssumption DEF Exact
    <3>4. CASE ~ StartLine
      <4>1. resources' = resources
        BY <2>4, <3>4 DEF Next, vars, ResourceAttributesFail, AggregateMetricFail,
           EndLine, Return, Returned
      <4> QED
        BY <2>1, <2>2, <3>1, <3>2, <4>1, ExactFrame DEF Exact
    <3> QED
      BY <3>3, <3>4
  <2> QED
    BY <2>3, <2>4
<1> QED
  BY <1>1, <1>2, PTL DEF Spec

\* A Count point counts exactly the lines of its window, attributes and
\* resource that the filter accepted, whatever the configuration.
THEOREM CountExactness == Spec => []CountsExact
<1>1. Exact => CountsExact
  BY DEF Exact, PointsMadeOf, MadeOf, CountsExact
<1> QED
  BY <1>1, ExactInvariant, PTL

\* A Sum point is exactly the sum of its lines' values, and a histogram has
\* exactly their count, sum, extrema and buckets, whatever the configuration.
THEOREM ValueExactness == Spec => []ValuesExact
<1>1. Exact => ValuesExact
  BY DEF Exact, PointsMadeOf, MadeOf, ValuesExact
<1> QED
  BY <1>1, ExactInvariant, PTL

\* Every accepted line has its point, for all three types of metric.
THEOREM NoLineLost == Spec => []NothingLost
<1>1. Exact => NothingLost
  BY DEF Exact
<1> QED
  BY <1>1, ExactInvariant, PTL

-----------------------------------------------------------------------------
(* What is returned *)

\* The entries with points, in their order
LEMMA WithPointsProperties ==
    ASSUME NEW metrics, MetricsOK(metrics)
    PROVE  /\ WithPoints(metrics) \in Seq(Entry)
           /\ \A e \in DOMAIN WithPoints(metrics) :
                 /\ WithPoints(metrics)[e].points # <<>>
                 /\ \E i \in DOMAIN metrics : WithPoints(metrics)[e] = metrics[i]
           /\ \A i \in DOMAIN metrics : metrics[i].points # <<>> =>
                 \E e \in DOMAIN WithPoints(metrics) : WithPoints(metrics)[e] = metrics[i]
           /\ \E of \in [DOMAIN WithPoints(metrics) -> PlacesWithPoints(metrics)] :
                 /\ Increases(of)
                 /\ Onto(of, PlacesWithPoints(metrics))
                 /\ \A e \in DOMAIN WithPoints(metrics) : WithPoints(metrics)[e] = metrics[of[e]]
<1> DEFINE places == {e \in DOMAIN metrics : metrics[e].points # <<>>}
           kept == Kept(metrics, places)
<1>1. metrics \in Seq(Entry) /\ places \in SUBSET (DOMAIN metrics)
  BY DEF MetricsOK
<1>2. \A e \in places : metrics[e].points # <<>>
  OBVIOUS
<1>3. WithPoints(metrics) = kept
  BY DEF WithPoints
<1> HIDE DEF kept, places
<1>4. kept \in Seq(Entry)
  BY <1>1, KeptIs DEF kept
<1>5. PICK f \in [DOMAIN kept -> places] :
         /\ \A n \in DOMAIN kept : kept[n] = metrics[f[n]]
         /\ \A m, n \in DOMAIN kept : m < n => f[m] < f[n]
         /\ \A i \in places : \E n \in DOMAIN kept : f[n] = i
  <2>1. \E f : Keeps(f, kept, metrics, places)
    BY <1>1, KeptIs DEF kept
  <2> QED
    BY <2>1 DEF Keeps
<1>6. \A i \in DOMAIN metrics : metrics[i].points # <<>> => i \in places
  BY DEF places
<1>7. ASSUME NEW n \in DOMAIN kept
      PROVE  kept[n].points # <<>> /\ \E i \in DOMAIN metrics : kept[n] = metrics[i]
  <2>1. f[n] \in places /\ f[n] \in DOMAIN metrics /\ kept[n] = metrics[f[n]]
    BY <1>1, <1>5
  <2> QED
    BY <1>2, <2>1
<1>8. ASSUME NEW i \in DOMAIN metrics, metrics[i].points # <<>>
      PROVE  \E n \in DOMAIN kept : kept[n] = metrics[i]
  BY <1>5, <1>6, <1>8
<1>9. places = PlacesWithPoints(metrics)
  BY DEF places, PlacesWithPoints
<1>10. Increases(f) /\ Onto(f, places) /\ DOMAIN f = DOMAIN kept
  BY <1>5 DEF Increases, Onto
<1> QED
  BY <1>3, <1>4, <1>5, <1>7, <1>8, <1>9, <1>10

\* Pruning keeps every point where its resource and its name are, and what it
\* keeps, in the order it had.
LEMMA PrunedProperties ==
    ASSUME NEW rs, ResourcesOK(rs)
    PROVE  /\ Pruned(rs) \in Seq(Resource)
           /\ PointsOK(Pruned(rs))
           /\ \A key : HasKey(rs, key) => HasKey(Pruned(rs), key)
           /\ LET full == {r \in DOMAIN rs : PlacesWithPoints(rs[r].metrics) # {}}
              IN  \E from \in [DOMAIN Pruned(rs) -> full] :
                     /\ Increases(from)
                     /\ Onto(from, full)
                     /\ \A n \in DOMAIN Pruned(rs) :
                           SameWithoutEmpty(Pruned(rs)[n], rs[from[n]])
<1> DEFINE trimmed == [r \in DOMAIN rs |-> [rs[r] EXCEPT !.metrics = WithPoints(@)]]
           places == {r \in DOMAIN rs : trimmed[r].metrics # <<>>}
           kept == Kept(trimmed, places)
<1>1. /\ rs \in Seq(Resource) /\ DOMAIN rs = 1..Len(rs) /\ Len(rs) \in Nat
      /\ \A r \in DOMAIN rs : rs[r] \in Resource /\ MetricsOK(rs[r].metrics)
  BY LenProperties, ElementOfSeq DEF ResourcesOK
<1>2. ASSUME NEW r \in DOMAIN rs
      PROVE  /\ trimmed[r] \in Resource
             /\ trimmed[r].attrs = rs[r].attrs
             /\ trimmed[r].metrics = WithPoints(rs[r].metrics)
  <2>1. WithPoints(rs[r].metrics) \in Seq(Entry)
    BY <1>1, WithPointsProperties
  <2>2. trimmed[r] = [rs[r] EXCEPT !.metrics = WithPoints(rs[r].metrics)]
    OBVIOUS
  <2> HIDE DEF trimmed
  <2> QED
    BY <1>1, <2>1, <2>2 DEF Resource
<1>3. DOMAIN trimmed = DOMAIN rs
  OBVIOUS
<1>4. trimmed = [r \in 1..Len(rs) |-> trimmed[r]]
  BY <1>1
<1> HIDE DEF trimmed
<1>5. trimmed \in Seq(Resource)
  BY <1>1, <1>2, <1>3, <1>4
<1>6. /\ places \in SUBSET (DOMAIN trimmed)
      /\ \A r \in DOMAIN rs : r \in places <=> trimmed[r].metrics # <<>>
  BY <1>3
<1>7. Pruned(rs) = kept
  BY DEF Pruned, trimmed
<1> HIDE DEF kept, places
<1>8. kept \in Seq(Resource)
  BY <1>5, <1>6, KeptIs DEF kept
<1>9. PICK f \in [DOMAIN kept -> places] :
         /\ \A n \in DOMAIN kept : kept[n] = trimmed[f[n]]
         /\ \A m, n \in DOMAIN kept : m < n => f[m] < f[n]
         /\ \A i \in places : \E n \in DOMAIN kept : f[n] = i
  <2>1. \E f : Keeps(f, kept, trimmed, places)
    BY <1>5, <1>6, KeptIs DEF kept
  <2> QED
    BY <2>1 DEF Keeps
<1>10. ASSUME NEW n \in DOMAIN kept
       PROVE  /\ f[n] \in DOMAIN rs
              /\ kept[n].attrs = rs[f[n]].attrs
              /\ kept[n].metrics = WithPoints(rs[f[n]].metrics)
              /\ kept[n].metrics # <<>>
  BY <1>2, <1>3, <1>6, <1>9
<1>11. ASSUME NEW n \in DOMAIN kept, NEW e \in DOMAIN kept[n].metrics
       PROVE  /\ kept[n].metrics[e].points # <<>>
              /\ \E i \in DOMAIN rs[f[n]].metrics : kept[n].metrics[e] = rs[f[n]].metrics[i]
  <2>1. f[n] \in DOMAIN rs /\ MetricsOK(rs[f[n]].metrics)
    BY <1>1, <1>10
  <2>2. kept[n].metrics = WithPoints(rs[f[n]].metrics)
    BY <1>10
  <2> QED
    BY <2>1, <2>2, WithPointsProperties
<1>12. PointsOK(kept)
  <2> SUFFICES ASSUME NEW n \in DOMAIN kept, NEW e \in DOMAIN kept[n].metrics,
                      NEW p \in DOMAIN kept[n].metrics[e].points
               PROVE  /\ kept[n].metrics[e].type # NoData
                      /\ PointOfType(kept[n].metrics[e].type, kept[n].metrics[e].points[p])
    BY DEF PointsOK, PointOfType
  <2>1. PICK i \in DOMAIN rs[f[n]].metrics : kept[n].metrics[e] = rs[f[n]].metrics[i]
    BY <1>11
  <2>2. EntryOK(rs[f[n]].metrics[i])
    BY <1>1, <1>10 DEF MetricsOK
  <2> QED
    BY <2>1, <2>2 DEF EntryOK
<1>13. ASSUME NEW key, HasKey(rs, key)
       PROVE  HasKey(kept, key)
  <2>1. PICK r \in DOMAIN rs : \E e \in DOMAIN rs[r].metrics :
                \E p \in DOMAIN rs[r].metrics[e].points : KeyAt(rs, r, e, p) = key
    BY <1>13 DEF HasKey
  <2>2. PICK e \in DOMAIN rs[r].metrics :
                \E p \in DOMAIN rs[r].metrics[e].points : KeyAt(rs, r, e, p) = key
    BY <2>1
  <2>3. PICK p \in DOMAIN rs[r].metrics[e].points : KeyAt(rs, r, e, p) = key
    BY <2>2
  <2>4. rs[r].metrics[e].points # <<>>
    BY <2>3
  <2>5. PICK i \in DOMAIN WithPoints(rs[r].metrics) :
                WithPoints(rs[r].metrics)[i] = rs[r].metrics[e]
    BY <1>1, <2>4, WithPointsProperties
  <2>6. WithPoints(rs[r].metrics) # <<>>
    BY <2>5
  <2>7. r \in places
    BY <1>2, <1>6, <2>6
  <2>8. PICK n \in DOMAIN kept : f[n] = r
    BY <1>9, <2>7
  <2>9. kept[n].attrs = rs[r].attrs /\ kept[n].metrics = WithPoints(rs[r].metrics)
    BY <1>10, <2>8
  <2>10. /\ i \in DOMAIN kept[n].metrics
         /\ p \in DOMAIN kept[n].metrics[i].points
         /\ kept[n].metrics[i] = rs[r].metrics[e]
    BY <2>5, <2>9
  <2>11. KeyAt(kept, n, i, p) = key
    BY <2>3, <2>9, <2>10 DEF KeyAt
  <2> QED
    BY <2>10, <2>11 DEF HasKey
<1>14. places = {r \in DOMAIN rs : PlacesWithPoints(rs[r].metrics) # {}}
  <2> SUFFICES ASSUME NEW r \in DOMAIN rs
               PROVE  r \in places <=> PlacesWithPoints(rs[r].metrics) # {}
    BY <1>3, <1>6
  <2>1. MetricsOK(rs[r].metrics) /\ trimmed[r].metrics = WithPoints(rs[r].metrics)
    BY <1>1, <1>2
  <2>2. WithPoints(rs[r].metrics) \in Seq(Entry)
    BY <2>1, WithPointsProperties
  <2>3. ASSUME WithPoints(rs[r].metrics) # <<>>
        PROVE  PlacesWithPoints(rs[r].metrics) # {}
    <3>1. 1 \in DOMAIN WithPoints(rs[r].metrics)
      BY <2>2, <2>3
    <3>2. PICK of \in [DOMAIN WithPoints(rs[r].metrics) -> PlacesWithPoints(rs[r].metrics)] : TRUE
      BY <2>1, WithPointsProperties
    <3> QED
      BY <3>1, <3>2
  <2>4. ASSUME PlacesWithPoints(rs[r].metrics) # {}
        PROVE  WithPoints(rs[r].metrics) # <<>>
    <3>1. PICK i \in DOMAIN rs[r].metrics : rs[r].metrics[i].points # <<>>
      BY <2>4 DEF PlacesWithPoints
    <3>2. \E e \in DOMAIN WithPoints(rs[r].metrics) :
             WithPoints(rs[r].metrics)[e] = rs[r].metrics[i]
      BY <2>1, <3>1, WithPointsProperties
    <3> QED
      BY <3>2
  <2> QED
    BY <1>6, <2>1, <2>3, <2>4
<1>15. \A n \in DOMAIN kept : SameWithoutEmpty(kept[n], rs[f[n]])
  <2> SUFFICES ASSUME NEW n \in DOMAIN kept
               PROVE  SameWithoutEmpty(kept[n], rs[f[n]])
    OBVIOUS
  <2>1. /\ kept[n].attrs = rs[f[n]].attrs /\ kept[n].metrics # <<>>
        /\ kept[n].metrics = WithPoints(rs[f[n]].metrics)
        /\ MetricsOK(rs[f[n]].metrics)
    BY <1>1, <1>10
  <2>2. \E of \in [DOMAIN WithPoints(rs[f[n]].metrics) -> PlacesWithPoints(rs[f[n]].metrics)] :
           /\ Increases(of)
           /\ Onto(of, PlacesWithPoints(rs[f[n]].metrics))
           /\ \A e \in DOMAIN WithPoints(rs[f[n]].metrics) :
                 WithPoints(rs[f[n]].metrics)[e] = rs[f[n]].metrics[of[e]]
    BY <2>1, WithPointsProperties
  <2> QED
    BY <2>1, <2>2 DEF SameWithoutEmpty
<1>16. Increases(f) /\ Onto(f, places) /\ DOMAIN f = DOMAIN kept
  BY <1>9 DEF Increases, Onto
<1> QED
  BY <1>7, <1>8, <1>9, <1>12, <1>13, <1>14, <1>15, <1>16

\* What has been returned is what was aggregated of all lines.
Returns == Exact /\ (pc = "done" => li > Len(logs) /\ resp = Pruned(resources))

LEMMA ReturnsInvariant == Spec => []Returns
<1>1. Init => (pc = "done" => li > Len(logs) /\ resp = Pruned(resources))
  BY DEF Init
<1>2. (pc = "done" => li > Len(logs) /\ resp = Pruned(resources)) /\ [Next]_vars
         => (pc = "done" => li > Len(logs) /\ resp = Pruned(resources))'
  BY DEF Next, vars, StartLine, ResourceAttributesFail, AggregateMetric, AggregateMetricFail,
     EndLine, Return, Returned
<1> QED
  BY <1>1, <1>2, ExactInvariant, PTL DEF Spec, Returns

\* Every response has the points of all accepted lines of all metrics, and is
\* what was aggregated, in its order, without what is empty, whatever the
\* lines and the configuration.
THEOREM ResponseCompleteness == Spec => []ResponseComplete
<1>1. Returns => ResponseComplete
  <2> SUFFICES ASSUME Returns, pc = "done"
               PROVE  /\ \A q \in (DOMAIN logs) \X (DOMAIN Metrics) :
                            Counted(q) => HasKey(resp, KeyOf(q))
                      /\ LET full == {r \in DOMAIN resources :
                                         PlacesWithPoints(resources[r].metrics) # {}}
                         IN  \E from \in [DOMAIN resp -> full] :
                                /\ Increases(from)
                                /\ Onto(from, full)
                                /\ \A n \in DOMAIN resp :
                                      SameWithoutEmpty(resp[n], resources[from[n]])
    BY DEF ResponseComplete
  <2>1. /\ resp = Pruned(resources) /\ ResourcesOK(resources)
        /\ NothingLost /\ WellFormed /\ li > Len(logs)
    BY DEF Returns, Exact, WellFormed
  <2>2. ASSUME NEW q \in (DOMAIN logs) \X (DOMAIN Metrics)
        PROVE  q \in Processed
    <3>1. DOMAIN logs = 1..Len(logs) /\ Len(logs) \in Nat /\ li \in Nat
      BY <2>1, StepContext, AggregationAssumption DEF WellFormed, TypeOK
    <3>2. q[1] < li
      BY <2>1, <3>1
    <3> QED
      BY <3>2 DEF Processed
  <2>3. \A q \in (DOMAIN logs) \X (DOMAIN Metrics) : Counted(q) => HasKey(resources, KeyOf(q))
    BY <2>1, <2>2 DEF NothingLost
  <2> QED
    BY <2>1, <2>3, PrunedProperties
<1> QED
  BY <1>1, ReturnsInvariant, PTL

-----------------------------------------------------------------------------
(* Where the type of an entry and the start of a point come from *)

\* An entry has the type of a metric of its name, and a point the window of
\* one.
OriginOK(entry) ==
    /\ entry.type # NoData =>
          \E k \in DOMAIN Metrics : Metrics[k].name = entry.name /\ Metrics[k].type = entry.type
    /\ \A p \in DOMAIN entry.points :
          \E k \in DOMAIN Metrics :
              /\ Metrics[k].name = entry.name
              /\ entry.points[p].start = entry.points[p].time - Metrics[k].interval

Origins(rs) == \A r \in DOMAIN rs : \A e \in DOMAIN rs[r].metrics : OriginOK(rs[r].metrics[e])

\* A line added to a point leaves its start.
LEMMA AddToKeepsStart ==
    ASSUME NEW m \in MetricsConfig, NEW l \in Lines, NEW point, PointOfType(m.type, point)
    PROVE  AddTo(point, m, l).start = point.start
<1>1. m.type \in {"Count", "Sum", "Histogram"}
  BY DEF MetricsConfig, AggregationTypes
<1>2. CASE m.type \in {"Count", "Sum"}
  <2>1. \E v : AddTo(point, m, l) = [point EXCEPT !.value = v]
    BY <1>2 DEF AddTo
  <2>2. point \in NumberPoint
    BY <1>2 DEF PointOfType
  <2> QED
    BY <2>1, <2>2 DEF NumberPoint
<1>3. CASE m.type = "Histogram"
  <2>1. AddTo(point, m, l) = AppendValueToHistogramDataPoint(point, m, m.value[l])
    BY <1>3 DEF AddTo
  <2>2. \E c, s, least, greatest, b :
           AppendValueToHistogramDataPoint(point, m, m.value[l])
              = [point EXCEPT !.count = c, !.sum = s, !.min = least, !.max = greatest,
                              !.buckets = b]
    BY Zenon DEF AppendValueToHistogramDataPoint
  <2>3. point \in HistogramPoint
    BY <1>3 DEF PointOfType
  <2> QED
    BY <2>1, <2>2, <2>3 DEF HistogramPoint
<1> QED
  BY <1>1, <1>2, <1>3

\* Update keeps the starts of the points, and a new one has the line's window.
LEMMA UpdateStarts ==
    ASSUME AggregationAssumption, NEW m \in MetricsConfig, NEW l \in Lines,
           ~ AttributesFail(m.attributes, l), ValueNeeded(m, l),
           NEW points \in Seq(NumberPoint \cup HistogramPoint),
           \A p \in DOMAIN points : PointOfType(m.type, points[p])
    PROVE  LET new == Update(points, m, l)
           IN  /\ \A p \in DOMAIN points : p \in DOMAIN new /\ new[p].start = points[p].start
               /\ \A p \in DOMAIN new : p \notin DOMAIN points =>
                     new[p].start = StartTime(m, l) /\ new[p].time = EndTime(m, l)
<1> DEFINE new == Update(points, m, l)
           M == Matching(points, m, l)
<1>1. DOMAIN points = 1..Len(points) /\ Len(points) \in Nat
  BY LenProperties
<1>2. CASE M = {}
  <2> DEFINE point == AddTo(EmptyPoint(m, l), m, l)
  <2>1. PointOfType(m.type, EmptyPoint(m, l)) /\ EmptyPoint(m, l).time = EndTime(m, l)
    BY EmptyPointProperties
  <2>2. EmptyPoint(m, l).start = StartTime(m, l)
    BY DEF EmptyPoint
  <2>3. point.start = StartTime(m, l) /\ point.time = EndTime(m, l)
    BY <2>1, <2>2, AddToKeepsStart, AddToProperties DEF SameKey
  <2>4. point \in NumberPoint \cup HistogramPoint
    BY <2>1, AddToProperties, PointOfTypeIsPoint
  <2>5. new = Append(points, point)
    BY <1>2 DEF Update
  <2> HIDE DEF new, point, M
  <2>6. /\ new \in Seq(NumberPoint \cup HistogramPoint)
        /\ Len(new) = Len(points) + 1
        /\ \A p \in 1..Len(points) : new[p] = points[p]
        /\ new[Len(points) + 1] = point
    BY <2>4, <2>5, AppendProperties
  <2>7. DOMAIN new = 1..(Len(points) + 1)
    BY <2>6, LenProperties
  <2>8. \A p \in DOMAIN points : p \in DOMAIN new /\ new[p].start = points[p].start
    BY <1>1, <2>6, <2>7
  <2>9. \A p \in DOMAIN new : p \notin DOMAIN points =>
           new[p].start = StartTime(m, l) /\ new[p].time = EndTime(m, l)
    BY <1>1, <2>3, <2>6, <2>7
  <2> QED
    BY <2>8, <2>9 DEF new
<1>3. CASE M # {}
  <2> DEFINE i == Min(M)
  <2>1. i \in M
    <3>1. M \in SUBSET Nat
      BY <1>1 DEF Matching
    <3> QED
      BY <1>3, <3>1, MinOfNats
  <2>2. i \in DOMAIN points
    BY <2>1 DEF Matching
  <2>3. AddTo(points[i], m, l).start = points[i].start
    BY <2>2, AddToKeepsStart
  <2>4. new = [points EXCEPT ![i] = AddTo(points[i], m, l)]
    BY <1>3 DEF Update
  <2> HIDE DEF new, i, M
  <2>5. /\ DOMAIN new = DOMAIN points
        /\ \A p \in DOMAIN points : new[p] = IF p = i THEN AddTo(points[i], m, l) ELSE points[p]
    BY <2>4
  <2>6. \A p \in DOMAIN points : p \in DOMAIN new /\ new[p].start = points[p].start
    BY <2>3, <2>5
  <2> QED
    BY <2>5, <2>6 DEF new
<1> QED
  BY <1>2, <1>3

\* One iteration of the loop over the metrics keeps the starts of all points
\* and the origin of all entries.
LEMMA IterationOrigins ==
    ASSUME AggregationAssumption, NEW metrics, MetricsOK(metrics),
           NEW k \in DOMAIN Metrics, Metrics[k] \in MetricsConfig, NEW l \in Lines,
           ~ Fails(Metrics[k], WithEntry(metrics, Metrics[k])[EntryIndex(metrics, Metrics[k])], l),
           \A i \in DOMAIN metrics : OriginOK(metrics[i])
    PROVE  LET m   == Metrics[k]
               e   == EntryIndex(metrics, m)
               new == [WithEntry(metrics, m) EXCEPT ![e] = aggregateMetric(m, @, l)]
           IN  /\ \A i \in DOMAIN new : OriginOK(new[i])
               /\ \A i \in DOMAIN metrics : \A p \in DOMAIN metrics[i].points :
                     /\ i \in DOMAIN new /\ p \in DOMAIN new[i].points
                     /\ new[i].points[p].start = metrics[i].points[p].start
<1> DEFINE m == Metrics[k]
           entries == WithEntry(metrics, m)
           e == EntryIndex(metrics, m)
           entry == entries[e]
           result == aggregateMetric(m, entry, l)
           new == [entries EXCEPT ![e] = aggregateMetric(m, @, l)]
<1>1. m.name \in Names
  BY DEF Names
<1>2. /\ MetricsOK(entries)
      /\ e \in DOMAIN entries /\ entry.name = m.name
      /\ \A i \in DOMAIN metrics : i \in DOMAIN entries /\ entries[i] = metrics[i]
  BY <1>1, WithEntryProperties
<1>3. \A i \in DOMAIN entries : OriginOK(entries[i])
  <2>1. CASE EntriesOf(metrics, m) = {}
    <3>1. entries = Append(metrics, NewEntry(m)) /\ metrics \in Seq(Entry)
      BY <2>1 DEF WithEntry, MetricsOK
    <3>2. /\ DOMAIN metrics = 1..Len(metrics) /\ Len(metrics) \in Nat
          /\ DOMAIN entries = 1..(Len(metrics) + 1)
          /\ \A i \in 1..Len(metrics) : entries[i] = metrics[i]
          /\ entries[Len(metrics) + 1] = NewEntry(m)
      <4> HIDE DEF entries
      <4>1. NewEntry(m) \in Entry
        BY <1>1 DEF NewEntry, Entry
      <4> QED
        BY <3>1, <4>1, AppendProperties, LenProperties
    <3>3. OriginOK(NewEntry(m))
      BY DEF OriginOK, NewEntry
    <3> HIDE DEF entries, m
    <3> QED
      BY <3>2, <3>3
  <2>2. CASE EntriesOf(metrics, m) # {}
    BY <2>2 DEF WithEntry
  <2> QED
    BY <2>1, <2>2
<1>4. /\ DOMAIN new = DOMAIN entries
      /\ \A i \in DOMAIN entries : new[i] = IF i = e THEN result ELSE entries[i]
  BY <1>2
<1>5. entry \in Entry /\ EntryOK(entry)
  <2>1. entries \in Seq(Entry) /\ EntryOK(entry)
    BY <1>2 DEF MetricsOK
  <2> HIDE DEF entries, e
  <2> QED
    BY <1>2, <2>1, ElementOfSeq, LenProperties
<1>6. /\ OriginOK(result)
      /\ \A p \in DOMAIN entry.points :
            p \in DOMAIN result.points /\ result.points[p].start = entry.points[p].start
  <2>1. CASE m.filter[l] # TRUE
    <3>1. result = entry
      BY <2>1 DEF aggregateMetric
    <3> HIDE DEF result, entry, entries, e
    <3>2. OriginOK(entry)
      BY <1>2, <1>3 DEF entry
    <3> QED
      BY <3>1, <3>2
  <2>2. CASE m.filter[l] = TRUE
    <3> DEFINE points == Update(entry.points, m, l)
    <3>1. /\ entry.type \in {NoData, m.type}
          /\ ~ AttributesFail(m.attributes, l)
          /\ m.type \in {"Sum", "Histogram"} => m.value[l] # EvalError
      BY <2>2 DEF Fails
    <3>2. ValueNeeded(m, l)
      BY <3>1 DEF MetricsConfig, AggregationTypes, ValueNeeded
    <3>3. entry.points \in Seq(NumberPoint \cup HistogramPoint)
      BY <1>5 DEF Entry
    <3>4. \A p \in DOMAIN entry.points : PointOfType(m.type, entry.points[p])
      BY <1>5, <3>1 DEF EntryOK
    <3>5. result = [entry EXCEPT !.type = m.type, !.points = points]
      BY <2>2 DEF aggregateMetric
    <3> HIDE DEF result, entry, entries, e, m, new
    <3>6. /\ \A p \in DOMAIN entry.points :
                p \in DOMAIN points /\ points[p].start = entry.points[p].start
          /\ \A p \in DOMAIN points : p \notin DOMAIN entry.points =>
                points[p].start = StartTime(m, l) /\ points[p].time = EndTime(m, l)
      BY <3>1, <3>2, <3>3, <3>4, UpdateStarts DEF m
    <3>7. \A p \in DOMAIN entry.points : SameKey(points[p], entry.points[p])
      BY <3>1, <3>2, <3>3, <3>4, UpdateProperties DEF m
    <3> HIDE DEF points
    <3>8. result.name = m.name /\ result.type = m.type /\ result.points = points
      BY <1>2, <1>5, <3>5 DEF Entry
    <3>9. OriginOK(entry)
      BY <1>2, <1>3 DEF entry
    <3>10. ASSUME NEW p \in DOMAIN points
           PROVE  \E j \in DOMAIN Metrics :
                     /\ Metrics[j].name = m.name
                     /\ points[p].start = points[p].time - Metrics[j].interval
      <4>1. CASE p \in DOMAIN entry.points
        BY <1>2, <3>6, <3>7, <3>9, <4>1 DEF OriginOK, SameKey
      <4>2. CASE p \notin DOMAIN entry.points
        <5>1. points[p].start = StartTime(m, l) /\ points[p].time = StartTime(m, l) + m.interval
          BY <3>6, <4>2 DEF EndTime
        <5>2. m \in MetricsConfig /\ StartTime(m, l) \in Int
          BY WindowType DEF m
        <5>3. m.interval \in Int
          BY <5>2 DEF MetricsConfig
        <5> QED
          BY <5>1, <5>2, <5>3 DEF m
      <4> QED
        BY <4>1, <4>2
    <3> QED
      BY <3>6, <3>8, <3>10, SMTT(40) DEF OriginOK, m
  <2> QED
    BY <2>1, <2>2
<1> HIDE DEF new, result, entry, entries, e, m
<1>7. \A i \in DOMAIN new : OriginOK(new[i])
  BY <1>3, <1>4, <1>6
<1>8. ASSUME NEW i \in DOMAIN metrics, NEW p \in DOMAIN metrics[i].points
      PROVE  /\ i \in DOMAIN new /\ p \in DOMAIN new[i].points
             /\ new[i].points[p].start = metrics[i].points[p].start
  BY <1>2, <1>4, <1>6 DEF entry
<1> QED
  BY <1>7, <1>8 DEF new, entries, e, m

-----------------------------------------------------------------------------
\* What an iteration is about, and that it keeps starts and origins
LEMMA AggregateMetricOrigins ==
    ASSUME AggregationAssumption, WellFormed, Origins(resources), AggregateMetric
    PROVE  /\ Origins(resources')
           /\ \A r \in DOMAIN resources : \A e \in DOMAIN resources[r].metrics :
                 \A p \in DOMAIN resources[r].metrics[e].points :
                    resources'[r].metrics[e].points[p].start
                       = resources[r].metrics[e].points[p].start
<1> DEFINE metrics == resources[target].metrics
           m == Metrics[mi]
           l == logs[li]
           e1 == EntryIndex(metrics, m)
           new == [WithEntry(metrics, m) EXCEPT ![e1] = aggregateMetric(m, @, l)]
<1>1. mi \in DOMAIN Metrics /\ li \in DOMAIN logs /\ target \in DOMAIN resources
  BY StepContext DEF AggregateMetric, WellFormed, TypeOK, TargetOK
<1>2. m \in MetricsConfig /\ l \in Lines /\ MetricsOK(metrics)
  BY <1>1, StepContext DEF WellFormed, ResourcesOK
<1>3. ~ Fails(m, WithEntry(metrics, m)[e1], l)
  BY DEF AggregateMetric
<1>4. \A i \in DOMAIN metrics : OriginOK(metrics[i])
  BY <1>1 DEF Origins
<1>5. /\ \A i \in DOMAIN new : OriginOK(new[i])
      /\ \A i \in DOMAIN metrics : \A p \in DOMAIN metrics[i].points :
            new[i].points[p].start = metrics[i].points[p].start
  BY <1>1, <1>2, <1>3, <1>4, IterationOrigins
<1>6. resources' = [resources EXCEPT ![target].metrics = new]
  BY DEF AggregateMetric
<1>7. resources[target] \in Resource
  BY <1>1, ElementOfSeq, LenProperties DEF WellFormed, TypeOK
<1> HIDE DEF new
<1>8. /\ DOMAIN resources' = DOMAIN resources
      /\ resources'[target].metrics = new
      /\ \A r \in DOMAIN resources : r # target => resources'[r] = resources[r]
  BY <1>1, <1>6, <1>7 DEF Resource
<1>9. Origins(resources')
  BY <1>5, <1>8 DEF Origins
<1>10. ASSUME NEW r \in DOMAIN resources, NEW e \in DOMAIN resources[r].metrics,
              NEW p \in DOMAIN resources[r].metrics[e].points
       PROVE  resources'[r].metrics[e].points[p].start = resources[r].metrics[e].points[p].start
  BY <1>5, <1>8
<1> QED
  BY <1>9, <1>10

Traced == WellFormed /\ Origins(resources)

LEMMA TracedStep ==
    ASSUME AggregationAssumption, Traced, [Next]_vars
    PROVE  Traced'
<1>1. WellFormed /\ WellFormed' /\ Origins(resources)
  BY WellFormedStep DEF Traced
<1>2. CASE AggregateMetric
  BY <1>1, <1>2, AggregateMetricOrigins DEF Traced, Origins, OriginOK
<1>3. CASE StartLine
  <2>1. /\ \A r \in DOMAIN resources : r \in DOMAIN resources' /\ resources'[r] = resources[r]
        /\ \A r \in DOMAIN resources' : r \notin DOMAIN resources =>
              resources'[r].metrics = <<>>
    BY <1>1, <1>3, StartLineEffect
  <2>2. Origins(resources')
    BY <1>1, <2>1 DEF Origins
  <2> QED
    BY <1>1, <2>2 DEF Traced, Origins, OriginOK
<1>4. CASE resources' = resources
  BY <1>1, <1>4 DEF Traced, Origins, OriginOK
<1> QED
  BY <1>2, <1>3, <1>4 DEF Next, vars, ResourceAttributesFail, AggregateMetricFail, EndLine,
     Return, Returned

\* The inductive invariant: every entry and every point goes back to a metric
LEMMA TracedInvariant == Spec => []Traced
<1>1. Init => Traced
  BY InitWellFormed, AggregationAssumption DEF Init, Traced, Origins
<1>2. Traced /\ [Next]_vars => Traced'
  BY TracedStep, AggregationAssumption
<1> QED
  BY <1>1, <1>2, PTL DEF Spec

\* Aggregate never moves a point and never changes its key or its start,
\* whatever lines follow.
THEOREM PointsStayInPlace == Spec => PointsKept
<1> DEFINE Stays ==
      \A r \in DOMAIN resources : \A e \in DOMAIN resources[r].metrics :
          \A p \in DOMAIN resources[r].metrics[e].points :
              /\ r \in DOMAIN resources'
              /\ e \in DOMAIN resources'[r].metrics
              /\ p \in DOMAIN resources'[r].metrics[e].points
              /\ KeyAt(resources', r, e, p) = KeyAt(resources, r, e, p)
              /\ resources'[r].metrics[e].points[p].start
                     = resources[r].metrics[e].points[p].start
<1>1. Traced /\ [Next]_vars => [Stays]_vars
  <2> SUFFICES ASSUME Traced, Next PROVE Stays
    OBVIOUS
  <2>1. WellFormed /\ Origins(resources)
    BY DEF Traced
  <2>2. CASE AggregateMetric
    BY <2>1, <2>2, AggregateMetricEffect, AggregateMetricOrigins, AggregationAssumption
  <2>3. CASE StartLine
    <3>1. \A r \in DOMAIN resources : r \in DOMAIN resources' /\ resources'[r] = resources[r]
      BY <2>1, <2>3, StartLineEffect, AggregationAssumption
    <3> QED
      BY <3>1 DEF KeyAt
  <2>4. CASE resources' = resources
    BY <2>4 DEF KeyAt
  <2> QED
    BY <2>2, <2>3, <2>4 DEF Next, vars, ResourceAttributesFail, AggregateMetricFail, EndLine,
       Return, Returned
<1> QED
  BY <1>1, TracedInvariant, PTL DEF Spec, PointsKept

\* A line is inside the window it is counted in.
LEMMA LineInItsWindow ==
    ASSUME AggregationAssumption, NEW m \in MetricsConfig, NEW l \in Lines
    PROVE  /\ StartTime(m, l) <= Timestamp[l]
           /\ Timestamp[l] < EndTime(m, l)
<1>1. Timestamp[l] \in Nat /\ m.interval \in Nat \ {0}
  BY DEF AggregationAssumption, MetricsConfig
<1>2. Timestamp[l] % m.interval \in 0..(m.interval - 1)
  BY <1>1
<1> QED
  BY <1>1, <1>2 DEF StartTime, EndTime

\* Every accepted line is inside the window of its point, for every interval
\* and every timestamp.
THEOREM EveryLineInWindow == Spec => []LinesInWindow
<1>1. Traced => LinesInWindow
  <2> SUFFICES
        ASSUME Traced,
               NEW r \in DOMAIN resources, NEW e \in DOMAIN resources[r].metrics,
               NEW p \in DOMAIN resources[r].metrics[e].points,
               NEW q \in Contributors(KeyAt(resources, r, e, p))
        PROVE  LET name    == resources[r].metrics[e].name
                   sharing == {k \in DOMAIN Metrics : Metrics[k].name = name}
                   point   == resources[r].metrics[e].points[p]
               IN  /\ (\A j, k \in sharing : Metrics[j].interval = Metrics[k].interval) =>
                         point.start <= Timestamp[logs[q[1]]]
                   /\ Timestamp[logs[q[1]]] < point.time
    BY DEF LinesInWindow
  <2> DEFINE m == Metrics[q[2]]
             l == logs[q[1]]
             point == resources[r].metrics[e].points[p]
  <2>1. /\ q[1] \in DOMAIN logs /\ q[2] \in DOMAIN Metrics
        /\ KeyOf(q) = KeyAt(resources, r, e, p)
    BY DEF Contributors, Processed
  <2>2. m \in MetricsConfig /\ l \in Lines
    BY <2>1, StepContext, AggregationAssumption DEF Traced
  <2>3. m.name = resources[r].metrics[e].name /\ EndTime(m, l) = point.time
    BY <2>1 DEF KeyOf, KeyAt
  <2>4. Timestamp[l] < point.time /\ StartTime(m, l) <= Timestamp[l]
    BY <2>2, <2>3, LineInItsWindow, AggregationAssumption
  <2>5. ASSUME \A j, k \in {k \in DOMAIN Metrics : Metrics[k].name = resources[r].metrics[e].name} :
                  Metrics[j].interval = Metrics[k].interval
        PROVE  point.start = StartTime(m, l)
    <3>1. PICK k \in DOMAIN Metrics :
             /\ Metrics[k].name = resources[r].metrics[e].name
             /\ point.start = point.time - Metrics[k].interval
      BY DEF Traced, Origins, OriginOK
    <3>2. Metrics[k].interval = m.interval
      BY <2>1, <2>3, <2>5, <3>1
    <3>3. StartTime(m, l) \in Int /\ m.interval \in Int
      <4>1. m.interval \in Int
        BY <2>2 DEF MetricsConfig
      <4>2. StartTime(m, l) \in Int
        BY <2>2, WindowType, AggregationAssumption
      <4> QED
        BY <4>1, <4>2
    <3>4. point.time = StartTime(m, l) + m.interval
      BY <2>3 DEF EndTime
    <3> HIDE DEF m, l, point
    <3> QED
      BY <3>1, <3>2, <3>3, <3>4
  <2> QED
    BY <2>4, <2>5
<1> QED
  BY <1>1, TracedInvariant, PTL

\* Aggregate fails only when an expression that is needed fails, or two
\* metrics of one name have different types.
THEOREM FailureHasCause == Spec => []FailsOnlyForCause
<1>1. Init => FailsOnlyForCause
  BY DEF Init, FailsOnlyForCause
<1>2. Traced /\ FailsOnlyForCause /\ [Next]_vars => FailsOnlyForCause'
  <2> SUFFICES ASSUME Traced, FailsOnlyForCause, [Next]_vars, pc' = "failed"
               PROVE  FailsOnlyForCause'
    BY DEF FailsOnlyForCause
  <2>1. CASE pc = "failed"
    <3>1. logs' = logs
      BY <2>1 DEF Next, vars, StartLine, ResourceAttributesFail, AggregateMetric,
         AggregateMetricFail, EndLine, Return, Returned
    <3> QED
      BY <2>1, <3>1 DEF FailsOnlyForCause
  <2>2. CASE ResourceAttributesFail
    <3>1. logs' = logs /\ li \in DOMAIN logs /\ AttributesFail(ResourceAttributes, logs[li])
      BY <2>2, StepContext, AggregationAssumption
         DEF ResourceAttributesFail, Traced, WellFormed, TypeOK
    <3> QED
      BY <3>1 DEF FailsOnlyForCause
  <2>3. CASE AggregateMetricFail
    <3> DEFINE m == Metrics[mi]
               l == logs[li]
               metrics == resources[target].metrics
               entry == WithEntry(metrics, m)[EntryIndex(metrics, m)]
    <3>1. /\ logs' = logs /\ mi \in DOMAIN Metrics /\ li \in DOMAIN logs
          /\ target \in DOMAIN resources /\ m \in MetricsConfig
          /\ m.name \in Names /\ MetricsOK(metrics)
      BY <2>3, StepContext, AggregationAssumption
         DEF AggregateMetricFail, Traced, WellFormed, TypeOK, TargetOK, ResourcesOK
    <3>2. Fails(m, entry, l)
      BY <2>3 DEF AggregateMetricFail
    <3>3. entry.type \notin {NoData, m.type} =>
             \E j \in DOMAIN Metrics : Metrics[j].name = m.name /\ Metrics[j].type # m.type
      <4>1. CASE EntriesOf(metrics, m) = {}
        <5>1. metrics \in Seq(Entry) /\ NewEntry(m) \in Entry
          BY <3>1 DEF MetricsOK, NewEntry, Entry
        <5>2. WithEntry(metrics, m) = Append(metrics, NewEntry(m))
          BY <4>1 DEF WithEntry
        <5>3. /\ EntryIndex(metrics, m) \in DOMAIN WithEntry(metrics, m)
              /\ entry.name = m.name
              /\ \A i \in DOMAIN WithEntry(metrics, m) :
                    i \notin DOMAIN metrics => i = EntryIndex(metrics, m)
          BY <3>1, WithEntryProperties
        <5>4. Len(metrics) + 1 = EntryIndex(metrics, m) /\ entry = NewEntry(m)
          <6>1. /\ Len(metrics) \in Nat /\ DOMAIN metrics = 1..Len(metrics)
                /\ DOMAIN WithEntry(metrics, m) = 1..(Len(metrics) + 1)
                /\ WithEntry(metrics, m)[Len(metrics) + 1] = NewEntry(m)
            BY <5>1, <5>2, AppendProperties, LenProperties
          <6>2. Len(metrics) + 1 \in DOMAIN WithEntry(metrics, m)
                   /\ Len(metrics) + 1 \notin DOMAIN metrics
            BY <6>1
          <6> QED
            BY <5>3, <6>1, <6>2
        <5> QED
          BY <5>4 DEF NewEntry
      <4>2. CASE EntriesOf(metrics, m) # {}
        <5>1. /\ EntryIndex(metrics, m) \in DOMAIN WithEntry(metrics, m)
              /\ entry.name = m.name
          BY <3>1, WithEntryProperties
        <5>2. WithEntry(metrics, m) = metrics
          BY <4>2 DEF WithEntry
        <5>3. OriginOK(entry)
          BY <3>1, <5>1, <5>2 DEF Traced, Origins
        <5> QED
          BY <5>1, <5>3 DEF OriginOK
      <4> QED
        BY <4>1, <4>2
    <3>4. \/ m.filter[l] = EvalError
          \/ /\ m.filter[l] = TRUE
             /\ \/ AttributesFail(m.attributes, l)
                \/ m.type # "Count" /\ m.value[l] = EvalError
                \/ \E j \in DOMAIN Metrics : Metrics[j].name = m.name /\ Metrics[j].type # m.type
      BY <3>2, <3>3 DEF Fails
    <3> HIDE DEF entry
    <3> QED
      BY <3>1, <3>4 DEF FailsOnlyForCause
  <2> QED
    BY <2>1, <2>2, <2>3 DEF Next, vars, StartLine, AggregateMetric, EndLine, Return, Returned
<1> QED
  BY <1>1, <1>2, TracedInvariant, PTL DEF Spec
=============================================================================
