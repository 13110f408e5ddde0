---------------------------- MODULE CommandProofs ----------------------------
(***************************************************************************)
(* Theorems about Command, and with it about Config, CEL and Unwrap: what  *)
(* Load accepts is what the rest of the program needs and computes what    *)
(* its author wrote, with the collector of --local-collector in it or not, *)
(* rendered and loaded again or not; and every S3 notification of the      *)
(* event that is handled reaches Process once and in order.                *)
(***************************************************************************)
EXTENDS Command, DataLemmas

CfgMembers == {"endpoint", "endpointURL", "tolerance", "timeTolerance", "resource", "metrics"}

MetricMembers ==
    {"name", "interval", "type", "attributes", "filter", "value", "boundaries", "aggregateInterval"}

IsMetric(m) ==
    /\ DOMAIN m = MetricMembers
    /\ m.type \in {"Count", "Sum", "Histogram"}
    /\ m.boundaries \subseteq Seq(Int)

\* What is read and what is made of it has its form.
Shaped ==
    /\ IsFile(doc)
    /\ \A c \in json : IsFile(c)
    /\ DOMAIN cfg = CfgMembers
    /\ IsList(cfg.resource) /\ IsList(cfg.metrics)
    /\ \A n \in DOMAIN cfg.metrics : IsMetric(cfg.metrics[n])
    /\ i \in Nat \ {0}

EndpointOK == cfg.endpointURL = {cfg.endpoint} /\ cfg.endpoint \in HTTP
ToleranceOK == cfg.tolerance \in DOMAIN Duration /\ cfg.timeTolerance = Duration[cfg.tolerance]
ResourceOK == \A n \in DOMAIN cfg.resource : AttributeValid(cfg.resource[n])
MetricsOK == \A n \in DOMAIN cfg.metrics : MetricUsable(cfg.metrics[n])

\* How far Validate has come
Validated ==
    /\ stage \in {"evaluate", "decode", "otel"} => i = 1
    /\ stage \in {"resource", "metrics"} \/ Accepted => EndpointOK
    /\ stage = "resource" =>
          \A n \in DOMAIN cfg.resource : n < i => AttributeValid(cfg.resource[n])
    /\ stage = "metrics" \/ Accepted => ResourceOK /\ ToleranceOK
    /\ stage = "metrics" =>
          \A n \in DOMAIN cfg.metrics : n < i => MetricUsable(cfg.metrics[n])
    /\ Accepted => MetricsOK

IInv == Shaped /\ Validated

-----------------------------------------------------------------------------
(* Lists *)

LEMMA ListProperties ==
    ASSUME NEW s, IsList(s)
    PROVE  DOMAIN s = 1..Len(s) /\ Len(s) \in Nat
  BY LenProperties DEF IsList

\* A function on the indexes of a list is a list.
LEMMA MappedList ==
    ASSUME NEW s, IsList(s), NEW t, t = [n \in DOMAIN s |-> t[n]]
    PROVE  IsList(t)
<1>1. DOMAIN s = 1..Len(s) /\ Len(s) \in Nat
  BY ListProperties
<1>2. DOMAIN t = DOMAIN s
  OBVIOUS
<1>3. t \in [1..Len(s) -> {t[n] : n \in DOMAIN t}]
  BY <1>1, <1>2
<1> QED
  BY <1>1, <1>3, SeqDef DEF IsList

\* A bound greater than the one before it is greater than all before it.
LEMMA IncreasingIsStrict ==
    ASSUME NEW b \in Seq(Int), Increasing(b),
           NEW j \in DOMAIN b, NEW k \in DOMAIN b, j < k
    PROVE  b[j] < b[k]
<1>1. DOMAIN b = 1..Len(b) /\ Len(b) \in Nat /\ \A n \in 1..Len(b) : b[n] \in Int
  BY LenProperties, ElementOfSeq
<1> DEFINE T == {n \in Nat : n > j /\ n <= Len(b) /\ ~ (b[j] < b[n])}
<1>2. T = {}
  <2> SUFFICES ASSUME T # {} PROVE FALSE
    OBVIOUS
  <2>1. PICK x \in T : \A y \in T : ~ (<<y, x>> \in OpToRel(<, Nat))
    BY NatLessThanWellFounded, WFMin
  <2>2. x \in Nat /\ x > j /\ x <= Len(b) /\ ~ (b[j] < b[x])
    OBVIOUS
  <2>3. b[x] > b[x - 1] /\ x - 1 \in 1..Len(b) /\ x \in 1..Len(b) /\ j \in 1..Len(b)
    BY <1>1, <2>2 DEF Increasing
  <2>4. x - 1 # j
    BY <1>1, <2>2, <2>3
  <2>5. ~ (b[j] < b[x - 1])
    BY <1>1, <2>2, <2>3
  <2>6. x - 1 \in T
    BY <1>1, <2>2, <2>3, <2>4, <2>5
  <2>7. (<<x - 1, x>> \in OpToRel(<, Nat)) <=> x - 1 < x
    BY <2>2, <2>3, SMTT(40) DEF OpToRel
  <2>8. ~ (x - 1 < x)
    BY <2>1, <2>6, <2>7, Zenon
  <2> QED
    BY <2>2, <2>8
<1>3. k \notin T
  BY <1>2
<1> QED
  BY <1>1, <1>3

-----------------------------------------------------------------------------
(* Decoding *)

\* ConfigJSON keeps the form of a file.
LEMMA JSONIsFile ==
    ASSUME NEW d, IsFile(d)
    PROVE  IsFile(ConfigJSON(d))
<1> DEFINE resource == AttributesJSON(d.resource)
           metrics == [n \in DOMAIN d.metrics |-> MetricJSON(d.metrics[n])]
<1>1. ConfigJSON(d).resource = resource /\ ConfigJSON(d).metrics = metrics
  BY DEF ConfigJSON
<1>2. IsList(resource)
  BY MappedList DEF IsFile, AttributesJSON
<1>3. IsList(metrics)
  BY MappedList DEF IsFile
<1>4. \A n \in DOMAIN metrics : metrics[n].boundaries = d.metrics[n].boundaries
  BY DEF MetricJSON
<1> HIDE DEF resource
<1>5. \A n \in DOMAIN metrics : metrics[n].boundaries \subseteq Seq(Int)
  BY <1>4 DEF IsFile
<1> HIDE DEF metrics
<1> QED
  BY <1>1, <1>2, <1>3, <1>5 DEF IsFile

\* A decoded metric has one of the three types.
LEMMA DecodedIsMetric ==
    ASSUME NEW m, MetricDecodes(m), m.boundaries \subseteq Seq(Int)
    PROVE  IsMetric(DecodedMetric(m))
<1> DEFINE types == {AggregationTypeString[s] : s \in m.type}
           type == IF m.type = {} THEN "Count" ELSE CHOOSE t \in types : TRUE
<1>1. DecodedMetric(m).type = type /\ DecodedMetric(m).boundaries = m.boundaries
  BY DEF DecodedMetric
<1>2. DOMAIN DecodedMetric(m) = MetricMembers
  BY DEF DecodedMetric, MetricMembers
<1>3. m.type \subseteq {"Count", "count", "Sum", "SUM", "Histogram", "histogram"}
  BY DEF MetricDecodes, AggregationTypeString
<1>4. \A s \in {"Count", "count", "Sum", "SUM", "Histogram", "histogram"} :
         AggregationTypeString[s] \in {"Count", "Sum", "Histogram"}
  BY DEF AggregationTypeString
<1>5. types \subseteq {"Count", "Sum", "Histogram"}
  BY <1>3, <1>4
<1>6. m.type # {} => types # {}
  OBVIOUS
<1> HIDE DEF types
<1>7. type \in {"Count", "Sum", "Histogram"}
  BY <1>5, <1>6
<1> QED
  BY <1>1, <1>2, <1>7 DEF IsMetric

LEMMA DecodedShape ==
    ASSUME NEW c, IsFile(c), Decodable(c)
    PROVE  LET d == DecodedConfig(c)
           IN  /\ DOMAIN d = CfgMembers /\ IsList(d.resource) /\ IsList(d.metrics)
               /\ \A n \in DOMAIN d.metrics : IsMetric(d.metrics[n])
<1> DEFINE resource == DecodedAttributes(c.resource)
           metrics == [n \in DOMAIN c.metrics |-> DecodedMetric(c.metrics[n])]
<1>1. /\ DecodedConfig(c).resource = resource /\ DecodedConfig(c).metrics = metrics
      /\ DOMAIN DecodedConfig(c) = CfgMembers
  BY DEF DecodedConfig, CfgMembers
<1>2. IsList(resource)
  BY MappedList DEF IsFile, DecodedAttributes
<1>3. IsList(metrics)
  BY MappedList DEF IsFile
<1>4. \A n \in DOMAIN metrics : IsMetric(metrics[n])
  BY DecodedIsMetric DEF IsFile, Decodable
<1> HIDE DEF resource, metrics
<1> QED
  BY <1>1, <1>2, <1>3, <1>4

\* What is printed can be read: the form is kept.
LEMMA RenderedIsFile ==
    ASSUME Shaped
    PROVE  IsFile(Rendered(cfg))
<1> DEFINE resource == RenderedAttributes(cfg.resource)
           metrics == [n \in DOMAIN cfg.metrics |-> RenderedMetric(cfg.metrics[n])]
<1>1. Rendered(cfg).resource = resource /\ Rendered(cfg).metrics = metrics
  BY DEF Rendered
<1>2. IsList(resource)
  BY MappedList DEF Shaped, RenderedAttributes
<1>3. IsList(metrics)
  BY MappedList DEF Shaped
<1>4. \A n \in DOMAIN metrics : metrics[n].boundaries = cfg.metrics[n].boundaries \ {<<>>}
  BY DEF RenderedMetric
<1> HIDE DEF resource
<1>5. \A n \in DOMAIN metrics : metrics[n].boundaries \subseteq Seq(Int)
  BY <1>4 DEF Shaped, IsMetric
<1> HIDE DEF metrics
<1> QED
  BY <1>1, <1>2, <1>3, <1>5 DEF IsFile

-----------------------------------------------------------------------------
(* Validation *)

\* A metric that is valid is usable once it has its defaults.
LEMMA ValidIsUsable ==
    ASSUME NEW m, IsMetric(m), MetricValid(m)
    PROVE  IsMetric(WithDefaults(m)) /\ MetricUsable(WithDefaults(m))
<1> DEFINE w == WithDefaults(m)
           interval == Or(m.interval, "1m")
<1>1. /\ DOMAIN w = MetricMembers
      /\ w.name = m.name /\ w.type = m.type /\ w.attributes = m.attributes /\ w.value = m.value
      /\ w.interval = interval /\ w.aggregateInterval = Duration[interval]
      /\ w.boundaries = IF m.type = "Histogram" THEN {BoundariesOf(m)} ELSE m.boundaries
  BY DEF WithDefaults, IsMetric, MetricMembers
<1>2. interval \in DOMAIN Duration /\ Duration[interval] \in Nat \ {0}
  <2>1. interval \in DOMAIN Duration /\ Duration[interval] >= Millisecond
    BY DEF MetricValid
  <2>2. Duration \in [DOMAIN Duration -> Int] /\ Millisecond \in Nat \ {0}
    BY ConfigAssumption
  <2> HIDE DEF interval
  <2>3. Duration[interval] \in Int
    BY <2>1, <2>2
  <2>4. \A x \in Int, y \in Nat \ {0} : x >= y => x \in Nat \ {0}
    OBVIOUS
  <2> QED
    BY <2>1, <2>2, <2>3, <2>4, Zenon
<1>3. BoundariesOf(m) \in Seq(Int)
  <2>1. CASE m.boundaries = {}
    BY <2>1, ConfigAssumption DEF BoundariesOf
  <2>2. CASE m.boundaries # {}
    BY <2>2 DEF BoundariesOf, IsMetric
  <2> QED
    BY <2>1, <2>2
<1> HIDE DEF w, interval
<1>4. IsMetric(w)
  BY <1>1, <1>3 DEF IsMetric
<1>5. ASSUME m.type = "Histogram", NEW j \in DOMAIN BoundariesOf(m),
             NEW k \in DOMAIN BoundariesOf(m), j < k
      PROVE  BoundariesOf(m)[j] < BoundariesOf(m)[k]
  BY <1>3, <1>5, IncreasingIsStrict DEF MetricValid
<1>6. MetricUsable(w)
  BY <1>1, <1>2, <1>5 DEF MetricUsable, MetricValid, IsMetric
<1> QED
  BY <1>4, <1>6 DEF w

\* A file that is being loaded is in its form, and nothing is promised yet.
LEMMA Unvalidated ==
    ASSUME Shaped', (stage' \in {"evaluate", "decode", "otel"} /\ i' = 1) \/ stage' = "refused"
    PROVE  IInv'
  BY DEF IInv, Validated, Accepted

\* What is accepted stays so, whatever runs on it.
LEMMA AcceptedFrame ==
    ASSUME IInv, Accepted, Accepted', UNCHANGED <<doc, json, cfg, i>>
    PROVE  IInv'
<1>1. Shaped'
  BY DEF IInv, Shaped
<1>2. EndpointOK' /\ ResourceOK' /\ ToleranceOK' /\ MetricsOK'
  BY DEF IInv, Validated, EndpointOK, ResourceOK, ToleranceOK, MetricsOK
<1>3. stage' \notin {"evaluate", "decode", "otel", "resource", "metrics"}
  BY DEF Accepted
<1> QED
  BY <1>1, <1>2, <1>3 DEF IInv, Validated

\* The endpoint is a part of its own.
LEMMA EndpointSet ==
    ASSUME Shaped, NEW c, DOMAIN c = CfgMembers, OtelValid(c),
           cfg' = WithEndpoint(c), c.resource = cfg.resource, c.metrics = cfg.metrics,
           c.tolerance = cfg.tolerance, c.timeTolerance = cfg.timeTolerance
    PROVE  /\ DOMAIN cfg' = CfgMembers
           /\ cfg'.resource = cfg.resource /\ cfg'.metrics = cfg.metrics
           /\ cfg'.tolerance = cfg.tolerance /\ cfg'.timeTolerance = cfg.timeTolerance
           /\ EndpointOK'
<1>1. /\ DOMAIN cfg' = CfgMembers
      /\ cfg'.resource = c.resource /\ cfg'.metrics = c.metrics
      /\ cfg'.tolerance = c.tolerance /\ cfg'.timeTolerance = c.timeTolerance
      /\ cfg'.endpoint = Or(c.endpoint, DefaultEndpoint)
      /\ cfg'.endpointURL = {Or(c.endpoint, DefaultEndpoint)}
  BY DEF WithEndpoint, CfgMembers
<1>2. Or(c.endpoint, DefaultEndpoint) \in HTTP
  BY DEF OtelValid
<1> QED
  BY <1>1, <1>2 DEF EndpointOK

LEMMA LoadStep ==
    ASSUME IInv, LoadNext
    PROVE  IInv'
<1>1. Shaped /\ Validated
  BY DEF IInv
<1>2. /\ DOMAIN cfg.resource = 1..Len(cfg.resource) /\ Len(cfg.resource) \in Nat
      /\ DOMAIN cfg.metrics = 1..Len(cfg.metrics) /\ Len(cfg.metrics) \in Nat
      /\ i \in Nat \ {0}
  BY <1>1, ListProperties DEF Shaped
<1>3. ASSUME UNCHANGED <<doc, json, cfg>>, i' \in Nat \ {0}
      PROVE  Shaped'
  BY <1>1, <1>3 DEF Shaped
<1>4. CASE Evaluate
  <2>1. UNCHANGED <<doc, cfg, i>>
    BY <1>4 DEF Evaluate
  <2>2. json' = json \/ json' = {ConfigJSON(doc)}
    BY <1>4 DEF Evaluate
  <2>3. \A c \in json' : IsFile(c)
    BY <1>1, <2>2, JSONIsFile DEF Shaped
  <2>4. Shaped'
    BY <1>1, <2>1, <2>3 DEF Shaped
  <2>5. i' = 1
    BY <1>1, <1>4, <2>1 DEF Evaluate, Validated
  <2>6. stage' \in {"decode", "refused"}
    BY <1>4 DEF Evaluate
  <2> QED
    BY <2>4, <2>5, <2>6, Unvalidated
<1>5. CASE Decode
  <2>1. CASE UNCHANGED cfg /\ stage' = "refused"
    BY <1>2, <1>3, <1>5, <2>1, Unvalidated DEF Decode
  <2>2. CASE ~ (UNCHANGED cfg /\ stage' = "refused")
    <3>1. PICK c \in json : Decodable(c) /\ cfg' = DecodedConfig(c) /\ stage' = "otel"
      BY <1>5, <2>2 DEF Decode
    <3>2. UNCHANGED <<doc, json, i>> /\ IsFile(c)
      BY <1>1, <1>5 DEF Decode, Shaped
    <3>3. /\ DOMAIN cfg' = CfgMembers /\ IsList(cfg'.resource) /\ IsList(cfg'.metrics)
          /\ \A n \in DOMAIN cfg'.metrics : IsMetric(cfg'.metrics[n])
      BY <3>1, <3>2, DecodedShape
    <3>4. Shaped'
      BY <1>1, <3>2, <3>3 DEF Shaped
    <3>5. i' = 1
      BY <1>1, <1>5, <3>2 DEF Decode, Validated
    <3> QED
      BY <3>1, <3>4, <3>5, Unvalidated
  <2> QED
    BY <2>1, <2>2
<1>6. CASE ValidateOtel
  <2>1. CASE ~ OtelValid(cfg)
    BY <1>2, <1>3, <1>6, <2>1, Unvalidated DEF ValidateOtel
  <2>2. CASE OtelValid(cfg)
    <3>1. cfg' = WithEndpoint(cfg) /\ stage' = "resource" /\ UNCHANGED <<doc, json, i>>
      BY <1>6, <2>2 DEF ValidateOtel
    <3>2. /\ DOMAIN cfg' = CfgMembers /\ EndpointOK'
          /\ cfg'.resource = cfg.resource /\ cfg'.metrics = cfg.metrics
      BY <1>1, <2>2, <3>1, EndpointSet DEF Shaped
    <3>3. Shaped'
      BY <1>1, <3>1, <3>2 DEF Shaped
    <3>4. i' = 1
      BY <1>1, <1>6, <3>1 DEF ValidateOtel, Validated
    <3>5. \A n \in DOMAIN cfg'.resource : ~ (n < i')
      BY <1>2, <3>2, <3>4
    <3> QED
      BY <3>1, <3>2, <3>3, <3>5 DEF IInv, Validated, Accepted
  <2> QED
    BY <2>1, <2>2
<1>7. CASE ValidateResourceAttribute
  <2>1. CASE ~ AttributeValid(cfg.resource[i])
    BY <1>2, <1>3, <1>7, <2>1, Unvalidated DEF ValidateResourceAttribute
  <2>2. CASE AttributeValid(cfg.resource[i])
    <3>1. UNCHANGED <<doc, json, cfg, stage>> /\ stage = "resource" /\ i' = i + 1
      BY <1>7, <2>2 DEF ValidateResourceAttribute
    <3>2. Shaped' /\ EndpointOK'
      BY <1>1, <1>2, <1>3, <3>1 DEF Validated, EndpointOK
    <3>3. ASSUME NEW n \in DOMAIN cfg.resource, n < i + 1
          PROVE  AttributeValid(cfg.resource[n])
      <4>1. n < i \/ n = i
        BY <1>2, <3>3
      <4> QED
        BY <1>1, <2>2, <3>1, <4>1 DEF Validated
    <3> QED
      BY <3>1, <3>2, <3>3 DEF IInv, Validated, Accepted
  <2> QED
    BY <2>1, <2>2
<1>8. CASE ValidateBackfill
  <2>1. CASE ~ BackfillValid(cfg)
    BY <1>2, <1>3, <1>8, <2>1, Unvalidated DEF ValidateBackfill
  <2>2. CASE BackfillValid(cfg)
    <3>1. /\ cfg' = WithTolerance(cfg) /\ stage' = "metrics" /\ i' = 1 /\ UNCHANGED <<doc, json>>
          /\ stage = "resource" /\ i > Len(cfg.resource)
      BY <1>8, <2>2 DEF ValidateBackfill
    <3>2. /\ DOMAIN cfg' = CfgMembers
          /\ cfg'.resource = cfg.resource /\ cfg'.metrics = cfg.metrics
          /\ cfg'.endpoint = cfg.endpoint /\ cfg'.endpointURL = cfg.endpointURL
          /\ cfg'.tolerance = Or(cfg.tolerance, "1h")
          /\ cfg'.timeTolerance = Duration[Or(cfg.tolerance, "1h")]
      BY <1>1, <3>1 DEF WithTolerance, Shaped, CfgMembers
    <3>3. Shaped'
      BY <1>1, <3>1, <3>2 DEF Shaped
    <3>4. EndpointOK' /\ ToleranceOK'
      BY <1>1, <2>2, <3>1, <3>2 DEF Validated, EndpointOK, ToleranceOK, BackfillValid
    <3>5. \A n \in DOMAIN cfg.resource : n < i
      BY <1>2, <3>1
    <3>6. ResourceOK'
      BY <1>1, <3>1, <3>2, <3>5 DEF Validated, ResourceOK
    <3>7. \A n \in DOMAIN cfg'.metrics : ~ (n < i')
      BY <1>2, <3>1, <3>2
    <3> QED
      BY <3>1, <3>3, <3>4, <3>6, <3>7 DEF IInv, Validated, Accepted
  <2> QED
    BY <2>1, <2>2
<1>9. CASE ValidateMetric
  <2>1. CASE ~ MetricValid(cfg.metrics[i])
    BY <1>2, <1>3, <1>9, <2>1, Unvalidated DEF ValidateMetric
  <2>2. CASE MetricValid(cfg.metrics[i])
    <3> DEFINE w == WithDefaults(cfg.metrics[i])
    <3>1. /\ cfg' = [cfg EXCEPT !.metrics[i] = w] /\ i' = i + 1 /\ UNCHANGED <<doc, json, stage>>
          /\ stage = "metrics" /\ i <= Len(cfg.metrics)
      BY <1>9, <2>2 DEF ValidateMetric
    <3>2. IsMetric(cfg.metrics[i]) /\ i \in DOMAIN cfg.metrics
      BY <1>1, <1>2, <3>1 DEF Shaped
    <3>3. IsMetric(w) /\ MetricUsable(w)
      BY <2>2, <3>2, ValidIsUsable
    <3> HIDE DEF w
    <3>4. /\ DOMAIN cfg' = CfgMembers
          /\ cfg'.resource = cfg.resource
          /\ cfg'.metrics = [cfg.metrics EXCEPT ![i] = w]
          /\ cfg'.endpoint = cfg.endpoint /\ cfg'.endpointURL = cfg.endpointURL
          /\ cfg'.tolerance = cfg.tolerance /\ cfg'.timeTolerance = cfg.timeTolerance
      BY <1>1, <3>1 DEF Shaped, CfgMembers
    <3>5. /\ DOMAIN cfg'.metrics = DOMAIN cfg.metrics
          /\ cfg'.metrics = [n \in DOMAIN cfg.metrics |-> cfg'.metrics[n]]
          /\ \A n \in DOMAIN cfg.metrics :
                cfg'.metrics[n] = IF n = i THEN w ELSE cfg.metrics[n]
      BY <3>4
    <3>6. IsList(cfg.metrics)
      BY <1>1 DEF Shaped
    <3>7. IsList(cfg'.metrics)
      BY <3>5, <3>6, MappedList
    <3>8. \A n \in DOMAIN cfg'.metrics : IsMetric(cfg'.metrics[n])
      BY <1>1, <3>3, <3>5 DEF Shaped
    <3>9. i' \in Nat \ {0}
      BY <1>2, <3>1
    <3>10. Shaped'
      BY <1>1, <3>1, <3>4, <3>6, <3>7, <3>8, <3>9 DEF Shaped
    <3>11. EndpointOK' /\ ToleranceOK' /\ ResourceOK'
      BY <1>1, <3>1, <3>4 DEF Validated, EndpointOK, ToleranceOK, ResourceOK
    <3>12. ASSUME NEW n \in DOMAIN cfg.metrics, n < i + 1
           PROVE  MetricUsable(cfg'.metrics[n])
      <4>1. n < i \/ n = i
        BY <1>2, <3>12
      <4> QED
        BY <1>1, <3>1, <3>3, <3>5, <4>1 DEF Validated
    <3> QED
      BY <3>1, <3>5, <3>10, <3>11, <3>12 DEF IInv, Validated, Accepted
  <2> QED
    BY <2>1, <2>2
<1>10. CASE Accept
  <2>1. /\ UNCHANGED <<doc, json, cfg, i>> /\ stage' = "accepted"
        /\ stage = "metrics" /\ i > Len(cfg.metrics)
    BY <1>10 DEF Accept
  <2>2. \A n \in DOMAIN cfg.metrics : n < i
    BY <1>2, <2>1
  <2>3. MetricsOK'
    BY <1>1, <2>1, <2>2 DEF Validated, MetricsOK
  <2>4. EndpointOK' /\ ToleranceOK' /\ ResourceOK'
    BY <1>1, <2>1 DEF Validated, EndpointOK, ToleranceOK, ResourceOK
  <2>5. Shaped'
    BY <1>2, <1>3, <2>1
  <2> QED
    BY <2>1, <2>3, <2>4, <2>5 DEF IInv, Validated
<1> QED
  BY <1>4, <1>5, <1>6, <1>7, <1>8, <1>9, <1>10 DEF LoadNext

-----------------------------------------------------------------------------
(* The command *)

LEMMA InitInv ==
    ASSUME Init
    PROVE  IInv
<1>1. IsFile(doc)
  BY CommandAssumption DEF Init
<1>2. json = {} /\ cfg = DefaultConfig /\ i = 1 /\ stage = "evaluate"
  BY DEF Init, LoadInit
<1>3. DOMAIN cfg = CfgMembers /\ cfg.resource = <<>> /\ cfg.metrics = <<>>
  BY <1>2 DEF DefaultConfig, CfgMembers
<1>4. Shaped
  BY <1>1, <1>2, <1>3 DEF Shaped, IsList
<1> QED
  BY <1>2, <1>4 DEF IInv, Validated, Accepted

LEMMA ReloadStep ==
    ASSUME IInv, LoadRendered
    PROVE  IInv'
<1>1. Shaped
  BY DEF IInv
<1>2. /\ json' = {Rendered(cfg)} /\ cfg' = DefaultConfig /\ i' = 1 /\ stage' = "decode"
      /\ doc' = doc
  BY DEF LoadRendered
<1>3. \A c \in json' : IsFile(c)
  BY <1>1, <1>2, RenderedIsFile
<1>4. DOMAIN cfg' = CfgMembers /\ cfg'.resource = <<>> /\ cfg'.metrics = <<>>
  BY <1>2 DEF DefaultConfig, CfgMembers
<1>5. IsList(<<>>)
  BY DEF IsList
<1>6. Shaped'
  BY <1>1, <1>2, <1>3, <1>4, <1>5 DEF Shaped
<1> QED
  BY <1>2, <1>6, Unvalidated

LEMMA CollectorStep ==
    ASSUME IInv, StartCollector
    PROVE  IInv'
<1> DEFINE c == [cfg EXCEPT !.endpoint = CollectorURL, !.endpointURL = {}]
<1>1. /\ Shaped /\ Validated /\ stage = "accepted" /\ stage' = "new" /\ Accepted /\ Accepted'
      /\ UNCHANGED <<doc, json, i>>
  BY DEF IInv, StartCollector, Accepted
<1>2. CASE ~ flags.local
  BY <1>1, <1>2, AcceptedFrame DEF StartCollector
<1>3. CASE flags.local
  <2>1. cfg' = WithEndpoint(c)
    BY <1>3 DEF StartCollector
  <2>2. /\ DOMAIN c = CfgMembers /\ c.endpoint = CollectorURL
        /\ c.resource = cfg.resource /\ c.metrics = cfg.metrics
        /\ c.tolerance = cfg.tolerance /\ c.timeTolerance = cfg.timeTolerance
    BY <1>1 DEF Shaped, CfgMembers
  <2> HIDE DEF c
  <2>3. OtelValid(c)
    BY <2>2, CommandAssumption, ConfigAssumption DEF OtelValid, Or
  <2>4. /\ DOMAIN cfg' = CfgMembers /\ EndpointOK'
        /\ cfg'.resource = cfg.resource /\ cfg'.metrics = cfg.metrics
        /\ cfg'.tolerance = cfg.tolerance /\ cfg'.timeTolerance = cfg.timeTolerance
    BY <1>1, <2>1, <2>2, <2>3, EndpointSet
  <2>5. Shaped'
    BY <1>1, <2>4 DEF Shaped
  <2>6. ResourceOK' /\ ToleranceOK' /\ MetricsOK'
    BY <1>1, <2>4 DEF Validated, ResourceOK, ToleranceOK, MetricsOK
  <2> QED
    BY <1>1, <2>4, <2>5, <2>6 DEF IInv, Validated
<1> QED
  BY <1>2, <1>3

LEMMA NextStep ==
    ASSUME IInv, [Next]_vars
    PROVE  IInv'
<1>1. CASE Load
  BY <1>1, LoadStep DEF Load
<1>2. CASE Reload
  BY <1>2, ReloadStep DEF Reload
<1>3. CASE StartCollector
  BY <1>3, CollectorStep
<1>4. CASE ValidateOnly \/ Render \/ New \/ RefuseURL \/ Invoke
  <2>1. UNCHANGED <<doc, json, cfg, i>> /\ Accepted /\ Accepted'
    BY <1>4 DEF ValidateOnly, Render, New, RefuseURL, Invoke, Accepted
  <2> QED
    BY <2>1, AcceptedFrame
<1>5. CASE Handle \/ Exited \/ UNCHANGED vars
  <2>1. UNCHANGED <<doc, json, cfg, i, stage>>
    BY <1>5 DEF Handle, Exited, vars, configVars
  <2> QED
    BY <2>1 DEF IInv, Shaped, Validated, EndpointOK, ToleranceOK, ResourceOK, MetricsOK, Accepted
<1> QED
  BY <1>1, <1>2, <1>3, <1>4, <1>5 DEF Next

\* For every file the command may be run with, whatever Load accepts is what
\* the exporter, the backfill and Aggregate take for granted, and it is still
\* so when it has been rendered and loaded again and when otlptest's
\* collector has taken the place of the endpoint.
THEOREM AcceptedConfigUsable == Spec => []AcceptedIsUsable
<1>1. Init => IInv
  BY InitInv
<1>2. IInv /\ [Next]_vars => IInv'
  BY NextStep
<1>3. IInv => AcceptedIsUsable
  BY DEF IInv, Validated, AcceptedIsUsable, EndpointOK, ToleranceOK, ResourceOK, MetricsOK
<1> QED
  BY <1>1, <1>2, <1>3, PTL DEF Spec

-----------------------------------------------------------------------------
(* Flattening *)

\* f[k] is what the first k sequences of q make, one after the other.
Flattens(q, f) == f = [k \in 1..Len(q) |-> IF k = 1 THEN q[k] ELSE f[k - 1] \o q[k]]

LEMMA FlattenUnfolded ==
    ASSUME NEW q, Len(q) # 0
    PROVE  Handler!FlattenSeq(q) = (CHOOSE f : Flattens(q, f))[Len(q)]
  BY DEF Handler!FlattenSeq, Flattens

LEMMA FlattensExist ==
    ASSUME NEW S, NEW q \in Seq(Seq(S))
    PROVE  \E f \in [1..Len(q) -> Seq(S)] : Flattens(q, f)
<1> DEFINE N == Len(q)
           Right(f, k) == f[k] = IF k = 1 THEN q[k] ELSE f[k - 1] \o q[k]
           Some(n) == \E f \in [1..N -> Seq(S)] : \A k \in 1..N : k <= n => Right(f, k)
           T == {n \in Nat : Some(n)}
<1>1. N \in Nat /\ \A k \in 1..N : q[k] \in Seq(S)
  BY LenProperties, ElementOfSeq
<1>2. 0 \in T
  <2>1. [k \in 1..N |-> q[k]] \in [1..N -> Seq(S)]
    BY <1>1
  <2> QED
    BY <1>1, <2>1
<1>3. ASSUME NEW n \in Nat, n \in T
      PROVE  n + 1 \in T
  <2>1. PICK f \in [1..N -> Seq(S)] : \A k \in 1..N : k <= n => Right(f, k)
    BY <1>3
  <2> DEFINE h == [k \in 1..N |-> IF k <= n THEN f[k] ELSE IF k = 1 THEN q[k] ELSE f[k - 1] \o q[k]]
  <2>2. ASSUME NEW k \in 1..N, k # 1 PROVE f[k - 1] \o q[k] \in Seq(S)
    <3>1. k - 1 \in 1..N /\ q[k] \in Seq(S)
      BY <1>1, <2>2
    <3>2. f[k - 1] \in Seq(S)
      BY <2>1, <3>1
    <3> QED
      BY <3>1, <3>2, ConcatProperties
  <2>3. h \in [1..N -> Seq(S)]
    BY <1>1, <2>1, <2>2
  <2>4. ASSUME NEW k \in 1..N, k <= n + 1 PROVE Right(h, k)
    <3>1. CASE k <= n
      <4>1. k # 1 => h[k - 1] = f[k - 1]
        BY <1>1, <3>1
      <4> QED
        BY <2>1, <3>1, <4>1
    <3>2. CASE ~ (k <= n)
      <4>1. k # 1 => h[k - 1] = f[k - 1]
        BY <1>1, <2>4
      <4> QED
        BY <3>2, <4>1
    <3> QED
      BY <3>1, <3>2
  <2> HIDE DEF h
  <2>5. Some(n + 1)
    BY <2>3, <2>4
  <2> HIDE DEF Some
  <2> QED
    BY <2>5
<1> HIDE DEF T
<1>4. N \in T
  BY <1>1, <1>2, <1>3, Induction
<1>5. PICK f \in [1..N -> Seq(S)] : \A k \in 1..N : k <= N => Right(f, k)
  BY <1>4 DEF T
<1> HIDE DEF Right
<1>6. \A k \in 1..N : Right(f, k)
  <2>1. \A k \in 1..N : k <= N
    BY <1>1
  <2> QED
    BY <1>5, <2>1
<1> QED
  BY <1>6 DEF Flattens, Right

\* Two that flatten the same agree, one sequence after the other.
LEMMA FlattensAgree ==
    ASSUME NEW q, Len(q) \in Nat, NEW f, Flattens(q, f), NEW g, Flattens(q, g)
    PROVE  \A k \in 1..Len(q) : f[k] = g[k]
<1> DEFINE T == {n \in Nat : n \in 1..Len(q) => f[n] = g[n]}
<1>1. \A k \in 1..Len(q) : /\ f[k] = IF k = 1 THEN q[k] ELSE f[k - 1] \o q[k]
                           /\ g[k] = IF k = 1 THEN q[k] ELSE g[k - 1] \o q[k]
  BY DEF Flattens
<1>2. 0 \in T
  OBVIOUS
<1>3. ASSUME NEW n \in Nat, n \in T
      PROVE  n + 1 \in T
  <2> SUFFICES ASSUME n + 1 \in 1..Len(q) PROVE f[n + 1] = g[n + 1]
    OBVIOUS
  <2>1. CASE n = 0
    BY <1>1, <2>1
  <2>2. CASE n # 0
    <3>1. n \in 1..Len(q) /\ (n + 1) - 1 = n /\ n + 1 # 1
      BY <2>2
    <3> QED
      BY <1>1, <1>3, <3>1
  <2> QED
    BY <2>1, <2>2
<1> HIDE DEF T
<1>4. \A n \in Nat : n \in T
  BY <1>2, <1>3, Induction
<1> QED
  BY <1>4 DEF T

LEMMA FlattenIs ==
    ASSUME NEW S, NEW q \in Seq(Seq(S)), q # <<>>
    PROVE  \E f \in [1..Len(q) -> Seq(S)] : Flattens(q, f) /\ Handler!FlattenSeq(q) = f[Len(q)]
<1> DEFINE c == CHOOSE f : Flattens(q, f)
<1>1. PICK f \in [1..Len(q) -> Seq(S)] : Flattens(q, f)
  BY FlattensExist
<1>2. Flattens(q, c)
  BY <1>1
<1>3. Len(q) \in Nat /\ Len(q) # 0
  BY EmptySeq, LenProperties
<1>4. Handler!FlattenSeq(q) = c[Len(q)]
  BY <1>3, FlattenUnfolded
<1> HIDE DEF c
<1>5. \A k \in 1..Len(q) : c[k] = f[k]
  BY <1>1, <1>2, <1>3, FlattensAgree
<1>6. Handler!FlattenSeq(q) = f[Len(q)]
  BY <1>3, <1>4, <1>5
<1> QED
  BY <1>1, <1>6

LEMMA FlattenNone == Handler!FlattenSeq(<<>>) = <<>>
<1>1. Len(<<>>) = 0
  BY EmptySeq
<1> QED
  BY <1>1 DEF Handler!FlattenSeq

LEMMA FlattenType ==
    ASSUME NEW S, NEW q \in Seq(Seq(S))
    PROVE  Handler!FlattenSeq(q) \in Seq(S)
<1>1. CASE q = <<>>
  BY <1>1, FlattenNone, EmptySeq
<1>2. CASE q # <<>>
  <2>1. PICK f \in [1..Len(q) -> Seq(S)] : Handler!FlattenSeq(q) = f[Len(q)]
    BY <1>2, FlattenIs
  <2>2. Len(q) \in 1..Len(q)
    BY <1>2, EmptySeq, LenProperties
  <2> QED
    BY <2>1, <2>2
<1> QED
  BY <1>1, <1>2

Associative(S) == \A a, b, c \in Seq(S) : (a \o b) \o c = a \o (b \o c)

LEMMA JoinAssociative == \A S : Associative(S)
<1> TAKE S
<1>1. \A a, b, c \in Seq(S) : (a \o b) \o c = a \o (b \o c)
  BY ConcatAssociative
<1> QED
  BY <1>1 DEF Associative

\* With g what the sequences after the first make, f is the first before it.
LEMMA FlattenShifted ==
    ASSUME NEW S, NEW q \in Seq(Seq(S)), q # <<>>
    PROVE  \A f, g : Flattens(q, f) /\ Flattens(Tail(q), g) /\ g \in [1..Len(Tail(q)) -> Seq(S)]
                => \A n \in 1..(Len(q) - 1) : f[n + 1] = q[1] \o g[n]
<1>0. \A a, b, c \in Seq(S) : (a \o b) \o c = a \o (b \o c)
  <2>1. Associative(S)
    BY JoinAssociative
  <2> QED
    BY <2>1 DEF Associative
<1> SUFFICES ASSUME NEW f, Flattens(q, f), NEW g \in [1..Len(Tail(q)) -> Seq(S)], Flattens(Tail(q), g)
             PROVE  \A n \in 1..(Len(q) - 1) : f[n + 1] = q[1] \o g[n]
  OBVIOUS
<1> DEFINE N == Len(q)
           t == Tail(q)
           Join(a, b) == a \o b
           Is(n) == f[n + 1] = Join(q[1], g[n])
           T == {n \in Nat : n \in 1..(N - 1) => Is(n)}
<1>1. \A a, b, c \in Seq(S) : Join(Join(a, b), c) = Join(a, Join(b, c))
  BY <1>0
<1>2. \A k \in 1..N : f[k] = IF k = 1 THEN q[k] ELSE Join(f[k - 1], q[k])
  BY DEF Flattens
<1>3. N \in Nat \ {0} /\ \A k \in 1..N : q[k] \in Seq(S)
  BY EmptySeq, LenProperties, ElementOfSeq
<1>4. Len(t) = N - 1 /\ \A k \in 1..(N - 1) : t[k] = q[k + 1] /\ g[k] \in Seq(S)
  BY HeadTailProperties
<1>5. \A k \in 1..(N - 1) : g[k] = IF k = 1 THEN q[k + 1] ELSE Join(g[k - 1], q[k + 1])
  <2>1. \A k \in 1..Len(t) : g[k] = IF k = 1 THEN t[k] ELSE Join(g[k - 1], t[k])
    BY DEF Flattens
  <2> HIDE DEF N, t, Join
  <2> QED
    BY <1>4, <2>1
<1> HIDE DEF N, t, Join
<1>6. 0 \in T
  BY <1>3
<1>7. ASSUME NEW n \in Nat, n \in 1..(N - 1) => Is(n), n + 1 \in 1..(N - 1)
      PROVE  Is(n + 1)
  <2>1. n + 2 \in 1..N /\ n + 2 # 1 /\ (n + 2) - 1 = n + 1 /\ (n + 1) + 1 = n + 2 /\ n + 1 \in 1..N
    BY <1>7, <1>3
  <2>2. f[n + 2] = Join(f[n + 1], q[n + 2])
    BY <1>2, <2>1
  <2>3. g[n + 1] = IF n + 1 = 1 THEN q[n + 2] ELSE Join(g[n], q[n + 2])
    <3>1. (n + 1) - 1 = n
      OBVIOUS
    <3> QED
      BY <1>5, <1>7, <2>1, <3>1
  <2>4. CASE n = 0
    <3>1. 1 \in 1..N
      BY <1>3
    <3>2. f[1] = q[1]
      BY <1>2, <3>1
    <3>3. f[2] = Join(f[1], q[2]) /\ g[1] = q[2]
      BY <2>2, <2>3, <2>4
    <3> QED
      BY <2>4, <3>2, <3>3
  <2>5. CASE n # 0
    <3>1. n \in 1..(N - 1) /\ n + 1 # 1
      BY <1>7, <1>3, <2>5
    <3>2. f[n + 1] = Join(q[1], g[n])
      BY <1>7, <3>1
    <3>3. q[1] \in Seq(S) /\ q[n + 2] \in Seq(S)
      BY <1>3, <2>1
    <3>4. g[n] \in Seq(S)
      BY <1>4, <3>1
    <3>5. Join(Join(q[1], g[n]), q[n + 2]) = Join(q[1], Join(g[n], q[n + 2]))
      BY <1>1, <3>3, <3>4, Zenon
    <3>6. f[n + 2] = Join(Join(q[1], g[n]), q[n + 2]) /\ g[n + 1] = Join(g[n], q[n + 2])
      BY <2>2, <2>3, <3>1, <3>2
    <3> QED
      BY <2>1, <3>5, <3>6
  <2> QED
    BY <2>4, <2>5
<1> HIDE DEF Is
<1>8. ASSUME NEW n \in Nat, n \in T
      PROVE  n + 1 \in T
  <2>1. n \in 1..(N - 1) => Is(n)
    BY <1>8
  <2>2. n + 1 \in 1..(N - 1) => Is(n + 1)
    BY <1>7, <2>1
  <2> QED
    BY <2>2
<1> HIDE DEF T
<1>9. \A n \in Nat : n \in T
  BY <1>6, <1>8, Induction
<1>10. \A n \in 1..(N - 1) : Is(n)
  BY <1>9 DEF T
<1> QED
  BY <1>10 DEF Is, Join, N

\* Flattening puts the first sequence before the others, flattened.
LEMMA FlattenHead ==
    ASSUME NEW S, NEW q \in Seq(Seq(S)), q # <<>>
    PROVE  Handler!FlattenSeq(q) = Head(q) \o Handler!FlattenSeq(Tail(q))
<1> DEFINE t == Tail(q)
           N == Len(q)
<1>1. N \in Nat \ {0} /\ Head(q) = q[1]
  BY EmptySeq, LenProperties, HeadTailProperties
<1>2. \A k \in 1..N : q[k] \in Seq(S)
  BY ElementOfSeq
<1>3. t \in Seq(Seq(S)) /\ Len(t) = N - 1 /\ \A k \in 1..(N - 1) : t[k] = q[k + 1]
  BY HeadTailProperties
<1>4. PICK f \in [1..N -> Seq(S)] : Flattens(q, f) /\ Handler!FlattenSeq(q) = f[N]
  BY FlattenIs
<1>5. \A k \in 1..N : f[k] = IF k = 1 THEN q[k] ELSE f[k - 1] \o q[k]
  BY <1>4 DEF Flattens
<1> HIDE DEF t, N
<1>6. CASE t = <<>>
  <2>1. N = 1
    BY <1>1, <1>3, <1>6, EmptySeq
  <2>2. f[1] = q[1] /\ q[1] \in Seq(S)
    BY <1>2, <1>5, <2>1
  <2>3. q[1] \o <<>> = q[1]
    BY <2>2, ConcatEmptySeq
  <2> QED
    BY <1>1, <1>4, <1>6, <2>1, <2>2, <2>3, FlattenNone DEF t
<1>7. CASE t # <<>>
  <2>1. PICK g \in [1..Len(t) -> Seq(S)] : Flattens(t, g) /\ Handler!FlattenSeq(t) = g[Len(t)]
    BY <1>3, <1>7, FlattenIs
  <2>2. \A n \in 1..(N - 1) : f[n + 1] = q[1] \o g[n]
    <3>1. Flattens(Tail(q), g) /\ g \in [1..Len(Tail(q)) -> Seq(S)] /\ Flattens(q, f)
      BY <1>4, <2>1 DEF t
    <3> HIDE DEF Flattens
    <3>2. \A a, b : Flattens(q, a) /\ Flattens(Tail(q), b) /\ b \in [1..Len(Tail(q)) -> Seq(S)]
                      => \A n \in 1..(Len(q) - 1) : a[n + 1] = q[1] \o b[n]
      BY FlattenShifted
    <3>3. \A n \in 1..(Len(q) - 1) : f[n + 1] = q[1] \o g[n]
      BY <3>1, <3>2, Zenon
    <3> QED
      BY <3>3 DEF N
  <2>3. N - 1 \in 1..(N - 1) /\ (N - 1) + 1 = N
    <3>1. N - 1 # 0
      BY <1>3, <1>7, EmptySeq
    <3> QED
      BY <1>1, <3>1
  <2>4. f[N] = q[1] \o g[N - 1]
    BY <2>2, <2>3
  <2> QED
    BY <1>1, <1>3, <1>4, <2>1, <2>4 DEF t
<1> QED
  BY <1>6, <1>7

-----------------------------------------------------------------------------
(* What the documents of a sequence have, one after the other *)

\* f gives what each document has.
Joined(f, q) == Handler!FlattenSeq([k \in DOMAIN q |-> f[q[k]]])

LEMMA FunctionIsSeq ==
    ASSUME NEW S, NEW n \in Nat
    PROVE  \A s \in [1..n -> S] : s \in Seq(S)
  BY SeqDef

LEMMA MappedSeq ==
    ASSUME NEW D, NEW S, NEW f \in [D -> Seq(S)], NEW q \in Seq(D)
    PROVE  [k \in DOMAIN q |-> f[q[k]]] \in Seq(Seq(S))
<1> DEFINE m == [k \in DOMAIN q |-> f[q[k]]]
<1>1. DOMAIN q = 1..Len(q) /\ Len(q) \in Nat
  BY LenProperties
<1>2. \A k \in 1..Len(q) : q[k] \in D
  BY ElementOfSeq
<1>3. m \in [1..Len(q) -> Seq(S)]
  BY <1>1, <1>2
<1> DEFINE R == Seq(S)
<1> HIDE DEF m, R
<1>4. m \in Seq(R)
  <2>1. m \in [1..Len(q) -> R]
    BY <1>3 DEF R
  <2> QED
    BY <1>1, <2>1, FunctionIsSeq
<1> QED
  BY <1>4 DEF m, R

\* Its length is what it is a function on.
LEMMA LenOfSeq ==
    ASSUME NEW S, NEW n \in Nat
    PROVE  \A s \in Seq(S) : DOMAIN s = 1..n => Len(s) = n
<1> SUFFICES ASSUME NEW s \in Seq(S), DOMAIN s = 1..n PROVE Len(s) = n
  OBVIOUS
<1>1. Len(s) \in Nat /\ 1..Len(s) = 1..n
  BY LenProperties
<1>2. \A k \in Int : k \in 1..Len(s) <=> k \in 1..n
  BY <1>1
<1> DEFINE l == Len(s)
<1> HIDE DEF l
<1>3. l \in Nat /\ \A k \in Int : (1 <= k /\ k <= l) <=> (1 <= k /\ k <= n)
  BY <1>1, <1>2 DEF l
<1>4. (1 <= n => n <= l) /\ (1 <= l => l <= n)
  BY <1>3
<1>5. l = n
  BY <1>3, <1>4
<1> QED
  BY <1>5 DEF l

LEMMA JoinedType ==
    ASSUME NEW D, NEW S, NEW f \in [D -> Seq(S)], NEW q \in Seq(D)
    PROVE  Joined(f, q) \in Seq(S)
<1> DEFINE m == [k \in DOMAIN q |-> f[q[k]]]
<1>1. m \in Seq(Seq(S))
  BY MappedSeq
<1> HIDE DEF m
<1>2. Handler!FlattenSeq(m) \in Seq(S)
  BY <1>1, FlattenType
<1> QED
  BY <1>2 DEF Joined, m

LEMMA JoinedNone ==
    ASSUME NEW f
    PROVE  Joined(f, <<>>) = <<>>
<1>1. [k \in DOMAIN <<>> |-> f[<<>>[k]]] = <<>>
  OBVIOUS
<1> QED
  BY <1>1, FlattenNone DEF Joined

\* The first document's come first.
LEMMA JoinedHead ==
    ASSUME NEW D, NEW S, NEW f \in [D -> Seq(S)], NEW q \in Seq(D), q # <<>>
    PROVE  Joined(f, q) = f[Head(q)] \o Joined(f, Tail(q))
<1> DEFINE m == [k \in DOMAIN q |-> f[q[k]]]
           n == [k \in DOMAIN Tail(q) |-> f[Tail(q)[k]]]
<1>1. /\ DOMAIN q = 1..Len(q) /\ Len(q) \in Nat \ {0} /\ Head(q) = q[1]
      /\ Tail(q) \in Seq(D) /\ Len(Tail(q)) = Len(q) - 1
      /\ \A k \in 1..(Len(q) - 1) : Tail(q)[k] = q[k + 1]
  BY EmptySeq, LenProperties, HeadTailProperties
<1>2. m \in Seq(Seq(S)) /\ n \in Seq(Seq(S))
  BY <1>1, MappedSeq
<1>3. DOMAIN Tail(q) = 1..(Len(q) - 1)
  BY <1>1, LenProperties
<1>4. Len(m) = Len(q) /\ Len(n) = Len(q) - 1
  <2>1. DOMAIN m = 1..Len(q) /\ DOMAIN n = 1..(Len(q) - 1)
    BY <1>1, <1>3
  <2> HIDE DEF m, n
  <2>2. Len(q) \in Nat /\ Len(q) - 1 \in Nat
    BY <1>1
  <2> DEFINE R == Seq(S)
  <2>3. m \in Seq(R) /\ n \in Seq(R)
    BY <1>2
  <2> HIDE DEF R
  <2> QED
    BY <2>1, <2>2, <2>3, LenOfSeq
<1>5. m[1] = f[Head(q)]
  BY <1>1
<1>6. \A k \in 1..(Len(q) - 1) : n[k] = m[k + 1]
  BY <1>1, <1>3
<1> HIDE DEF m, n
<1>7. m # <<>>
  BY <1>1, <1>4, EmptySeq
<1>8. Head(m) = m[1] /\ Tail(m) \in Seq(Seq(S)) /\ Len(Tail(m)) = Len(m) - 1
      /\ \A k \in 1..Len(Tail(m)) : Tail(m)[k] = m[k + 1]
  BY <1>2, <1>7, HeadTailProperties
<1>9. Tail(m) = n
  <2> DEFINE R == Seq(S)
  <2>1. Tail(m) \in Seq(R) /\ n \in Seq(R)
    BY <1>2, <1>8
  <2>2. Len(Tail(m)) = Len(n) /\ \A k \in 1..Len(Tail(m)) : Tail(m)[k] = n[k]
    BY <1>4, <1>6, <1>8
  <2> HIDE DEF R
  <2> QED
    BY <2>1, <2>2, SeqEqual
<1>10. Handler!FlattenSeq(m) = Head(m) \o Handler!FlattenSeq(Tail(m))
  BY <1>2, <1>7, FlattenHead
<1> QED
  BY <1>5, <1>8, <1>9, <1>10 DEF Joined, m, n

\* Of one document only
LEMMA JoinedOne ==
    ASSUME NEW D, NEW S, NEW f \in [D -> Seq(S)], NEW d \in D
    PROVE  Joined(f, <<d>>) = f[d]
<1>1. <<d>> \in Seq(D) /\ <<d>> # <<>> /\ Head(<<d>>) = d /\ Tail(<<d>>) = <<>>
  OBVIOUS
<1>2. Joined(f, <<d>>) = f[d] \o Joined(f, <<>>)
  BY <1>1, JoinedHead
<1>3. f[d] \in Seq(S)
  OBVIOUS
<1>4. f[d] \o <<>> = f[d]
  BY <1>3, ConcatEmptySeq
<1> QED
  BY <1>2, <1>4, JoinedNone

-----------------------------------------------------------------------------
(* Unwrapping *)

RecordSet(d) == {d.records[k] : k \in DOMAIN d.records}

LEMMA DocumentRecords ==
    ASSUME NEW d, Handler!IsDocument(d)
    PROVE  /\ d.records \in Seq(RecordSet(d))
           /\ DOMAIN d.records = 1..Len(d.records) /\ Len(d.records) \in Nat
           /\ d.records # <<>> => Len(d.records) # 0
<1>1. d.records \in Seq(RecordSet(d))
  BY DEF Handler!IsDocument, Handler!Range, RecordSet
<1> QED
  BY <1>1, LenProperties, EmptySeq

\* The only document of a message is in it.
LEMMA MessageBody ==
    ASSUME NEW d, Handler!IsDocument(d), d.form \in {"message", "entity"}
    PROVE  d.body = <<d.body[1]>> /\ d.body[1] \in Handler!Inner(d) /\ d.records = <<>>
<1>1. d.body = <<d.body[1]>> /\ d.records = <<>>
  BY DEF Handler!IsDocument
<1>2. DOMAIN d.body = {1}
  BY <1>1
<1> QED
  BY <1>1, <1>2 DEF Handler!Inner

\* A batch of one source is yielded as it is, and any other whole, when it
\* has not begun with that source.
LEMMA OwnBatch ==
    ASSUME NEW d, NEW source, Handler!From(d, source)
    PROVE  Handler!UnwrapRecords(d, source) = Handler!Bodies(d.records)
  BY DEF Handler!From, Handler!UnwrapRecords

LEMMA LeastForeign ==
    ASSUME NEW d, Handler!IsDocument(d), NEW source, Handler!ForeignIn(d.records, source) # {}
    PROVE  LET foreign == Handler!ForeignIn(d.records, source)
           IN  /\ Handler!Min(foreign) \in foreign
               /\ \A k \in foreign : Handler!Min(foreign) <= k
<1> DEFINE foreign == Handler!ForeignIn(d.records, source)
<1>1. foreign \in SUBSET Nat
  BY DocumentRecords DEF Handler!ForeignIn
<1> HIDE DEF foreign
<1>2. Min(foreign) \in foreign /\ \A k \in foreign : Min(foreign) <= k
  BY <1>1, MinOfNats DEF foreign
<1>3. Handler!Min(foreign) = Min(foreign)
  BY DEF Handler!Min, Min
<1> QED
  BY <1>2, <1>3 DEF foreign

LEMMA OtherBatch ==
    ASSUME NEW d, Handler!IsDocument(d), NEW source, NEW other, other # source, Handler!From(d, other)
    PROVE  Handler!UnwrapRecords(d, source) = <<d>>
<1> DEFINE foreign == Handler!ForeignIn(d.records, source)
<1>1. d.records # <<>> /\ \A k \in DOMAIN d.records : d.records[k].source = other
  BY DEF Handler!From, Handler!ForeignIn
<1>2. foreign = DOMAIN d.records
  BY <1>1 DEF Handler!ForeignIn
<1>3. 1 \in foreign
  BY <1>1, <1>2, DocumentRecords
<1>4. Handler!Min(foreign) \in foreign /\ Handler!Min(foreign) <= 1
  BY <1>3, LeastForeign
<1>5. Handler!Min(foreign) = 1
  <2>1. Handler!Min(foreign) \in 1..Len(d.records)
    BY <1>2, <1>4, DocumentRecords
  <2> QED
    BY <1>4, <2>1, DocumentRecords
<1>6. SubSeq(Handler!Bodies(d.records), 1, 1 - 1) = <<>>
  BY SubSeqEmpty
<1>7. Append(<<>>, d) = <<d>>
  OBVIOUS
<1> HIDE DEF foreign
<1>8. foreign # {}
  BY <1>3
<1> QED
  BY <1>5, <1>6, <1>7, <1>8 DEF Handler!UnwrapRecords, foreign

\* What is taken out of a document is in it, or is the document itself.
LEMMA UnwrapRecordsType ==
    ASSUME NEW d, Handler!IsDocument(d), NEW source \in {"aws:sqs", "aws:sns"}
    PROVE  Handler!UnwrapRecords(d, source) \in Seq({d} \cup Handler!Inner(d))
<1> DEFINE foreign == Handler!ForeignIn(d.records, source)
           bodies == Handler!Bodies(d.records)
           D == {d} \cup Handler!Inner(d)
           N == Len(d.records)
<1>1. DOMAIN d.records = 1..N /\ N \in Nat
  BY DocumentRecords
<1>2. DOMAIN bodies = 1..N /\ \A k \in 1..N : k \notin foreign => bodies[k] \in D
  BY <1>1 DEF Handler!Bodies, Handler!ForeignIn, Handler!Inner
<1>3. CASE foreign = {}
  <2>1. bodies \in [1..N -> D]
    <3>1. bodies = [k \in 1..N |-> bodies[k]]
      BY <1>1 DEF Handler!Bodies
    <3> QED
      BY <1>2, <1>3, <3>1
  <2> HIDE DEF bodies, D, N
  <2>2. bodies \in Seq(D)
    BY <1>1, <2>1, FunctionIsSeq
  <2> QED
    BY <1>3, <2>2 DEF Handler!UnwrapRecords, bodies, D
<1>4. CASE foreign # {}
  <2> DEFINE m == Handler!Min(foreign)
             s == SubSeq(bodies, 1, m - 1)
  <2>1. m \in foreign /\ \A k \in foreign : m <= k
    BY <1>4, LeastForeign
  <2>2. m \in 1..N
    BY <1>1, <2>1 DEF Handler!ForeignIn
  <2> HIDE DEF m, N
  <2>3. m - 1 \in Nat /\ \A k \in 1..(m - 1) : k \in 1..N /\ k \notin foreign
    <3>1. m \in Nat /\ m >= 1 /\ m <= N
      BY <1>1, <2>2
    <3> QED
      BY <1>1, <2>1, <3>1
  <2> HIDE DEF foreign, bodies, D
  <2>4. \A k \in 1..(m - 1) : bodies[k] \in D
    BY <1>2, <2>3
  <2>5. s = [k \in 1..(m - 1) |-> bodies[k]]
    BY <2>3
  <2>6. s \in [1..(m - 1) -> D]
    BY <2>4, <2>5
  <2> HIDE DEF s
  <2>7. s \in Seq(D)
    BY <2>3, <2>6, FunctionIsSeq
  <2>8. Append(s, d) \in Seq(D)
    <3>1. d \in D
      BY DEF D
    <3> QED
      BY <2>7, <3>1, AppendProperties
  <2> QED
    BY <1>4, <2>8 DEF Handler!UnwrapRecords, s, m, foreign, bodies, D
<1> QED
  BY <1>3, <1>4

LEMMA OneIsSeq ==
    ASSUME NEW S
    PROVE  \A x \in S : <<x>> \in Seq(S)
  OBVIOUS

LEMMA UnwrapType ==
    ASSUME NEW d, Handler!IsDocument(d)
    PROVE  /\ Handler!UnwrapSQS(d) \in Seq({d} \cup Handler!Inner(d))
           /\ Handler!UnwrapSNS(d) \in Seq({d} \cup Handler!Inner(d))
<1> DEFINE D == {d} \cup Handler!Inner(d)
<1>1. <<d>> \in Seq(D)
  <2>1. d \in D
    OBVIOUS
  <2> QED
    BY <2>1, OneIsSeq
<1>2. d.form \in {"message", "entity"} => d.body \in Seq(D)
  <2> SUFFICES ASSUME d.form \in {"message", "entity"} PROVE d.body \in Seq(D)
    OBVIOUS
  <2>1. d.body = <<d.body[1]>> /\ d.body[1] \in D
    BY MessageBody
  <2> HIDE DEF D
  <2>2. \A x \in D : <<x>> \in Seq(D)
    BY OneIsSeq
  <2> QED
    BY <2>1, <2>2, Zenon
<1>3. Handler!UnwrapRecords(d, "aws:sqs") \in Seq(D) /\ Handler!UnwrapRecords(d, "aws:sns") \in Seq(D)
  BY UnwrapRecordsType
<1> HIDE DEF D
<1>4. Handler!UnwrapSQS(d) \in Seq(D)
  BY <1>1, <1>2, <1>3 DEF Handler!UnwrapSQS
<1>5. Handler!UnwrapSNS(d) \in Seq(D)
  BY <1>1, <1>2, <1>3 DEF Handler!UnwrapSNS
<1> QED
  BY <1>4, <1>5 DEF D

\* The event and what its SQS envelope carries, what an SNS envelope of these
\* carries, and the records of these
Outer(e) == {e} \cup Handler!Inner(e)
Documents(e) == UNION {{x} \cup Handler!Inner(x) : x \in Outer(e)}
Records(e) == UNION {RecordSet(x) : x \in Documents(e)}

RecordsOf(e) == [x \in Documents(e) |-> x.records]
Unwrapped(e) == [x \in Outer(e) |-> Joined(RecordsOf(e), Handler!UnwrapSNS(x))]

LEMMA EventDocuments ==
    ASSUME NEW e, Handler!IsEvent(e)
    PROVE  /\ \A x \in Documents(e) : Handler!IsDocument(x)
           /\ \A x \in Outer(e) : Handler!IsDocument(x) /\ {x} \cup Handler!Inner(x) \subseteq Documents(e)
  BY DEF Handler!IsEvent, Documents, Outer

LEMMA SeqOfMore ==
    ASSUME NEW S, NEW T, S \subseteq T
    PROVE  \A s \in Seq(S) : s \in Seq(T)
<1> SUFFICES ASSUME NEW s \in Seq(S) PROVE s \in Seq(T)
  OBVIOUS
<1>1. Len(s) \in Nat /\ s \in [1..Len(s) -> S]
  BY LenProperties
<1>2. s \in [1..Len(s) -> T]
  BY <1>1
<1> QED
  BY <1>1, <1>2, FunctionIsSeq

LEMMA RecordsOfType ==
    ASSUME NEW e, Handler!IsEvent(e)
    PROVE  RecordsOf(e) \in [Documents(e) -> Seq(Records(e))]
<1>1. ASSUME NEW x \in Documents(e) PROVE x.records \in Seq(Records(e))
  <2>1. x.records \in Seq(RecordSet(x))
    BY EventDocuments, DocumentRecords
  <2>2. RecordSet(x) \subseteq Records(e)
    BY DEF Records
  <2> QED
    BY <2>1, <2>2, SeqOfMore
<1> QED
  BY <1>1 DEF RecordsOf

LEMMA UnwrapsIn ==
    ASSUME NEW e, Handler!IsEvent(e)
    PROVE  /\ Handler!UnwrapSQS(e) \in Seq(Outer(e))
           /\ \A x \in Outer(e) : Handler!UnwrapSNS(x) \in Seq(Documents(e))
<1>1. Handler!UnwrapSQS(e) \in Seq(Outer(e))
  BY UnwrapType DEF Outer, Handler!IsEvent
<1>2. ASSUME NEW x \in Outer(e) PROVE Handler!UnwrapSNS(x) \in Seq(Documents(e))
  <2> DEFINE D == {x} \cup Handler!Inner(x)
  <2>1. D \subseteq Documents(e) /\ Handler!IsDocument(x)
    BY EventDocuments
  <2>2. Handler!UnwrapSNS(x) \in Seq(D)
    BY <2>1, UnwrapType
  <2> HIDE DEF D
  <2> QED
    BY <2>1, <2>2, SeqOfMore
<1> QED
  BY <1>1, <1>2

LEMMA UnwrappedType ==
    ASSUME NEW e, Handler!IsEvent(e)
    PROVE  Unwrapped(e) \in [Outer(e) -> Seq(Records(e))]
<1>1. ASSUME NEW x \in Outer(e) PROVE Joined(RecordsOf(e), Handler!UnwrapSNS(x)) \in Seq(Records(e))
  <2>1. Handler!UnwrapSNS(x) \in Seq(Documents(e)) /\ RecordsOf(e) \in [Documents(e) -> Seq(Records(e))]
    BY UnwrapsIn, RecordsOfType
  <2> QED
    BY <2>1, JoinedType
<1> QED
  BY <1>1 DEF Unwrapped

\* A document that is its own yield has its own records.
LEMMA OwnRecords ==
    ASSUME NEW e, Handler!IsEvent(e), NEW x \in Outer(e), NEW y \in {x} \cup Handler!Inner(x),
           Handler!UnwrapSNS(x) = <<y>>
    PROVE  Unwrapped(e)[x] = y.records
<1>1. y \in Documents(e)
  BY EventDocuments
<1>2. Joined(RecordsOf(e), <<y>>) = RecordsOf(e)[y]
  BY <1>1, RecordsOfType, JoinedOne
<1> QED
  BY <1>1, <1>2 DEF Unwrapped, RecordsOf

\* What is collected from what may be in an SNS envelope
LEMMA TopicMeaning ==
    ASSUME NEW e, Handler!IsEvent(e), NEW x \in Outer(e), Handler!TopicOK(x)
    PROVE  Unwrapped(e)[x] = Handler!InTopic(x)
<1>1. Handler!IsDocument(x)
  BY EventDocuments
<1>2. CASE Handler!DirectOK(x)
  <2>1. CASE Handler!From(x, "aws:s3")
    <3>1. x.records # <<>>
      BY <2>1 DEF Handler!From
    <3>2. Handler!UnwrapSNS(x) = <<x>>
      BY <1>1, <2>1, <3>1, OtherBatch DEF Handler!UnwrapSNS
    <3> QED
      BY <1>2, <3>2, OwnRecords DEF Handler!InTopic
  <2>2. CASE x.form \in {"object", "text"}
    <3>1. x.records = <<>>
      BY <1>1, <2>2 DEF Handler!IsDocument
    <3>2. Handler!UnwrapSNS(x) = <<x>>
      BY <2>2, <3>1 DEF Handler!UnwrapSNS
    <3> QED
      BY <1>2, <3>2, OwnRecords DEF Handler!InTopic
  <2> QED
    BY <1>2, <2>1, <2>2 DEF Handler!DirectOK
<1>3. CASE ~ Handler!DirectOK(x) /\ (x.form = "entity" \/ (x.form = "message" /\ x.source = "aws:sns"))
  <2>1. x.body = <<x.body[1]>> /\ x.body[1] \in Handler!Inner(x) /\ x.records = <<>>
    BY <1>1, <1>3, MessageBody
  <2>2. Handler!UnwrapSNS(x) = x.body
    BY <1>3, <2>1 DEF Handler!UnwrapSNS
  <2> DEFINE y == x.body[1]
  <2>3. Handler!UnwrapSNS(x) = <<y>> /\ y \in {x} \cup Handler!Inner(x)
    BY <2>1, <2>2
  <2> HIDE DEF y
  <2>4. Unwrapped(e)[x] = y.records
    BY <2>3, OwnRecords
  <2> QED
    BY <1>3, <2>1, <2>4 DEF Handler!InTopic, y
<1>4. CASE ~ Handler!DirectOK(x) /\ Handler!From(x, "aws:sns")
  <2>1. x.records # <<>> /\ Handler!UnwrapSNS(x) = Handler!Bodies(x.records)
    BY <1>4, OwnBatch DEF Handler!From, Handler!UnwrapSNS
  <2> DEFINE rs == x.records
             q == Handler!Bodies(rs)
  <2>2. DOMAIN q = DOMAIN rs /\ \A k \in DOMAIN rs : q[k] = rs[k].body
    BY DEF Handler!Bodies
  <2>3. \A k \in DOMAIN rs : rs[k].body \in Documents(e)
    <3>1. \A k \in DOMAIN rs : rs[k].body \in Handler!Inner(x)
      BY <1>4 DEF Handler!From, Handler!ForeignIn, Handler!Inner
    <3> QED
      BY <3>1, EventDocuments
  <2> HIDE DEF rs, q
  <2>4. [k \in DOMAIN q |-> RecordsOf(e)[q[k]]] = [k \in DOMAIN rs |-> rs[k].body.records]
    BY <2>2, <2>3 DEF RecordsOf
  <2>5. Unwrapped(e)[x] = Handler!FlattenSeq([k \in DOMAIN rs |-> rs[k].body.records])
    BY <2>1, <2>4 DEF Unwrapped, Joined, q, rs
  <2> QED
    BY <1>4, <2>1, <2>5 DEF Handler!InTopic, rs
<1> QED
  BY <1>2, <1>3, <1>4 DEF Handler!TopicOK

\* What may be in an SNS envelope is yielded whole by unwrapSQSEvent.
LEMMA TopicIsNoQueue ==
    ASSUME NEW e, Handler!IsDocument(e), Handler!TopicOK(e)
    PROVE  Handler!UnwrapSQS(e) = <<e>>
<1>1. CASE Handler!From(e, "aws:s3") \/ Handler!From(e, "aws:sns")
  <2>1. e.records # <<>>
    BY <1>1 DEF Handler!From
  <2> QED
    BY <1>1, <2>1, OtherBatch DEF Handler!UnwrapSQS
<1>2. CASE e.form \in {"object", "text", "entity"} \/ (e.form = "message" /\ e.source = "aws:sns")
  <2>1. e.records = <<>>
    BY <1>2 DEF Handler!IsDocument
  <2> QED
    BY <1>2, <2>1 DEF Handler!UnwrapSQS
<1> QED
  BY <1>1, <1>2 DEF Handler!TopicOK, Handler!DirectOK

\* What is collected from an event
LEMMA QueueMeaning ==
    ASSUME NEW e, Handler!IsEvent(e), Handler!QueueOK(e)
    PROVE  Joined(Unwrapped(e), Handler!UnwrapSQS(e)) = Handler!InQueue(e)
<1>1. Handler!IsDocument(e) /\ e \in Outer(e)
  BY DEF Handler!IsEvent, Outer
<1>2. CASE Handler!TopicOK(e)
  <2>1. Joined(Unwrapped(e), <<e>>) = Unwrapped(e)[e]
    BY <1>1, UnwrappedType, JoinedOne
  <2> QED
    BY <1>1, <1>2, <2>1, TopicIsNoQueue, TopicMeaning DEF Handler!InQueue
<1>3. CASE ~ Handler!TopicOK(e) /\ e.form = "message" /\ e.source = "aws:sqs" /\ Handler!TopicOK(e.body[1])
  <2>1. e.body = <<e.body[1]>> /\ e.body[1] \in Handler!Inner(e) /\ e.records = <<>>
    BY <1>1, <1>3, MessageBody
  <2> DEFINE y == e.body[1]
  <2>2. Handler!UnwrapSQS(e) = <<y>>
    BY <1>3, <2>1 DEF Handler!UnwrapSQS
  <2>3. y \in Outer(e) /\ Handler!TopicOK(y)
    BY <1>3, <2>1 DEF Outer
  <2>4. Handler!InQueue(e) = Handler!InTopic(y)
    BY <1>3, <2>1 DEF Handler!InQueue
  <2> HIDE DEF y
  <2>5. Joined(Unwrapped(e), <<y>>) = Unwrapped(e)[y]
    BY <2>3, UnwrappedType, JoinedOne
  <2> QED
    BY <2>2, <2>3, <2>4, <2>5, TopicMeaning
<1>4. CASE ~ Handler!TopicOK(e) /\ Handler!From(e, "aws:sqs") /\ \A k \in DOMAIN e.records : Handler!TopicOK(e.records[k].body)
  <2>1. e.records # <<>> /\ Handler!UnwrapSQS(e) = Handler!Bodies(e.records)
    BY <1>4, OwnBatch DEF Handler!From, Handler!UnwrapSQS
  <2> DEFINE rs == e.records
             q == Handler!Bodies(rs)
  <2>2. DOMAIN q = DOMAIN rs /\ \A k \in DOMAIN rs : q[k] = rs[k].body
    BY DEF Handler!Bodies
  <2>3. \A k \in DOMAIN rs : rs[k].body \in Outer(e)
    BY <1>4 DEF Handler!From, Handler!ForeignIn, Handler!Inner, Outer
  <2>4. \A k \in DOMAIN rs : Unwrapped(e)[rs[k].body] = Handler!InTopic(rs[k].body)
    BY <1>4, <2>3, TopicMeaning
  <2> HIDE DEF rs, q
  <2>5. [k \in DOMAIN q |-> Unwrapped(e)[q[k]]] = [k \in DOMAIN rs |-> Handler!InTopic(rs[k].body)]
    BY <2>2, <2>4
  <2>6. Joined(Unwrapped(e), q) = Handler!FlattenSeq([k \in DOMAIN rs |-> Handler!InTopic(rs[k].body)])
    BY <2>5 DEF Joined
  <2> QED
    BY <1>4, <2>1, <2>6 DEF Handler!InQueue, q, rs
<1> QED
  BY <1>2, <1>3, <1>4 DEF Handler!QueueOK

-----------------------------------------------------------------------------
(* Invoke *)

\* What is collected already, and what the yields not yet consumed hold, is
\* in this order what the event holds.
Delivered ==
    notifications \o (Joined(RecordsOf(event), unsns) \o Joined(Unwrapped(event), unsqs))
        = Joined(Unwrapped(event), Handler!UnwrapSQS(event))

Yields ==
    /\ unsqs \in Seq(Outer(event))
    /\ unsns \in Seq(Documents(event))
    /\ notifications \in Seq(Records(event))

Invoked ==
    /\ hstep \in {"unwrap", "collect", "process", "nothing"}
    /\ hstep = "unwrap" => unsqs = <<>> /\ unsns = <<>> /\ notifications = <<>>
    /\ hstep \in {"process", "nothing"} => unsqs = <<>> /\ unsns = <<>>

HandlerInv == Handler!IsEvent(event) /\ Yields /\ Invoked /\ (hstep # "unwrap" => Delivered)

LEMMA NoneBefore ==
    ASSUME NEW S
    PROVE  \A s \in Seq(S) : <<>> \o s = s /\ s \o <<>> = s
  BY ConcatEmptySeq

LEMMA JoinType ==
    ASSUME NEW S
    PROVE  \A s, t \in Seq(S) : s \o t \in Seq(S)
  BY ConcatProperties

LEMMA HeadAndTail ==
    ASSUME NEW S
    PROVE  \A s \in Seq(S) : s # <<>> => Head(s) \in S /\ Tail(s) \in Seq(S)
  BY HeadTailProperties

LEMMA TakeEventStep ==
    ASSUME HandlerInv, Handler!TakeEvent
    PROVE  HandlerInv'
<1>1. /\ event' = event /\ unsqs' = Handler!UnwrapSQS(event) /\ unsns' = <<>>
      /\ notifications' = <<>> /\ hstep' = "collect"
  BY DEF HandlerInv, Invoked, Handler!TakeEvent
<1>2. Handler!IsEvent(event) /\ unsqs' \in Seq(Outer(event))
  BY <1>1, UnwrapsIn DEF HandlerInv
<1>3. Yields' /\ Invoked'
  BY <1>1, <1>2 DEF Yields, Invoked
<1>4. Joined(Unwrapped(event), unsqs') \in Seq(Records(event))
  BY <1>2, UnwrappedType, JoinedType
<1>5. <<>> \o (<<>> \o Joined(Unwrapped(event), unsqs')) = Joined(Unwrapped(event), unsqs')
  BY <1>4, NoneBefore
<1>6. Delivered'
  BY <1>1, <1>5, JoinedNone DEF Delivered
<1> QED
  BY <1>1, <1>2, <1>3, <1>6 DEF HandlerInv

LEMMA TakeFromSQSStep ==
    ASSUME HandlerInv, Handler!TakeFromSQS
    PROVE  HandlerInv'
<1> DEFINE d == Head(unsqs)
           Rest == Joined(Unwrapped(event), Tail(unsqs))
           Own == Joined(RecordsOf(event), Handler!UnwrapSNS(d))
<1>1. /\ event' = event /\ unsqs' = Tail(unsqs) /\ unsns' = Handler!UnwrapSNS(d)
      /\ notifications' = notifications /\ hstep' = hstep /\ hstep = "collect"
      /\ unsns = <<>> /\ unsqs # <<>>
  BY DEF Handler!TakeFromSQS
<1>2. Handler!IsEvent(event) /\ Yields /\ Delivered
  BY <1>1 DEF HandlerInv
<1>3. d \in Outer(event) /\ Tail(unsqs) \in Seq(Outer(event))
  BY <1>1, <1>2, HeadAndTail DEF Yields
<1>4. Handler!UnwrapSNS(d) \in Seq(Documents(event))
  BY <1>2, <1>3, UnwrapsIn
<1>5. Yields' /\ Invoked'
  BY <1>1, <1>2, <1>3, <1>4 DEF Yields, Invoked
<1>6. Joined(Unwrapped(event), unsqs) = Unwrapped(event)[d] \o Rest
  BY <1>1, <1>2, UnwrappedType, JoinedHead DEF Yields
<1>7. Unwrapped(event)[d] = Own
  BY <1>3 DEF Unwrapped
<1>8. Own \in Seq(Records(event)) /\ Rest \in Seq(Records(event))
  BY <1>2, <1>3, <1>4, UnwrappedType, RecordsOfType, JoinedType
<1> HIDE DEF Own, Rest
<1>9. Own \o Rest \in Seq(Records(event))
  BY <1>8, JoinType
<1>10. <<>> \o (Own \o Rest) = Own \o Rest
  BY <1>9, NoneBefore
<1>11. notifications \o (Own \o Rest) = Joined(Unwrapped(event), Handler!UnwrapSQS(event))
  BY <1>1, <1>2, <1>6, <1>7, <1>10, JoinedNone DEF Delivered
<1>12. Delivered'
  BY <1>1, <1>11 DEF Delivered, Own, Rest
<1> QED
  BY <1>1, <1>2, <1>5, <1>12 DEF HandlerInv

Then(s, t) == s \o t

\* Moving one sequence from the second to the first
LEMMA Moved ==
    ASSUME NEW S
    PROVE  \A a, b, c, d \in Seq(S) : Then(a, Then(Then(b, c), d)) = Then(Then(a, b), Then(c, d))
<1>1. \A s, t, u \in Seq(S) : (s \o t) \o u = s \o (t \o u)
  BY JoinAssociative
<1>2. \A s, t \in Seq(S) : s \o t \in Seq(S)
  BY JoinType
<1>3. /\ \A s, t, u \in Seq(S) : Then(Then(s, t), u) = Then(s, Then(t, u))
      /\ \A s, t \in Seq(S) : Then(s, t) \in Seq(S)
  BY <1>1, <1>2 DEF Then
<1> SUFFICES ASSUME NEW a \in Seq(S), NEW b \in Seq(S), NEW c \in Seq(S), NEW d \in Seq(S)
             PROVE  Then(a, Then(Then(b, c), d)) = Then(Then(a, b), Then(c, d))
  OBVIOUS
<1>4. Then(Then(b, c), d) = Then(b, Then(c, d)) /\ Then(c, d) \in Seq(S)
  BY <1>3
<1>5. Then(Then(a, b), Then(c, d)) = Then(a, Then(b, Then(c, d)))
  BY <1>3, <1>4
<1> QED
  BY <1>4, <1>5

LEMMA CollectStep ==
    ASSUME HandlerInv, Handler!Collect
    PROVE  HandlerInv'
<1> DEFINE d == Head(unsns)
           Rest == Joined(RecordsOf(event), Tail(unsns))
           Batch == Joined(Unwrapped(event), unsqs)
<1>1. /\ event' = event /\ unsqs' = unsqs /\ unsns' = Tail(unsns)
      /\ notifications' = notifications \o d.records /\ hstep' = hstep /\ hstep = "collect"
      /\ unsns # <<>>
  BY DEF Handler!Collect, Handler!S3Records
<1>2. Handler!IsEvent(event) /\ Yields /\ Delivered
  BY <1>1 DEF HandlerInv
<1>3. d \in Documents(event) /\ Tail(unsns) \in Seq(Documents(event))
  BY <1>1, <1>2, HeadAndTail DEF Yields
<1>4. RecordsOf(event)[d] = d.records /\ d.records \in Seq(Records(event))
  BY <1>2, <1>3, RecordsOfType DEF RecordsOf
<1>5. notifications' \in Seq(Records(event))
  BY <1>1, <1>2, <1>4, JoinType DEF Yields
<1>6. Yields' /\ Invoked'
  BY <1>1, <1>2, <1>3, <1>5 DEF Yields, Invoked
<1>7. Joined(RecordsOf(event), unsns) = d.records \o Rest
  BY <1>1, <1>2, <1>4, RecordsOfType, JoinedHead DEF Yields
<1>8. Rest \in Seq(Records(event)) /\ Batch \in Seq(Records(event))
  BY <1>2, <1>3, UnwrappedType, RecordsOfType, JoinedType DEF Yields
<1> HIDE DEF Rest, Batch
<1>9. notifications \o ((d.records \o Rest) \o Batch) = (notifications \o d.records) \o (Rest \o Batch)
  <2> DEFINE R == Records(event)
  <2>1. notifications \in Seq(R) /\ d.records \in Seq(R) /\ Rest \in Seq(R) /\ Batch \in Seq(R)
    BY <1>2, <1>4, <1>8 DEF Yields
  <2> HIDE DEF R
  <2>2. \A s, t, u, v \in Seq(R) : Then(s, Then(Then(t, u), v)) = Then(Then(s, t), Then(u, v))
    BY Moved
  <2>3. Then(notifications, Then(Then(d.records, Rest), Batch))
            = Then(Then(notifications, d.records), Then(Rest, Batch))
    BY <2>1, <2>2
  <2> QED
    BY <2>3 DEF Then
<1>10. (notifications \o d.records) \o (Rest \o Batch) = Joined(Unwrapped(event), Handler!UnwrapSQS(event))
  BY <1>2, <1>7, <1>9 DEF Delivered, Batch
<1>11. Delivered'
  BY <1>1, <1>10 DEF Delivered, Rest, Batch
<1> QED
  BY <1>1, <1>2, <1>6, <1>11 DEF HandlerInv

LEMMA DecideStep ==
    ASSUME HandlerInv, Handler!Decide
    PROVE  HandlerInv'
<1>1. /\ UNCHANGED <<event, unsqs, unsns, notifications>> /\ hstep = "collect"
      /\ hstep' \in {"process", "nothing"} /\ unsns = <<>> /\ unsqs = <<>>
  BY DEF Handler!Decide
<1>2. Yields' /\ Invoked'
  BY <1>1 DEF HandlerInv, Yields, Invoked
<1>3. Delivered'
  BY <1>1 DEF HandlerInv, Delivered
<1> QED
  BY <1>1, <1>2, <1>3 DEF HandlerInv

-----------------------------------------------------------------------------
(* The command with what it invokes *)

\* The handler runs last, on the event that --s3-url makes up if it is given
\* and the process is not on Lambda, and with --local-collector the endpoint
\* is the collector's when New is called.
RunsOn ==
    /\ hstep # "unwrap" => stage = "run"
    /\ stage = "run" /\ FromURL(flags) => event = DummyEvent(flags.s3URL)
    /\ flags.local /\ stage \in {"new", "source", "failed", "run"} => cfg.endpointURL = {CollectorURL}

CommandInv == IInv /\ HandlerInv /\ RunsOn

LEMMA CommandInit ==
    ASSUME Init
    PROVE  CommandInv
<1>1. IInv
  BY InitInv
<1>2. /\ unsqs = <<>> /\ unsns = <<>> /\ notifications = <<>> /\ hstep = "unwrap"
      /\ stage = "evaluate" /\ Handler!IsEvent(event)
  BY EventAssumption DEF Init, LoadInit, Handler!Init
<1>3. HandlerInv
  BY <1>2 DEF HandlerInv, Yields, Invoked
<1>4. RunsOn
  BY <1>2 DEF RunsOn
<1> QED
  BY <1>1, <1>3, <1>4 DEF CommandInv

\* The made-up event is an event.
LEMMA DummyIsEvent ==
    ASSUME NEW url
    PROVE  /\ Handler!IsEvent(DummyEvent(url)) /\ Handler!QueueOK(DummyEvent(url))
           /\ Handler!From(DummyEvent(url), "aws:s3")
<1> DEFINE r == [source |-> "aws:s3", body |-> S3Part[url]]
           d == DummyEvent(url)
<1>1. d.form = "records" /\ d.records = <<r>> /\ d.body = <<>>
  BY DEF DummyEvent, Handler!Document
<1>2. r.source = "aws:s3"
  OBVIOUS
<1> HIDE DEF r, d
<1>3. DOMAIN d.records = {1} /\ d.records[1] = r /\ d.records # <<>> /\ DOMAIN d.body = {}
  BY <1>1
<1>4. d.records \in Seq(Handler!Range(d.records))
  <2>1. Handler!Range(d.records) = {r}
    BY <1>3 DEF Handler!Range
  <2> QED
    BY <1>1, <2>1
<1>5. Handler!IsDocument(d) /\ Handler!Inner(d) = {}
  BY <1>1, <1>2, <1>3, <1>4 DEF Handler!IsDocument, Handler!Inner
<1>6. Handler!From(d, "aws:s3")
  BY <1>2, <1>3 DEF Handler!From, Handler!ForeignIn
<1> QED
  BY <1>5, <1>6 DEF Handler!IsEvent, Handler!QueueOK, Handler!TopicOK, Handler!DirectOK, d

LEMMA HandlerFrame ==
    ASSUME HandlerInv, UNCHANGED invokeVars
    PROVE  HandlerInv'
<1>1. UNCHANGED <<event, unsqs, unsns, notifications, hstep>>
  BY DEF invokeVars
<1> QED
  BY <1>1 DEF HandlerInv, Yields, Invoked, Delivered

LEMMA HandlerStep ==
    ASSUME HandlerInv, Handler!Next
    PROVE  HandlerInv'
  BY TakeEventStep, TakeFromSQSStep, CollectStep, DecideStep DEF Handler!Next

LEMMA InvokeStep ==
    ASSUME CommandInv, Invoke
    PROVE  HandlerInv' /\ RunsOn'
<1>1. /\ UNCHANGED <<cfg, flags, unsqs, unsns, notifications, hstep>>
      /\ stage = "source" /\ stage' = "run"
      /\ event' = IF FromURL(flags) THEN DummyEvent(flags.s3URL) ELSE event
  BY DEF Invoke
<1>2. HandlerInv /\ RunsOn
  BY DEF CommandInv
<1>3. hstep = "unwrap" /\ unsqs = <<>> /\ unsns = <<>> /\ notifications = <<>>
  BY <1>1, <1>2 DEF RunsOn, HandlerInv, Invoked
<1>4. Handler!IsEvent(event')
  BY <1>1, <1>2, DummyIsEvent DEF HandlerInv
<1>5. HandlerInv'
  BY <1>1, <1>3, <1>4 DEF HandlerInv, Yields, Invoked
<1>6. RunsOn'
  BY <1>1, <1>2, <1>3 DEF RunsOn, FromURL
<1> QED
  BY <1>5, <1>6

LEMMA CollectorEndpoint ==
    ASSUME CommandInv, StartCollector
    PROVE  RunsOn'
<1>1. /\ stage = "accepted" /\ stage' = "new" /\ UNCHANGED <<flags, hstep, event>>
      /\ RunsOn /\ DOMAIN cfg = CfgMembers
  BY DEF StartCollector, CommandInv, IInv, Shaped, invokeVars
<1>2. ASSUME flags.local PROVE cfg'.endpointURL = {CollectorURL}
  <2> DEFINE c == [cfg EXCEPT !.endpoint = CollectorURL, !.endpointURL = {}]
  <2>1. cfg' = WithEndpoint(c)
    BY <1>2 DEF StartCollector
  <2>2. DOMAIN c = CfgMembers /\ c.endpoint = CollectorURL
    BY <1>1 DEF CfgMembers
  <2>3. CollectorURL # ""
    BY CommandAssumption, ConfigAssumption
  <2> HIDE DEF c
  <2> QED
    BY <2>1, <2>2, <2>3 DEF WithEndpoint, Or, CfgMembers
<1> QED
  BY <1>1, <1>2 DEF RunsOn

LEMMA CommandStep ==
    ASSUME CommandInv, [Next]_vars
    PROVE  CommandInv'
<1>1. IInv'
  BY NextStep DEF CommandInv
<1>2. HandlerInv /\ RunsOn
  BY DEF CommandInv
<1>3. CASE Invoke
  BY <1>1, <1>3, InvokeStep DEF CommandInv
<1>4. CASE StartCollector
  <2>1. UNCHANGED invokeVars
    BY <1>4 DEF StartCollector
  <2> QED
    BY <1>1, <1>2, <1>4, <2>1, HandlerFrame, CollectorEndpoint DEF CommandInv
<1>5. CASE Handle
  <2>1. Handler!Next /\ stage = "run" /\ UNCHANGED <<cfg, stage, flags>>
    BY <1>5 DEF Handle, configVars
  <2>2. event' = event
    BY <2>1 DEF Handler!Next, Handler!TakeEvent, Handler!TakeFromSQS, Handler!Collect, Handler!Decide
  <2>3. RunsOn'
    BY <1>2, <2>1, <2>2 DEF RunsOn, FromURL
  <2> QED
    BY <1>1, <1>2, <2>1, <2>3, HandlerStep DEF CommandInv
<1>6. CASE Load \/ Reload
  <2>1. /\ UNCHANGED invokeVars
        /\ stage \in {"evaluate", "decode", "otel", "resource", "metrics", "rendered"}
        /\ stage' \in {"decode", "otel", "resource", "metrics", "accepted", "refused"}
    BY <1>6 DEF Load, Reload, LoadRendered, LoadNext, Evaluate, Decode, ValidateOtel,
                ValidateResourceAttribute, ValidateBackfill, ValidateMetric, Accept
  <2>2. hstep = "unwrap" /\ UNCHANGED hstep
    BY <1>2, <2>1 DEF RunsOn, invokeVars
  <2>3. RunsOn'
    BY <2>1, <2>2 DEF RunsOn
  <2> QED
    BY <1>1, <1>2, <2>1, <2>3, HandlerFrame DEF CommandInv
<1>7. CASE ValidateOnly \/ Render
  <2>1. UNCHANGED invokeVars /\ stage = "accepted" /\ stage' \in {"valid", "rendered"}
    BY <1>7 DEF ValidateOnly, Render
  <2>2. hstep = "unwrap" /\ UNCHANGED hstep
    BY <1>2, <2>1 DEF RunsOn, invokeVars
  <2>3. RunsOn'
    BY <2>1, <2>2 DEF RunsOn
  <2> QED
    BY <1>1, <1>2, <2>1, <2>3, HandlerFrame DEF CommandInv
<1>8. CASE New \/ RefuseURL
  <2>1. /\ UNCHANGED <<cfg, flags>> /\ UNCHANGED invokeVars
        /\ stage \in {"new", "source"} /\ stage' \in {"source", "failed"}
    BY <1>8 DEF New, RefuseURL
  <2>2. RunsOn'
    BY <1>2, <2>1 DEF RunsOn, invokeVars, FromURL
  <2> QED
    BY <1>1, <1>2, <2>1, <2>2, HandlerFrame DEF CommandInv
<1>9. CASE Exited \/ UNCHANGED vars
  <2>1. UNCHANGED <<cfg, flags, stage>> /\ UNCHANGED invokeVars
    BY <1>9 DEF Exited, vars, configVars
  <2>2. RunsOn'
    BY <1>2, <2>1 DEF RunsOn, invokeVars, FromURL, DummyEvent
  <2> QED
    BY <1>1, <1>2, <2>1, <2>2, HandlerFrame DEF CommandInv
<1> QED
  BY <1>3, <1>4, <1>5, <1>6, <1>7, <1>8, <1>9 DEF Next

LEMMA CommandInductive == Spec => []CommandInv
<1>1. Init => CommandInv
  BY CommandInit
<1>2. CommandInv /\ [Next]_vars => CommandInv'
  BY CommandStep
<1> QED
  BY <1>1, <1>2, PTL DEF Spec

LEMMA AllCollected ==
    ASSUME CommandInv
    PROVE  EveryNotificationOnce
<1> SUFFICES ASSUME hstep \in {"process", "nothing"}
             PROVE  /\ Handler!EveryNotificationOnce
                    /\ FromURL(flags) =>
                          notifications = <<[source |-> "aws:s3", body |-> S3Part[flags.s3URL]]>>
                    /\ flags.local => cfg.endpointURL = {CollectorURL}
  BY DEF EveryNotificationOnce
<1>1. /\ Handler!IsEvent(event) /\ Delivered /\ unsqs = <<>> /\ unsns = <<>>
      /\ notifications \in Seq(Records(event)) /\ stage = "run" /\ RunsOn
  BY DEF CommandInv, HandlerInv, Invoked, Yields, RunsOn
<1>2. notifications = Joined(Unwrapped(event), Handler!UnwrapSQS(event))
  <2>1. notifications \o <<>> = notifications /\ <<>> \o <<>> = <<>>
    BY <1>1, NoneBefore
  <2> QED
    BY <1>1, <2>1, JoinedNone DEF Delivered
<1>3. Handler!QueueOK(event) => notifications = Handler!InQueue(event)
  BY <1>1, <1>2, QueueMeaning
<1>4. ASSUME FromURL(flags)
      PROVE  notifications = <<[source |-> "aws:s3", body |-> S3Part[flags.s3URL]]>>
  <2>1. event = DummyEvent(flags.s3URL)
    BY <1>1, <1>4 DEF RunsOn
  <2>2. Handler!QueueOK(event)
    BY <2>1, DummyIsEvent
  <2>3. Handler!DirectOK(event) /\ Handler!InQueue(event) = event.records
    <3>1. Handler!From(event, "aws:s3")
      BY <2>1, DummyIsEvent
    <3> QED
      BY <3>1 DEF Handler!DirectOK, Handler!TopicOK, Handler!InQueue, Handler!InTopic
  <2> QED
    BY <1>3, <2>1, <2>2, <2>3 DEF DummyEvent, Handler!Document
<1>5. flags.local => cfg.endpointURL = {CollectorURL}
  BY <1>1 DEF RunsOn
<1> QED
  BY <1>3, <1>4, <1>5 DEF Handler!EveryNotificationOnce

\* Of every event, whatever it holds, Process gets each S3 record once and in
\* order, however the deliveries AWS offers are nested and batched; with
\* --s3-url off Lambda it gets the object of that URL alone, and with --local-collector
\* the endpoint is the collector's by then.
THEOREM NotificationsOnce == Spec => []EveryNotificationOnce
<1>1. CommandInv => EveryNotificationOnce
  BY AllCollected
<1> QED
  BY <1>1, CommandInductive, PTL

-----------------------------------------------------------------------------
(* Type correctness *)

Stages ==
    {"evaluate", "decode", "otel", "resource", "metrics", "accepted", "refused",
     "valid", "rendered", "new", "source", "failed", "run"}

\* There is JSON from the evaluation on, and only of a file that evaluates.
Evaluated ==
    /\ json = {} <=> stage = "evaluate" \/ (stage = "refused" /\ EvaluationFails(doc))
    /\ EvaluationFails(doc) => stage \in {"evaluate", "refused"}

InBounds == i \in 1..(Len(cfg.metrics) + Len(cfg.resource) + 1)

Loading == Evaluated /\ InBounds /\ stage \in Stages

LEMMA EvaluatedFrame ==
    ASSUME Evaluated, UNCHANGED <<doc, json>>, stage \notin {"evaluate", "refused"}, stage' # "evaluate"
    PROVE  Evaluated'
  BY DEF Evaluated

LEMMA IndexInBounds ==
    ASSUME NEW a \in Nat, NEW b \in Nat
    PROVE  /\ 1 \in 1..(a + b + 1)
           /\ \A n \in Nat \ {0} : n <= a \/ n <= b => n + 1 \in 1..(a + b + 1)
  OBVIOUS

LEMMA SameDomainSameLen ==
    ASSUME NEW s, IsList(s), NEW t, IsList(t), DOMAIN t = DOMAIN s
    PROVE  Len(t) = Len(s)
<1>1. DOMAIN t = 1..Len(s) /\ Len(s) \in Nat
  BY ListProperties
<1>2. t \in Seq({t[n] : n \in DOMAIN t})
  BY DEF IsList
<1> QED
  BY <1>1, <1>2, LenOfSeq

LEMMA LoadingInLoad ==
    ASSUME IInv, IInv', Loading, LoadNext
    PROVE  Loading'
<1>1. /\ IsList(cfg.metrics) /\ IsList(cfg.resource) /\ DOMAIN cfg = CfgMembers
      /\ IsList(cfg'.metrics) /\ IsList(cfg'.resource) /\ i \in Nat \ {0} /\ i' \in Nat \ {0}
  BY DEF IInv, Shaped
<1>2. /\ Len(cfg.metrics) \in Nat /\ Len(cfg.resource) \in Nat
      /\ Len(cfg'.metrics) \in Nat /\ Len(cfg'.resource) \in Nat
  BY <1>1, ListProperties
<1>3. stage' \in Stages
  BY DEF LoadNext, Evaluate, Decode, ValidateOtel, ValidateResourceAttribute, ValidateBackfill,
         ValidateMetric, Accept, Loading, Stages
<1>4. Evaluated'
  <2>1. CASE Evaluate
    BY <2>1 DEF Evaluate, Loading, Evaluated
  <2>2. CASE ~ Evaluate
    <3>1. UNCHANGED <<doc, json>> /\ stage \notin {"evaluate", "refused"} /\ stage' # "evaluate"
      BY <2>2 DEF LoadNext, Decode, ValidateOtel, ValidateResourceAttribute, ValidateBackfill,
                  ValidateMetric, Accept
    <3> QED
      BY <3>1, EvaluatedFrame DEF Loading
  <2> QED
    BY <2>1, <2>2
<1>5. InBounds'
  <2>1. CASE i' = 1
    BY <1>2, <2>1, IndexInBounds DEF InBounds
  <2>2. CASE UNCHANGED <<cfg, i>>
    BY <2>2 DEF Loading, InBounds
  <2>3. CASE Decode \/ ValidateOtel
    <3>1. i = 1 /\ i' = i
      BY <2>3 DEF Decode, ValidateOtel, IInv, Validated
    <3> QED
      BY <2>1, <3>1
  <2>4. CASE ValidateResourceAttribute /\ ~ UNCHANGED i
    <3>1. i' = i + 1 /\ i <= Len(cfg.resource) /\ cfg' = cfg
      BY <2>4 DEF ValidateResourceAttribute
    <3> QED
      BY <1>1, <1>2, <3>1, IndexInBounds DEF InBounds
  <2>5. CASE ValidateMetric /\ ~ UNCHANGED <<cfg, i>>
    <3>1. i' = i + 1 /\ i <= Len(cfg.metrics) /\ cfg' = [cfg EXCEPT !.metrics[i] = WithDefaults(@)]
      BY <2>5 DEF ValidateMetric
    <3>2. cfg'.resource = cfg.resource /\ DOMAIN cfg'.metrics = DOMAIN cfg.metrics
      BY <1>1, <3>1 DEF CfgMembers
    <3>3. Len(cfg'.metrics) = Len(cfg.metrics)
      BY <1>1, <3>2, SameDomainSameLen
    <3> QED
      BY <1>1, <1>2, <3>1, <3>2, <3>3, IndexInBounds DEF InBounds
  <2>6. CASE Evaluate \/ ValidateBackfill \/ Accept
    <3>1. i' = 1 \/ UNCHANGED <<cfg, i>>
      BY <2>6 DEF Evaluate, ValidateBackfill, Accept
    <3> QED
      BY <2>1, <2>2, <3>1
  <2> QED
    BY <2>2, <2>3, <2>4, <2>5, <2>6 DEF LoadNext, ValidateResourceAttribute
<1> QED
  BY <1>3, <1>4, <1>5 DEF Loading

LEMMA InitLoading == Init => Loading
<1> SUFFICES ASSUME Init PROVE Loading
  OBVIOUS
<1>1. json = {} /\ cfg = DefaultConfig /\ i = 1 /\ stage = "evaluate"
  BY DEF Init, LoadInit
<1>2. Len(cfg.metrics) = 0 /\ Len(cfg.resource) = 0
  BY <1>1, EmptySeq DEF DefaultConfig
<1> QED
  BY <1>1, <1>2 DEF Loading, Evaluated, InBounds, Stages

LEMMA LoadingStep ==
    ASSUME IInv, IInv', Loading, [Next]_vars
    PROVE  Loading'
<1>1. CASE Load
  BY <1>1, LoadingInLoad DEF Load
<1>2. CASE Reload
  <2>1. /\ json' # {} /\ cfg' = DefaultConfig /\ i' = 1 /\ stage' = "decode" /\ doc' = doc
        /\ stage = "rendered"
    BY <1>2 DEF Reload, LoadRendered
  <2>2. IsList(cfg'.metrics) /\ IsList(cfg'.resource)
    BY DEF IInv, Shaped
  <2>3. Len(cfg'.metrics) \in Nat /\ Len(cfg'.resource) \in Nat
    BY <2>2, ListProperties
  <2>4. InBounds'
    BY <2>1, <2>3, IndexInBounds DEF InBounds
  <2> QED
    BY <2>1, <2>4 DEF Loading, Evaluated, Stages
<1>3. CASE StartCollector
  <2>1. /\ UNCHANGED <<doc, json, i>> /\ stage = "accepted" /\ stage' = "new"
        /\ cfg'.resource = cfg.resource /\ cfg'.metrics = cfg.metrics
    BY <1>3 DEF StartCollector, WithEndpoint, IInv, Shaped, CfgMembers
  <2>2. Evaluated'
    BY <2>1, EvaluatedFrame DEF Loading
  <2> QED
    BY <2>1, <2>2 DEF Loading, InBounds, Stages
<1>4. CASE ValidateOnly \/ Render \/ New \/ RefuseURL \/ Invoke
  <2>1. /\ UNCHANGED <<doc, json, cfg, i>> /\ stage \notin {"evaluate", "refused"}
        /\ stage' # "evaluate" /\ stage' \in Stages
    BY <1>4 DEF ValidateOnly, Render, New, RefuseURL, Invoke, Stages
  <2>2. Evaluated'
    BY <2>1, EvaluatedFrame DEF Loading
  <2> QED
    BY <2>1, <2>2 DEF Loading, InBounds
<1>5. CASE Handle \/ Exited \/ UNCHANGED vars
  <2>1. UNCHANGED <<doc, json, cfg, i, stage>>
    BY <1>5 DEF Handle, Exited, vars, configVars
  <2> QED
    BY <2>1 DEF Loading, Evaluated, InBounds
<1> QED
  BY <1>1, <1>2, <1>3, <1>4, <1>5 DEF Next

\* Whatever is unwrapped is a document, and what is collected are records of
\* the three sources.
LEMMA HandlerTypes ==
    ASSUME HandlerInv
    PROVE  Handler!TypeOK
<1>1. Handler!IsEvent(event) /\ Yields /\ Invoked
  BY DEF HandlerInv
<1>2. \A x \in Documents(event) : Handler!IsDocument(x)
  BY <1>1, EventDocuments
<1>3. Outer(event) \subseteq Documents(event) /\ event \in Outer(event)
  BY <1>1, EventDocuments DEF Outer
<1>4. \A r \in Records(event) : r.source \in {"aws:s3", "aws:sqs", "aws:sns"}
  BY <1>2 DEF Records, RecordSet, Handler!IsDocument
<1> DEFINE Formed(x) == x.form \in {"records", "message", "entity", "object", "text"}
<1>5. \A x \in Documents(event) : Formed(x)
  BY <1>2 DEF Handler!IsDocument
<1>6. \A k \in DOMAIN unsqs : unsqs[k] \in Documents(event)
  BY <1>1, <1>3, LenProperties, ElementOfSeq DEF Yields
<1>7. \A k \in DOMAIN unsns : unsns[k] \in Documents(event)
  BY <1>1, LenProperties, ElementOfSeq DEF Yields
<1>8. \A k \in DOMAIN notifications : notifications[k] \in Records(event)
  BY <1>1, LenProperties, ElementOfSeq DEF Yields
<1>9. DOMAIN <<event>> = {1} /\ <<event>>[1] = event
  OBVIOUS
<1>10. \A q \in {<<event>>, unsqs, unsns} : \A k \in DOMAIN q : Formed(q[k])
  <2> HIDE DEF Formed
  <2> QED
    BY <1>3, <1>5, <1>6, <1>7, <1>9
<1> QED
  BY <1>1, <1>4, <1>8, <1>10 DEF Invoked, Handler!TypeOK

\* The types, with what a file that cannot be evaluated leaves and how far
\* the loops of Validate may count.
THEOREM TypeCorrect == Spec => []TypeOK
<1>1. Init => Loading
  BY InitLoading
<1>2. Spec => []IInv
  <2>1. Init => IInv
    BY InitInv
  <2>2. IInv /\ [Next]_vars => IInv'
    BY NextStep
  <2> QED
    BY <2>1, <2>2, PTL DEF Spec
<1>3. IInv /\ IInv' /\ Loading /\ [Next]_vars => Loading'
  BY LoadingStep
<1>4. CommandInv /\ Loading => TypeOK
  <2> SUFFICES ASSUME CommandInv, Loading PROVE TypeOK
    OBVIOUS
  <2>1. Handler!TypeOK
    BY HandlerTypes DEF CommandInv
  <2> QED
    BY <2>1 DEF CommandInv, RunsOn, Loading, Evaluated, InBounds, Stages, TypeOK
<1> QED
  BY <1>1, <1>2, <1>3, <1>4, CommandInductive, PTL DEF Spec

-----------------------------------------------------------------------------
(* What a field means *)

\* The entries of the JSON of a switch, part by part
LEMMA EntriesOfSwitch ==
    ASSUME NEW f, IsWritten(f), f.kind = "switch", ~ NativeFails(f), ~ UsesEmpty(f)
    PROVE  LET es == f.entries  js == Native(f).switch
           IN  /\ Native(f) = JSONSwitch(js) /\ DOMAIN js = DOMAIN es
               /\ \A n \in DOMAIN es :
                     /\ js[n] = SwitchEntry(es[n])
                     /\ IsCase(js[n]) <=> es[n].case.kind # "absent"
                     /\ es[n].case.kind # "absent" =>
                           es[n].case.kind = "cel" /\ es[n].value.kind \in {"literal", "cel"}
                     /\ es[n].case.kind = "absent" => es[n].default.kind \in {"literal", "cel"}
                     /\ es[n].value.kind = "cel" => es[n].value.of # NoExpr
                     /\ es[n].default.kind = "cel" => es[n].default.of # NoExpr
<1> DEFINE es == f.entries
           js == [n \in DOMAIN es |-> SwitchEntry(es[n])]
<1>1. Native(f) = JSONSwitch(js)
  BY DEF Native
<1>2. Native(f).switch = js
  BY <1>1 DEF JSONSwitch
<1>3. ASSUME NEW n \in DOMAIN es
      PROVE  /\ {es[n].case.kind, es[n].value.kind, es[n].default.kind} \subseteq {"absent", "literal", "cel"}
             /\ es[n].case.kind # "absent" => es[n].case.kind = "cel" /\ es[n].value.kind # "absent"
             /\ es[n].case.kind = "absent" => es[n].default.kind # "absent"
             /\ es[n].case.kind = "cel" => es[n].case.of # NoExpr
             /\ es[n].value.kind = "cel" => es[n].value.of # NoExpr
             /\ es[n].default.kind = "cel" => es[n].default.of # NoExpr
  <2>1. ~ SwitchFails(es)
    BY DEF NativeFails
  <2>2. /\ es[n].case.kind # "absent" => es[n].case.kind = "cel" /\ es[n].value.kind # "absent"
        /\ es[n].case.kind = "absent" => es[n].default.kind # "absent"
    BY <2>1 DEF SwitchFails
  <2> QED
    BY <2>2 DEF IsWritten, UsesEmpty
<1>4. \A n \in DOMAIN es : IsCase(SwitchEntry(es[n])) <=> es[n].case.kind # "absent"
  BY <1>3 DEF IsCase, SwitchEntry
<1> QED
  BY <1>1, <1>2, <1>3, <1>4

\* One part of an entry
LEMMA PartMeans ==
    ASSUME NEW f, f.kind \in {"literal", "cel"}, f.kind = "cel" => f.of # NoExpr, NEW T, NEW line
    PROVE  RunOr(ExprOf(f), LiteralOf(f), T, line) = FieldMeans(f, T, line)
  BY DEF RunOr, ExprOf, LiteralOf, FieldMeans

\* The first case that is true or fails decides the switch, and no other.
LEMMA FirstDecides ==
    ASSUME NEW f, IsWritten(f), f.kind = "switch", ~ NativeFails(f), ~ UsesEmpty(f), NEW line,
           NEW n \in DOMAIN f.entries
    PROVE  Decides(f.entries, n, line) <=>
              LET js == Native(f).switch
              IN  /\ \E k \in Cases(js) : Run(js[k].case, "bool", line) \in {True, EvalError}
                  /\ n = FirstStop(js, line)
<1> DEFINE es == f.entries
           js == Native(f).switch
           Stops == {k \in Cases(js) : Run(js[k].case, "bool", line) \in {True, EvalError}}
<1>1. es \in Seq({es[k] : k \in DOMAIN es})
  BY DEF IsWritten
<1>2. DOMAIN es = 1..Len(es) /\ Len(es) \in Nat
  BY <1>1, LenProperties
<1>3. /\ DOMAIN js = DOMAIN es
      /\ \A k \in DOMAIN es : /\ js[k] = SwitchEntry(es[k])
                              /\ IsCase(js[k]) <=> es[k].case.kind # "absent"
  BY EntriesOfSwitch
<1>4. ASSUME NEW k \in DOMAIN es, es[k].case.kind # "absent"
      PROVE  js[k].case = es[k].case.of
  <2>1. js[k] = SwitchEntry(es[k])
    BY <1>3
  <2>2. SwitchEntry(es[k]).case = es[k].case.of
    BY <1>4 DEF SwitchEntry
  <2> HIDE DEF es, js
  <2> QED
    BY <2>1, <2>2
<1> HIDE DEF es, js
<1>5. \A k \in DOMAIN es :
         k \in Stops <=> es[k].case.kind # "absent" /\ Run(es[k].case.of, "bool", line) \in {True, EvalError}
  BY <1>3, <1>4 DEF Cases
<1>6. Stops \in SUBSET Nat /\ Stops \subseteq DOMAIN es
  BY <1>2, <1>3 DEF Cases
<1>7. n \in DOMAIN es
  BY DEF es
<1>8. FirstStop(js, line) = Min(Stops)
  BY DEF FirstStop
<1> HIDE DEF Stops
<1>9. Stops # {} => Min(Stops) \in Stops /\ \A k \in Stops : Min(Stops) <= k
  BY <1>6, MinOfNats
<1>10. Decides(es, n, line) <=> n \in Stops /\ \A k \in 1..(n - 1) : k \notin Stops
  <2>1. \A k \in 1..(n - 1) : k \in DOMAIN es
    BY <1>2, <1>7
  <2> QED
    BY <1>5, <1>7, <2>1 DEF Decides
<1>11. (n \in Stops /\ \A k \in 1..(n - 1) : k \notin Stops) <=> (Stops # {} /\ n = Min(Stops))
  <2>1. n \in Nat /\ n >= 1 /\ \A k \in Stops : k \in Nat /\ k >= 1
    BY <1>2, <1>6, <1>7
  <2>2. ASSUME n \in Stops, \A k \in 1..(n - 1) : k \notin Stops PROVE n = Min(Stops)
    <3> DEFINE l == Min(Stops)
    <3>1. l \in Stops /\ l <= n
      BY <1>9, <2>2
    <3> HIDE DEF l
    <3>2. ~ (l \in 1..(n - 1))
      BY <2>2, <3>1
    <3>3. l \in Nat /\ l >= 1
      BY <2>1, <3>1
    <3>4. l = n
      BY <2>1, <3>1, <3>2, <3>3
    <3> QED
      BY <3>4 DEF l
  <2>3. ASSUME Stops # {}, n = Min(Stops), NEW k \in 1..(n - 1) PROVE k \notin Stops
    <3>1. k < n
      BY <2>1
    <3> QED
      BY <1>9, <2>1, <2>3, <3>1
  <2> QED
    BY <1>9, <2>2, <2>3
<1> QED
  BY <1>8, <1>10, <1>11 DEF es, js, Stops

LEMMA SwitchMeans ==
    ASSUME NEW f, IsWritten(f), f.kind = "switch", ~ NativeFails(f), ~ UsesEmpty(f), NEW T, NEW line
    PROVE  Meanings(f, T, line) = {EvalSwitch(Native(f).switch, T, line)}
<1> DEFINE es == f.entries
           js == Native(f).switch
           Stop(k) == Run(js[k].case, "bool", line) \in {True, EvalError}
           n == FirstStop(js, line)
           Default == {k \in DOMAIN es : es[k].case.kind = "absent"}
<1>1. /\ DOMAIN js = DOMAIN es
      /\ \A k \in DOMAIN es :
            /\ js[k] = SwitchEntry(es[k])
            /\ IsCase(js[k]) <=> es[k].case.kind # "absent"
            /\ es[k].case.kind # "absent" => es[k].value.kind \in {"literal", "cel"}
            /\ es[k].case.kind = "absent" => es[k].default.kind \in {"literal", "cel"}
            /\ es[k].value.kind = "cel" => es[k].value.of # NoExpr
            /\ es[k].default.kind = "cel" => es[k].default.of # NoExpr
  BY EntriesOfSwitch
<1>2. \A k \in DOMAIN es : Decides(es, k, line) <=> (\E l \in Cases(js) : Stop(l)) /\ k = n
  BY FirstDecides
<1>3. ASSUME \E l \in Cases(js) : Stop(l)
      PROVE  n \in Cases(js) /\ Stop(n)
  <2> DEFINE Stops == {k \in Cases(js) : Stop(k)}
  <2>1. es \in Seq({es[k] : k \in DOMAIN es})
    BY DEF IsWritten
  <2>2. Stops \in SUBSET Nat
    BY <1>1, <2>1, LenProperties DEF Cases
  <2>3. Stops # {}
    BY <1>3
  <2>4. n = Min(Stops)
    BY DEF FirstStop
  <2> HIDE DEF Stops
  <2>5. n \in Stops
    BY <2>2, <2>3, <2>4, MinOfNats
  <2> QED
    BY <2>5 DEF Stops
<1> HIDE DEF es, js, n
<1>4. CASE \E l \in Cases(js) : Stop(l)
  <2>1. n \in DOMAIN es /\ es[n].case.kind # "absent"
    BY <1>1, <1>3, <1>4 DEF Cases
  <2>2. {k \in DOMAIN es : Decides(es, k, line)} = {n} /\ \E k \in DOMAIN es : Decides(es, k, line)
    BY <1>2, <1>4, <2>1
  <2> DEFINE V == IF Run(es[n].case.of, "bool", line) = True THEN FieldMeans(es[n].value, T, line) ELSE EvalError
  <2>3. Meanings(f, T, line) = {V}
    BY <2>2 DEF Meanings, es
  <2>4. /\ js[n].case = es[n].case.of /\ js[n].value = LiteralOf(es[n].value)
        /\ js[n].valueExpr = ExprOf(es[n].value)
    BY <1>1, <2>1 DEF SwitchEntry
  <2>5. RunOr(js[n].valueExpr, js[n].value, T, line) = FieldMeans(es[n].value, T, line)
    BY <1>1, <2>1, <2>4, PartMeans
  <2>6. EvalSwitch(js, T, line) = V
    BY <1>4, <2>4, <2>5 DEF EvalSwitch, n
  <2> QED
    BY <2>3, <2>6 DEF js
<1>5. CASE ~ \E l \in Cases(js) : Stop(l)
  <2>1. ~ \E k \in DOMAIN es : Decides(es, k, line)
    BY <1>2, <1>5
  <2>2. Defaults(js) = Default
    BY <1>1 DEF Defaults, Cases
  <2>3. CASE Default = {}
    <3>1. Meanings(f, T, line) = {ZeroValue[T]}
      BY <2>1, <2>3 DEF Meanings, es
    <3>2. EvalSwitch(js, T, line) = ZeroValue[T]
      BY <1>5, <2>2, <2>3 DEF EvalSwitch
    <3> QED
      BY <3>1, <3>2 DEF js
  <2>4. CASE Default # {}
    <3>1. PICK d : Default = {d}
      <4>1. es \in Seq({es[k] : k \in DOMAIN es})
        BY DEF IsWritten, es
      <4>2. IsFiniteSet(DOMAIN es)
        BY <4>1, LenProperties, FS_Interval
      <4>3. Cardinality(Default) <= 1
        <5>1. ~ (Cardinality(Default) > 1) /\ Cardinality(Default) \in Nat
          BY <4>2, FS_Subset, FS_CardinalityType DEF NativeFails, SwitchFails, es
        <5> QED
          BY <5>1
      <4>4. PICK d \in Default : TRUE
        BY <2>4
      <4>5. ASSUME NEW x \in Default, x # d PROVE FALSE
        <5>1. {x, d} \subseteq Default /\ Cardinality({x, d}) = 2
          <6>1. IsFiniteSet({d}) /\ Cardinality({d}) = 1
            BY FS_Singleton
          <6>2. Cardinality({d} \cup {x}) = Cardinality({d}) + 1
            BY <4>5, <6>1, FS_AddElement
          <6>3. {d} \cup {x} = {x, d}
            OBVIOUS
          <6> QED
            BY <4>4, <4>5, <6>1, <6>2, <6>3
        <5>2. IsFiniteSet(Default)
          BY <4>2, FS_Subset
        <5>3. Cardinality({x, d}) <= Cardinality(Default) /\ Cardinality(Default) \in Nat
          BY <5>1, <5>2, FS_Subset, FS_CardinalityType
        <5> QED
          BY <4>3, <5>1, <5>3
      <4> QED
        BY <4>4, <4>5
    <3>2. d \in DOMAIN es /\ es[d].case.kind = "absent" /\ d \in Nat
      <4>1. es \in Seq({es[k] : k \in DOMAIN es})
        BY DEF IsWritten, es
      <4> QED
        BY <3>1, <4>1, LenProperties
    <3>3. Min(Defaults(js)) = d
      <4>1. {d} \in SUBSET Nat /\ {d} # {}
        BY <3>2
      <4> QED
        BY <2>2, <3>1, <4>1, MinOfNats
    <3>4. Meanings(f, T, line) = {FieldMeans(es[d].default, T, line)}
      <4>1. \E k \in DOMAIN es : es[k].case.kind = "absent"
        BY <3>2
      <4>2. {FieldMeans(es[k].default, T, line) : k \in Default} = {FieldMeans(es[d].default, T, line)}
        BY <3>1
      <4> QED
        BY <2>1, <4>1, <4>2 DEF Meanings, es
    <3>5. js[d].default = LiteralOf(es[d].default) /\ js[d].defaultExpr = ExprOf(es[d].default)
      BY <1>1, <3>2 DEF SwitchEntry
    <3>6. RunOr(js[d].defaultExpr, js[d].default, T, line) = FieldMeans(es[d].default, T, line)
      BY <1>1, <3>2, <3>5, PartMeans
    <3>7. EvalSwitch(js, T, line) = FieldMeans(es[d].default, T, line)
      BY <1>5, <2>2, <2>4, <3>3, <3>6 DEF EvalSwitch
    <3> QED
      BY <3>4, <3>7 DEF js
  <2> QED
    BY <2>3, <2>4
<1> QED
  BY <1>4, <1>5

\* A JSON that has been unmarshalled evaluates to what its author wrote.
LEMMA FieldMeaning ==
    ASSUME NEW f, IsWritten(f), f.kind # "absent", ~ NativeFails(f), ~ UsesEmpty(f),
           NEW T \in Types, Unmarshals(Native(f), T), NEW line
    PROVE  Meanings(f, T, line) = {Eval(Native(f), T, line)}
<1>1. CASE f.kind = "literal"
  <2>1. Native(f) = JSONLiteral(f.of)
    BY <1>1 DEF Native
  <2>2. ~ IsField(Native(f), T) /\ Native(f).value = f.of
    BY <2>1 DEF IsField, JSONLiteral
  <2>3. Eval(Native(f), T, line) = Decoded(f.of, T)
    BY <2>2 DEF Eval
  <2>4. Meanings(f, T, line) = {Decoded(f.of, T)}
    BY <1>1 DEF Meanings, FieldMeans
  <2> QED
    BY <2>3, <2>4
<1>2. CASE f.kind = "cel"
  <2>1. Native(f) = JSONExpr(f.of) /\ f.of # NoExpr
    BY <1>2 DEF Native, UsesEmpty
  <2>2. IsField(Native(f), T) /\ Native(f).expr = f.of
    BY <2>1 DEF IsField, JSONExpr
  <2>3. Eval(Native(f), T, line) = Run(f.of, T, line)
    BY <2>1, <2>2 DEF Eval
  <2>4. Meanings(f, T, line) = {Run(f.of, T, line)}
    BY <1>2 DEF Meanings, FieldMeans
  <2> QED
    BY <2>3, <2>4
<1>3. CASE f.kind = "switch"
  <2> DEFINE js == Native(f).switch
  <2>1. Native(f) = JSONSwitch(js)
    BY <1>3, EntriesOfSwitch
  <2> HIDE DEF js
  <2>2. /\ Native(f).kind = "object" /\ Native(f).value = ObjectValue /\ Native(f).expr = NoExpr
        /\ Native(f).hasSwitch /\ Native(f).switch = js
    BY <2>1 DEF JSONSwitch
  <2>3. IsField(Native(f), T)
    <3>1. CASE T = "any"
      BY <2>2, <3>1 DEF IsField, Decodes, Converts
    <3>2. CASE T # "any"
      <4>1. ~ Decodes(ObjectValue, T)
        BY <3>2, CELAssumption DEF Decodes, Converts
      <4> QED
        BY <2>2, <4>1 DEF Unmarshals
    <3> QED
      BY <3>1, <3>2
  <2>4. Eval(Native(f), T, line) = EvalSwitch(js, T, line)
    BY <2>2, <2>3 DEF Eval
  <2> QED
    BY <1>3, <2>4, SwitchMeans DEF js
<1> QED
  BY <1>1, <1>2, <1>3 DEF IsWritten

\* A member that has been unmarshalled means what its author wrote.
LEMMA MemberMeaning ==
    ASSUME NEW f, IsWritten(f), ~ NativeFails(f), NEW T \in Types,
           NEW values, values = Member(f), \A v \in values : Unmarshals(v, T)
    PROVE  /\ values = {} <=> (f.kind = "absent" \/ f = Literal(Null))
           /\ ~ UsesEmpty(f) =>
                 \A v \in values : \A line \in Variables : Meanings(f, T, line) = {Eval(v, T, line)}
<1>1. values = {} <=> (f.kind = "absent" \/ f = Literal(Null))
  BY DEF Member
<1>2. ASSUME ~ UsesEmpty(f), NEW v \in values, NEW line \in Variables
      PROVE  Meanings(f, T, line) = {Eval(v, T, line)}
  <2>1. v = Native(f) /\ f.kind # "absent" /\ Unmarshals(v, T)
    BY <1>2 DEF Member
  <2> QED
    BY <1>2, <2>1, FieldMeaning
<1> QED
  BY <1>1, <1>2

-----------------------------------------------------------------------------
(* The expressions of a file, from the file to the configuration *)

AttributesAs(ds, as) ==
    DOMAIN as = DOMAIN ds /\ \A n \in DOMAIN ds : as[n].value = Member(ds[n].value)

MetricAs(d, m) ==
    AttributesAs(d.attributes, m.attributes) /\ m.filter = Member(d.filter) /\ m.value = Member(d.value)

\* c has the expressions of the file, each in its place.
AsWritten(d, c) ==
    /\ AttributesAs(d.resource, c.resource)
    /\ DOMAIN c.metrics = DOMAIN d.metrics
    /\ \A n \in DOMAIN d.metrics : MetricAs(d.metrics[n], c.metrics[n])

AttributesUnmarshalled(as) == \A n \in DOMAIN as : \A v \in as[n].value : Unmarshals(v, "any")

MetricUnmarshalled(m) ==
    /\ AttributesUnmarshalled(m.attributes)
    /\ \A v \in m.filter : Unmarshals(v, "bool")
    /\ \A v \in m.value : Unmarshals(v, "float64")

Unmarshalled(c) ==
    /\ AttributesUnmarshalled(c.resource)
    /\ \A n \in DOMAIN c.metrics : MetricUnmarshalled(c.metrics[n])

SameMetric(m, before) ==
    m.attributes = before.attributes /\ m.filter = before.filter /\ m.value = before.value

SameExpressions(c, before) ==
    /\ c.resource = before.resource
    /\ DOMAIN c.metrics = DOMAIN before.metrics
    /\ \A n \in DOMAIN c.metrics : SameMetric(c.metrics[n], before.metrics[n])

\* From the file to JSON, to the configuration, and back to JSON
Written ==
    /\ \A f \in FieldsIn(doc) : IsWritten(f)
    /\ \A c \in json : AsWritten(doc, c)
    /\ stage \notin {"evaluate", "decode", "refused"} => AsWritten(doc, cfg) /\ Unmarshalled(cfg)

\* Only the expressions count.
LEMMA ExpressionsKept ==
    ASSUME NEW c, NEW before, SameExpressions(c, before), NEW d
    PROVE  /\ AsWritten(d, before) => AsWritten(d, c)
           /\ Unmarshalled(before) => Unmarshalled(c)
<1>1. ASSUME AsWritten(d, before) PROVE AsWritten(d, c)
  <2>1. ASSUME NEW n \in DOMAIN d.metrics PROVE MetricAs(d.metrics[n], c.metrics[n])
    BY <1>1, <2>1 DEF AsWritten, SameExpressions, SameMetric, MetricAs
  <2> QED
    BY <1>1, <2>1 DEF AsWritten, SameExpressions
<1>2. ASSUME Unmarshalled(before) PROVE Unmarshalled(c)
  <2>1. ASSUME NEW n \in DOMAIN c.metrics PROVE MetricUnmarshalled(c.metrics[n])
    BY <1>2, <2>1 DEF Unmarshalled, SameExpressions, SameMetric, MetricUnmarshalled
  <2> QED
    BY <1>2, <2>1 DEF Unmarshalled, SameExpressions
<1> QED
  BY <1>1, <1>2

\* Evaluation makes JSON of each expression where it stands.
LEMMA EvaluatedAsWritten ==
    ASSUME NEW d
    PROVE  AsWritten(d, ConfigJSON(d))
<1> DEFINE c == ConfigJSON(d)
<1>1. \A as : AttributesAs(as, AttributesJSON(as))
  BY DEF AttributesAs, AttributesJSON, AttributeJSON
<1>2. c.resource = AttributesJSON(d.resource) /\ c.metrics = [n \in DOMAIN d.metrics |-> MetricJSON(d.metrics[n])]
  BY DEF ConfigJSON
<1>3. \A m : MetricAs(m, MetricJSON(m))
  <2> TAKE m
  <2>1. /\ MetricJSON(m).attributes = AttributesJSON(m.attributes)
        /\ MetricJSON(m).filter = Member(m.filter) /\ MetricJSON(m).value = Member(m.value)
    BY DEF MetricJSON
  <2> QED
    BY <1>1, <2>1 DEF MetricAs
<1> HIDE DEF c
<1> QED
  BY <1>1, <1>2, <1>3 DEF AsWritten, c

\* Decoding keeps the expressions, and takes only those that it unmarshals.
LEMMA DecodedAsWritten ==
    ASSUME NEW d, NEW c, AsWritten(d, c), Decodable(c)
    PROVE  AsWritten(d, DecodedConfig(c)) /\ Unmarshalled(DecodedConfig(c))
<1> DEFINE e == DecodedConfig(c)
<1>1. /\ e.resource = DecodedAttributes(c.resource)
      /\ e.metrics = [n \in DOMAIN c.metrics |-> DecodedMetric(c.metrics[n])]
  BY DEF DecodedConfig
<1>2. \A ds, as : /\ AttributesAs(ds, as) => AttributesAs(ds, DecodedAttributes(as))
                  /\ AttributesDecode(as) => AttributesUnmarshalled(DecodedAttributes(as))
  BY DEF AttributesAs, DecodedAttributes, AttributesDecode, AttributesUnmarshalled
<1>3. \A m : /\ DecodedMetric(m).attributes = DecodedAttributes(m.attributes)
             /\ DecodedMetric(m).filter = m.filter /\ DecodedMetric(m).value = m.value
  BY DEF DecodedMetric
<1> HIDE DEF e
<1>4. AsWritten(d, e)
  BY <1>1, <1>2, <1>3 DEF AsWritten, MetricAs
<1>5. Unmarshalled(e)
  <2>1. AttributesUnmarshalled(e.resource)
    BY <1>1, <1>2 DEF Decodable
  <2>2. ASSUME NEW n \in DOMAIN c.metrics PROVE MetricUnmarshalled(DecodedMetric(c.metrics[n]))
    <3>1. MetricDecodes(c.metrics[n])
      BY DEF Decodable
    <3> QED
      BY <1>2, <1>3, <3>1 DEF MetricUnmarshalled, MetricDecodes
  <2> QED
    BY <1>1, <2>1, <2>2 DEF Unmarshalled
<1> QED
  BY <1>4, <1>5 DEF e

\* So does rendering.
LEMMA RenderedAsWritten ==
    ASSUME NEW d, NEW c, AsWritten(d, c)
    PROVE  AsWritten(d, Rendered(c))
<1> DEFINE e == Rendered(c)
<1>1. /\ e.resource = RenderedAttributes(c.resource)
      /\ e.metrics = [n \in DOMAIN c.metrics |-> RenderedMetric(c.metrics[n])]
  BY DEF Rendered
<1>2. \A ds, as : AttributesAs(ds, as) => AttributesAs(ds, RenderedAttributes(as))
  BY DEF AttributesAs, RenderedAttributes
<1>3. \A m : /\ RenderedMetric(m).attributes = RenderedAttributes(m.attributes)
             /\ RenderedMetric(m).filter = m.filter /\ RenderedMetric(m).value = m.value
  BY DEF RenderedMetric
<1> HIDE DEF e
<1>4. AsWritten(d, e)
  BY <1>1, <1>2, <1>3 DEF AsWritten, MetricAs
<1> QED
  BY <1>4 DEF e

LEMMA WrittenFrame ==
    ASSUME Written, UNCHANGED <<doc, json>>, stage \notin {"evaluate", "decode", "refused"},
           SameExpressions(cfg', cfg)
    PROVE  Written'
<1>1. AsWritten(doc, cfg') /\ Unmarshalled(cfg')
  BY ExpressionsKept DEF Written
<1> QED
  BY <1>1 DEF Written

LEMMA WrittenStep ==
    ASSUME IInv, IInv', Written, [Next]_vars
    PROVE  Written'
<1>1. doc' = doc
  BY DEF Next, Load, LoadNext, Evaluate, Decode, ValidateOtel, ValidateResourceAttribute,
         ValidateBackfill, ValidateMetric, Accept, ValidateOnly, Render, Reload, LoadRendered,
         StartCollector, New, RefuseURL, Invoke, Handle, Exited, vars, configVars
<1>2. CASE Load /\ Evaluate
  <2>1. stage' \in {"decode", "refused"} /\ (json' = json \/ json' = {ConfigJSON(doc)})
    BY <1>2 DEF Evaluate
  <2> QED
    BY <1>1, <2>1, EvaluatedAsWritten DEF Written
<1>3. CASE Load /\ Decode
  <2>1. CASE stage' = "refused"
    BY <1>1, <1>3, <2>1 DEF Decode, Written
  <2>2. CASE stage' # "refused"
    <3>1. PICK c \in json : Decodable(c) /\ cfg' = DecodedConfig(c) /\ json' = json
      BY <1>3, <2>2 DEF Decode
    <3>2. AsWritten(doc, cfg') /\ Unmarshalled(cfg')
      BY <3>1, DecodedAsWritten DEF Written
    <3> QED
      BY <1>1, <3>1, <3>2 DEF Written
  <2> QED
    BY <2>1, <2>2
<1>4. CASE Reload
  <2>1. stage = "rendered" /\ json' = {Rendered(cfg)} /\ stage' = "decode"
    BY <1>4 DEF Reload, LoadRendered
  <2>2. AsWritten(doc, Rendered(cfg))
    BY <2>1, RenderedAsWritten DEF Written
  <2> QED
    BY <1>1, <2>1, <2>2 DEF Written
<1>5. CASE UNCHANGED <<json, stage, cfg>>
  BY <1>1, <1>5 DEF Written
<1>6. CASE stage' = "refused" /\ UNCHANGED json
  BY <1>1, <1>6 DEF Written
<1> DEFINE Loaded == stage \notin {"evaluate", "decode", "refused"}
<1>7. CASE Loaded /\ UNCHANGED <<json, cfg>>
  BY <1>1, <1>7, WrittenFrame DEF SameExpressions, SameMetric
<1>8. CASE Load /\ (ValidateOtel \/ ValidateBackfill) /\ stage' # "refused"
  <2>1. Loaded /\ UNCHANGED json
    BY <1>8 DEF ValidateOtel, ValidateBackfill
  <2>2. cfg'.resource = cfg.resource /\ cfg'.metrics = cfg.metrics
    BY <1>8 DEF ValidateOtel, ValidateBackfill, WithEndpoint, WithTolerance, IInv, Shaped, CfgMembers
  <2> QED
    BY <1>1, <2>1, <2>2, WrittenFrame DEF SameExpressions, SameMetric
<1>9. CASE Load /\ ValidateMetric /\ ~ UNCHANGED cfg
  <2>1. /\ Loaded /\ UNCHANGED json /\ i \in Nat \ {0} /\ i <= Len(cfg.metrics)
        /\ cfg' = [cfg EXCEPT !.metrics[i] = WithDefaults(@)]
    BY <1>9 DEF ValidateMetric, IInv, Shaped
  <2>2. i \in DOMAIN cfg.metrics
    BY <2>1, ListProperties DEF IInv, Shaped
  <2>3. IsMetric(cfg.metrics[i]) /\ DOMAIN cfg = CfgMembers
    BY <2>2 DEF IInv, Shaped
  <2>4. cfg'.resource = cfg.resource /\ cfg'.metrics = [cfg.metrics EXCEPT ![i] = WithDefaults(cfg.metrics[i])]
    BY <2>1, <2>3 DEF CfgMembers
  <2>5. SameMetric(WithDefaults(cfg.metrics[i]), cfg.metrics[i])
    BY <2>3 DEF IsMetric, MetricMembers, WithDefaults, SameMetric
  <2>6. SameExpressions(cfg', cfg)
    BY <2>2, <2>4, <2>5 DEF SameExpressions, SameMetric
  <2> QED
    BY <1>1, <2>1, <2>6, WrittenFrame
<1>10. CASE StartCollector
  <2>1. /\ Loaded /\ UNCHANGED json
        /\ cfg'.resource = cfg.resource /\ cfg'.metrics = cfg.metrics
    BY <1>10 DEF StartCollector, WithEndpoint, IInv, Shaped, CfgMembers
  <2> QED
    BY <1>1, <2>1, WrittenFrame DEF SameExpressions, SameMetric
<1>11. CASE Load
  <2>1. \/ Evaluate \/ Decode \/ (UNCHANGED json /\ stage' = "refused")
        \/ ((ValidateOtel \/ ValidateBackfill) /\ stage' # "refused")
        \/ (ValidateMetric /\ ~ UNCHANGED cfg)
        \/ (Loaded /\ UNCHANGED <<json, cfg>>)
    BY <1>11 DEF Load, LoadNext, ValidateOtel, ValidateResourceAttribute, ValidateBackfill, ValidateMetric, Accept
  <2> QED
    BY <1>2, <1>3, <1>6, <1>7, <1>8, <1>9, <1>11, <2>1
<1>12. CASE ValidateOnly \/ Render \/ New \/ RefuseURL \/ Invoke \/ Handle \/ Exited \/ UNCHANGED vars
  <2>1. (Loaded /\ UNCHANGED <<json, cfg>>) \/ UNCHANGED <<json, stage, cfg>>
    BY <1>12 DEF ValidateOnly, Render, New, RefuseURL, Invoke, Handle, Exited, vars, configVars
  <2> QED
    BY <1>5, <1>7, <2>1
<1> QED
  BY <1>4, <1>10, <1>11, <1>12 DEF Next

\* What is written has its meaning, expression by expression.
LEMMA PairsMean ==
    ASSUME Written, ~ EvaluationFails(doc), stage \notin {"evaluate", "decode", "refused"}
    PROVE  \A pair \in FieldPairs :
              /\ pair[3] \in Types /\ IsWritten(pair[1]) /\ ~ NativeFails(pair[1])
              /\ pair[2] = Member(pair[1])
              /\ \A v \in pair[2] : Unmarshals(v, pair[3])
<1> DEFINE Good(f, values, T) ==
        /\ T \in Types /\ IsWritten(f) /\ ~ NativeFails(f)
        /\ values = Member(f) /\ \A v \in values : Unmarshals(v, T)
    Attributes(ds, as) == {<<ds[n].value, as[n].value, "any">> : n \in DOMAIN ds}
    Fields(d) == {d.filter, d.value} \cup {d.attributes[k].value : k \in DOMAIN d.attributes}
    Pairs(d, m) == Attributes(d.attributes, m.attributes)
                       \cup {<<d.filter, m.filter, "bool">>, <<d.value, m.value, "float64">>}
<1>1. AsWritten(doc, cfg) /\ Unmarshalled(cfg)
  BY DEF Written
<1>2. ASSUME NEW f \in FieldsIn(doc) PROVE IsWritten(f)
  BY <1>2 DEF Written
<1>3. FieldPairs = Attributes(doc.resource, cfg.resource)
                       \cup UNION {Pairs(doc.metrics[n], cfg.metrics[n]) : n \in DOMAIN doc.metrics}
  BY DEF FieldPairs
<1>4. \A n \in DOMAIN doc.resource :
         Good(doc.resource[n].value, cfg.resource[n].value, "any")
  <2> TAKE n \in DOMAIN doc.resource
  <2>1. ~ NativeFails(doc.resource[n].value)
    BY DEF EvaluationFails, AttributesFail
  <2>2. doc.resource[n].value \in FieldsIn(doc)
    BY DEF FieldsIn
  <2>3. n \in DOMAIN cfg.resource /\ cfg.resource[n].value = Member(doc.resource[n].value)
    BY <1>1 DEF AsWritten, AttributesAs
  <2>4. \A v \in cfg.resource[n].value : Unmarshals(v, "any")
    BY <1>1, <2>3 DEF Unmarshalled, AttributesUnmarshalled
  <2> QED
    BY <1>2, <2>1, <2>2, <2>3, <2>4 DEF Types
<1>5. ASSUME NEW n \in DOMAIN doc.metrics
      PROVE  LET d == doc.metrics[n]  m == cfg.metrics[n]
             IN  /\ Good(d.filter, m.filter, "bool") /\ Good(d.value, m.value, "float64")
                 /\ \A k \in DOMAIN d.attributes : Good(d.attributes[k].value, m.attributes[k].value, "any")
  <2> DEFINE d == doc.metrics[n]
             m == cfg.metrics[n]
  <2>1. /\ ~ NativeFails(d.filter) /\ ~ NativeFails(d.value)
        /\ \A k \in DOMAIN d.attributes : ~ NativeFails(d.attributes[k].value)
    BY DEF EvaluationFails, AttributesFail
  <2>2. Fields(d) \subseteq FieldsIn(doc)
    BY DEF FieldsIn
  <2>3. n \in DOMAIN cfg.metrics /\ MetricAs(d, m) /\ MetricUnmarshalled(m)
    BY <1>1 DEF AsWritten, Unmarshalled
  <2> HIDE DEF d, m
  <2>4. /\ m.filter = Member(d.filter) /\ m.value = Member(d.value)
        /\ \A v \in m.filter : Unmarshals(v, "bool")
        /\ \A v \in m.value : Unmarshals(v, "float64")
        /\ IsWritten(d.filter) /\ IsWritten(d.value)
    BY <1>2, <2>2, <2>3 DEF MetricAs, MetricUnmarshalled
  <2>5. ASSUME NEW k \in DOMAIN d.attributes
        PROVE  Good(d.attributes[k].value, m.attributes[k].value, "any")
    <3>1. k \in DOMAIN m.attributes /\ m.attributes[k].value = Member(d.attributes[k].value)
      BY <2>3 DEF MetricAs, AttributesAs
    <3>2. \A v \in m.attributes[k].value : Unmarshals(v, "any")
      BY <2>3, <3>1 DEF MetricUnmarshalled, AttributesUnmarshalled
    <3>3. IsWritten(d.attributes[k].value)
      BY <1>2, <2>2
    <3> QED
      BY <2>1, <3>1, <3>2, <3>3 DEF Types
  <2>6. Good(d.filter, m.filter, "bool") /\ Good(d.value, m.value, "float64")
    BY <2>1, <2>4 DEF Types
  <2> HIDE DEF Good
  <2> QED
    BY <2>5, <2>6 DEF d, m
<1> HIDE DEF Good
<1>6. ASSUME NEW pair \in FieldPairs PROVE Good(pair[1], pair[2], pair[3])
  <2>1. CASE pair \in Attributes(doc.resource, cfg.resource)
    BY <1>4, <2>1
  <2>2. CASE pair \notin Attributes(doc.resource, cfg.resource)
    <3>1. PICK n \in DOMAIN doc.metrics : pair \in Pairs(doc.metrics[n], cfg.metrics[n])
      <4> HIDE DEF Attributes, Pairs
      <4> QED
        BY <1>3, <1>6, <2>2
    <3> QED
      BY <1>5, <3>1
  <2> QED
    BY <2>1, <2>2
<1> QED
  BY <1>6 DEF Good

\* An accepted configuration computes what its author wrote: rendered and
\* loaded again or not, each expression stands where it stood and has, on
\* every log line, the value it has in the file.
THEOREM ConfigurationMeansFile == Spec => []EvaluatesAsWritten
<1>1. Init => Written
  <2> SUFFICES ASSUME Init PROVE Written
    OBVIOUS
  <2>1. json = {} /\ stage = "evaluate" /\ \A f \in FieldsIn(doc) : IsWritten(f)
    BY CommandAssumption DEF Init, LoadInit
  <2> QED
    BY <2>1 DEF Written
<1>2. Spec => []IInv
  <2>1. Init => IInv
    BY InitInv
  <2>2. IInv /\ [Next]_vars => IInv'
    BY NextStep
  <2> QED
    BY <2>1, <2>2, PTL DEF Spec
<1>3. Init => Loading
  BY InitLoading
<1>4. IInv /\ IInv' /\ Loading /\ [Next]_vars => Loading'
  BY LoadingStep
<1>5. IInv /\ IInv' /\ Written /\ [Next]_vars => Written'
  BY WrittenStep
<1>6. Written /\ Loading => EvaluatesAsWritten
  <2> SUFFICES ASSUME Written, Loading, Accepted PROVE
        \A pair \in FieldPairs :
            /\ pair[2] = {} <=> (pair[1].kind = "absent" \/ pair[1] = Literal(Null))
            /\ ~ UsesEmpty(pair[1]) =>
                  \A v \in pair[2] : \A line \in Variables :
                      Meanings(pair[1], pair[3], line) = {Eval(v, pair[3], line)}
    BY DEF EvaluatesAsWritten
  <2>1. stage \notin {"evaluate", "decode", "refused"}
    BY DEF Accepted
  <2>2. ~ EvaluationFails(doc)
    BY <2>1 DEF Loading, Evaluated
  <2> TAKE pair \in FieldPairs
  <2>3. /\ pair[3] \in Types /\ IsWritten(pair[1]) /\ ~ NativeFails(pair[1])
        /\ pair[2] = Member(pair[1])
        /\ \A v \in pair[2] : Unmarshals(v, pair[3])
    BY <2>1, <2>2, PairsMean
  <2> QED
    BY <2>3, MemberMeaning
<1> QED
  BY <1>1, <1>2, <1>3, <1>4, <1>5, <1>6, PTL DEF Spec

-----------------------------------------------------------------------------
(* What is rendered is loaded *)

\* A list of attributes as decoding leaves it
AttributesFormed(as) ==
    as = DecodedAttributes(as) /\ \A n \in DOMAIN as : as[n].key # NotText

MetricFormed(m) == AttributesFormed(m.attributes) /\ m.name # NotText

Formed(c) == AttributesFormed(c.resource) /\ \A n \in DOMAIN c.metrics : MetricFormed(c.metrics[n])

\* A metric that has been validated would be so again.
Ready(m) ==
    /\ m.interval \in DOMAIN Duration /\ Duration[m.interval] >= Millisecond
    /\ m.type = "Histogram" => \E b \in Seq(Int) : m.boundaries = {b} /\ Increasing(b)

Settling ==
    /\ stage \notin {"evaluate", "decode", "refused"} => Formed(cfg)
    /\ stage = "metrics" => \A n \in DOMAIN cfg.metrics : n < i => Ready(cfg.metrics[n])
    /\ Accepted => \A n \in DOMAIN cfg.metrics : Ready(cfg.metrics[n])

\* All that an accepted configuration is known to be
Settled(c) ==
    /\ DOMAIN c = CfgMembers /\ IsList(c.metrics)
    /\ c.endpointURL = {c.endpoint} /\ c.endpoint \in HTTP
    /\ c.tolerance \in DOMAIN Duration /\ c.timeTolerance = Duration[c.tolerance]
    /\ \A n \in DOMAIN c.resource : AttributeValid(c.resource[n])
    /\ \A n \in DOMAIN c.metrics :
          IsMetric(c.metrics[n]) /\ MetricUsable(c.metrics[n]) /\ Ready(c.metrics[n])
    /\ Formed(c) /\ Unmarshalled(c)

\* A metric that was printed and read, with its defaults or still without
Restored(m, before) ==
    /\ m.name = before.name /\ m.interval = before.interval /\ m.type = before.type
    /\ m.attributes = before.attributes /\ m.filter = before.filter /\ m.value = before.value
    /\ m.type = "Histogram" =>
          m.boundaries \in {before.boundaries \ {<<>>},
                            IF before.boundaries = {<<>>} THEN {DefaultHistogramBoundaries}
                            ELSE before.boundaries}

\* A configuration that was printed and read, on its way through Validate
AlsoLoaded(c) ==
    /\ stage \notin {"evaluate", "refused"}
    /\ stage = "decode" => json = {Rendered(c)}
    /\ stage \in {"otel", "resource", "metrics", "accepted"} =>
          /\ cfg.endpoint = c.endpoint /\ cfg.tolerance = c.tolerance /\ cfg.resource = c.resource
          /\ DOMAIN cfg.metrics = DOMAIN c.metrics
          /\ \A n \in DOMAIN c.metrics : Restored(cfg.metrics[n], c.metrics[n])

Reloaded == \A c \in rendered : Settled(c) /\ AlsoLoaded(c)

LEMMA DecodedIsFormed ==
    ASSUME NEW c, Decodable(c)
    PROVE  Formed(DecodedConfig(c))
<1> DEFINE e == DecodedConfig(c)
<1>1. \A as : AttributesDecode(as) => AttributesFormed(DecodedAttributes(as))
  BY DEF AttributesDecode, AttributesFormed, DecodedAttributes
<1>2. /\ e.resource = DecodedAttributes(c.resource)
      /\ e.metrics = [n \in DOMAIN c.metrics |-> DecodedMetric(c.metrics[n])]
  BY DEF DecodedConfig
<1>3. \A m : DecodedMetric(m).attributes = DecodedAttributes(m.attributes) /\ DecodedMetric(m).name = m.name
  BY DEF DecodedMetric
<1> HIDE DEF e
<1>4. ASSUME NEW n \in DOMAIN c.metrics PROVE MetricFormed(DecodedMetric(c.metrics[n]))
  <2>1. AttributesDecode(c.metrics[n].attributes) /\ c.metrics[n].name # NotText
    BY DEF Decodable, MetricDecodes
  <2> QED
    BY <1>1, <1>3, <2>1 DEF MetricFormed
<1>5. AttributesFormed(e.resource)
  BY <1>1, <1>2 DEF Decodable
<1> QED
  BY <1>2, <1>4, <1>5 DEF Formed, e

LEMMA ValidIsReady ==
    ASSUME NEW m, IsMetric(m), MetricValid(m)
    PROVE  /\ Ready(WithDefaults(m))
           /\ WithDefaults(m).attributes = m.attributes /\ WithDefaults(m).name = m.name
<1> DEFINE w == WithDefaults(m)
           interval == Or(m.interval, "1m")
<1>1. /\ w.type = m.type /\ w.interval = interval /\ w.attributes = m.attributes /\ w.name = m.name
      /\ m.type = "Histogram" => w.boundaries = {BoundariesOf(m)}
  BY DEF WithDefaults, IsMetric, MetricMembers
<1>2. interval \in DOMAIN Duration /\ Duration[interval] >= Millisecond
  BY DEF MetricValid
<1>3. BoundariesOf(m) \in Seq(Int)
  <2>1. CASE m.boundaries = {}
    BY <2>1, ConfigAssumption DEF BoundariesOf
  <2>2. CASE m.boundaries # {}
    BY <2>2 DEF BoundariesOf, IsMetric
  <2> QED
    BY <2>1, <2>2
<1>4. m.type = "Histogram" => Increasing(BoundariesOf(m))
  BY DEF MetricValid
<1> HIDE DEF w, interval
<1>5. Ready(w)
  BY <1>1, <1>2, <1>3, <1>4 DEF Ready
<1> QED
  BY <1>1, <1>5 DEF w

LEMMA SettlingFrame ==
    ASSUME Settling, stage \notin {"evaluate", "decode", "refused"},
           cfg'.resource = cfg.resource, cfg'.metrics = cfg.metrics,
           \/ stage' = stage /\ (stage = "metrics" => i' = i)
           \/ stage' \in {"otel", "resource", "refused"}
           \/ Accepted /\ Accepted'
    PROVE  Settling'
<1>1. Formed(cfg) => Formed(cfg')
  BY DEF Formed
<1>2. Accepted' => Accepted /\ \A n \in DOMAIN cfg'.metrics : Ready(cfg'.metrics[n])
  BY DEF Settling, Accepted
<1>3. stage' = "metrics" => \A n \in DOMAIN cfg'.metrics : n < i' => Ready(cfg'.metrics[n])
  BY DEF Settling, Accepted
<1> QED
  BY <1>1, <1>2, <1>3 DEF Settling

LEMMA SettlingStep ==
    ASSUME IInv, Settling, [Next]_vars
    PROVE  Settling'
<1> DEFINE Loaded == stage \notin {"evaluate", "decode", "refused"}
<1>1. DOMAIN cfg = CfgMembers /\ IsList(cfg.metrics) /\ i \in Nat \ {0}
  BY DEF IInv, Shaped
<1>2. DOMAIN cfg.metrics = 1..Len(cfg.metrics) /\ Len(cfg.metrics) \in Nat
  BY <1>1, ListProperties
<1>3. CASE stage' \in {"evaluate", "decode", "refused"}
  BY <1>3 DEF Settling, Accepted
<1>4. CASE Load /\ Decode /\ stage' = "otel"
  <2>1. PICK c \in json : Decodable(c) /\ cfg' = DecodedConfig(c)
    BY <1>4 DEF Decode
  <2> QED
    BY <1>4, <2>1, DecodedIsFormed DEF Settling, Accepted
<1>5. CASE Load /\ (ValidateOtel \/ ValidateResourceAttribute) /\ stage' = "resource"
  <2>1. Loaded /\ cfg'.resource = cfg.resource /\ cfg'.metrics = cfg.metrics
    BY <1>1, <1>5 DEF ValidateOtel, ValidateResourceAttribute, WithEndpoint, CfgMembers
  <2> QED
    BY <1>5, <2>1, SettlingFrame
<1>6. CASE Load /\ ValidateBackfill /\ stage' = "metrics"
  <2>1. Loaded /\ cfg'.resource = cfg.resource /\ cfg'.metrics = cfg.metrics /\ i' = 1
    BY <1>1, <1>6 DEF ValidateBackfill, WithTolerance, CfgMembers
  <2>2. \A n \in DOMAIN cfg'.metrics : ~ (n < i')
    BY <1>2, <2>1
  <2>3. Formed(cfg')
    BY <2>1 DEF Settling, Formed
  <2> QED
    BY <1>6, <2>2, <2>3 DEF Settling, Accepted
<1>7. CASE Load /\ ValidateMetric /\ stage' = "metrics"
  <2> DEFINE w == WithDefaults(cfg.metrics[i])
  <2>1. /\ stage = "metrics" /\ i <= Len(cfg.metrics) /\ MetricValid(cfg.metrics[i])
        /\ cfg' = [cfg EXCEPT !.metrics[i] = w] /\ i' = i + 1
    BY <1>7 DEF ValidateMetric
  <2>2. i \in DOMAIN cfg.metrics /\ IsMetric(cfg.metrics[i])
    BY <1>1, <1>2, <2>1 DEF IInv, Shaped
  <2>3. Ready(w) /\ w.attributes = cfg.metrics[i].attributes /\ w.name = cfg.metrics[i].name
    BY <2>1, <2>2, ValidIsReady
  <2> HIDE DEF w
  <2>4. /\ cfg'.resource = cfg.resource /\ DOMAIN cfg'.metrics = DOMAIN cfg.metrics
        /\ \A n \in DOMAIN cfg.metrics : cfg'.metrics[n] = IF n = i THEN w ELSE cfg.metrics[n]
    BY <1>1, <2>1 DEF CfgMembers
  <2>5. ASSUME NEW n \in DOMAIN cfg'.metrics, n < i' PROVE Ready(cfg'.metrics[n])
    <3>1. n = i \/ n < i
      BY <1>1, <1>2, <2>1, <2>4, <2>5
    <3> QED
      BY <2>1, <2>3, <2>4, <3>1 DEF Settling
  <2>6. Formed(cfg)
    BY <2>1 DEF Settling
  <2>7. Formed(cfg')
    BY <2>2, <2>3, <2>4, <2>6 DEF Formed, MetricFormed
  <2> QED
    BY <1>7, <2>5, <2>7 DEF Settling, Accepted
<1>8. CASE Load /\ Accept
  <2>1. /\ stage = "metrics" /\ i > Len(cfg.metrics) /\ stage' = "accepted" /\ cfg' = cfg
    BY <1>8 DEF Accept
  <2>2. \A n \in DOMAIN cfg.metrics : n < i
    BY <1>1, <1>2, <2>1
  <2> QED
    BY <2>1, <2>2 DEF Settling
<1>9. CASE UNCHANGED <<cfg, stage, i>>
  BY <1>9 DEF Settling, Accepted
<1>10. CASE ValidateOnly \/ Render \/ StartCollector \/ New \/ RefuseURL \/ Invoke
  <2>1. /\ Loaded /\ Accepted /\ Accepted'
        /\ cfg'.resource = cfg.resource /\ cfg'.metrics = cfg.metrics
    BY <1>1, <1>10 DEF ValidateOnly, Render, StartCollector, New, RefuseURL, Invoke, WithEndpoint, CfgMembers, Accepted
  <2> QED
    BY <2>1, SettlingFrame
<1>11. CASE Load
  <2>1. \/ stage' \in {"evaluate", "decode", "refused"}
        \/ Decode /\ stage' = "otel"
        \/ (ValidateOtel \/ ValidateResourceAttribute) /\ stage' = "resource"
        \/ (ValidateBackfill \/ ValidateMetric) /\ stage' = "metrics"
        \/ Accept
    BY <1>11 DEF Load, LoadNext, Evaluate, Decode, ValidateOtel, ValidateResourceAttribute,
                 ValidateBackfill, ValidateMetric
  <2> QED
    BY <1>3, <1>4, <1>5, <1>6, <1>7, <1>8, <1>11, <2>1
<1>12. CASE Reload
  BY <1>3, <1>12 DEF Reload, LoadRendered
<1>13. CASE Handle \/ Exited \/ UNCHANGED vars
  BY <1>9, <1>13 DEF Handle, Exited, vars, configVars
<1> QED
  BY <1>10, <1>11, <1>12, <1>13 DEF Next

LEMMA AcceptedIsSettled ==
    ASSUME IInv, Written, Settling, Accepted
    PROVE  Settled(cfg)
<1>1. /\ EndpointOK /\ ToleranceOK /\ ResourceOK /\ MetricsOK
  BY DEF IInv, Validated
<1>2. stage \notin {"evaluate", "decode", "refused"}
  BY DEF Accepted
<1>3. Unmarshalled(cfg) /\ Formed(cfg) /\ \A n \in DOMAIN cfg.metrics : Ready(cfg.metrics[n])
  BY <1>2 DEF Written, Settling
<1> QED
  BY <1>1, <1>3 DEF Settled, IInv, Shaped, EndpointOK, ToleranceOK, ResourceOK, MetricsOK

\* A list of attributes is read as it was printed.
LEMMA AttributesRoundTrip ==
    ASSUME NEW as, AttributesFormed(as), AttributesUnmarshalled(as)
    PROVE  /\ AttributesDecode(RenderedAttributes(as))
           /\ DecodedAttributes(RenderedAttributes(as)) = as
<1>1. DecodedAttributes(RenderedAttributes(as)) = DecodedAttributes(as)
  BY DEF DecodedAttributes, RenderedAttributes
<1>2. AttributesDecode(RenderedAttributes(as))
  BY DEF AttributesFormed, AttributesUnmarshalled, AttributesDecode, RenderedAttributes
<1> QED
  BY <1>1, <1>2 DEF AttributesFormed

LEMMA MetricRoundTrip ==
    ASSUME NEW m, IsMetric(m), Ready(m), MetricFormed(m), MetricUnmarshalled(m)
    PROVE  /\ MetricDecodes(RenderedMetric(m))
           /\ Restored(DecodedMetric(RenderedMetric(m)), m)
<1> DEFINE r == RenderedMetric(m)
           d == DecodedMetric(r)
<1>1. /\ r.unknown = FALSE /\ r.name = m.name /\ r.interval = m.interval /\ r.type = {m.type} \ {"Count"}
      /\ r.attributes = RenderedAttributes(m.attributes) /\ r.filter = m.filter /\ r.value = m.value
      /\ r.boundaries = m.boundaries \ {<<>>}
  BY DEF RenderedMetric
<1>2. /\ AttributesDecode(r.attributes) /\ DecodedAttributes(r.attributes) = m.attributes
  BY <1>1, AttributesRoundTrip DEF MetricFormed, MetricUnmarshalled
<1>3. m.type \in {"Count", "Sum", "Histogram"}
  BY DEF IsMetric
<1>4. \A t \in {"Count", "Sum", "Histogram"} :
         t \in DOMAIN AggregationTypeString /\ AggregationTypeString[t] = t
  BY DEF AggregationTypeString
<1>5. m.interval # NotText
  BY ConfigAssumption DEF Ready
<1> HIDE DEF r
<1>6. MetricDecodes(r)
  BY <1>1, <1>2, <1>3, <1>4, <1>5 DEF MetricDecodes, MetricFormed, MetricUnmarshalled
<1>7. /\ d.name = r.name /\ d.interval = r.interval /\ d.attributes = DecodedAttributes(r.attributes)
      /\ d.filter = r.filter /\ d.value = r.value /\ d.boundaries = r.boundaries
      /\ d.type = IF r.type = {} THEN "Count" ELSE CHOOSE t \in {AggregationTypeString[x] : x \in r.type} : TRUE
  BY DEF DecodedMetric
<1> HIDE DEF d
<1>8. d.type = m.type
  <2>1. CASE m.type = "Count"
    BY <1>1, <1>7, <2>1
  <2>2. CASE m.type # "Count"
    <3>1. r.type = {m.type}
      BY <1>1, <2>2
    <3>2. {AggregationTypeString[x] : x \in r.type} = {m.type}
      BY <1>3, <1>4, <3>1
    <3> QED
      BY <1>7, <3>1, <3>2
  <2> QED
    BY <2>1, <2>2
<1> QED
  BY <1>1, <1>2, <1>6, <1>7, <1>8 DEF Restored, d, r

LEMMA RoundTrip ==
    ASSUME NEW c, Settled(c)
    PROVE  LET e == DecodedConfig(Rendered(c))
           IN  /\ Decodable(Rendered(c))
               /\ e.endpoint = c.endpoint /\ e.tolerance = c.tolerance /\ e.resource = c.resource
               /\ DOMAIN e.metrics = DOMAIN c.metrics
               /\ \A n \in DOMAIN c.metrics : Restored(e.metrics[n], c.metrics[n])
<1> DEFINE r == Rendered(c)
           e == DecodedConfig(r)
<1>1. /\ r.unknown = FALSE /\ r.endpoint = c.endpoint /\ r.tolerance = c.tolerance
      /\ r.resource = RenderedAttributes(c.resource)
      /\ r.metrics = [n \in DOMAIN c.metrics |-> RenderedMetric(c.metrics[n])]
  BY DEF Rendered
<1>2. AttributesDecode(r.resource) /\ DecodedAttributes(r.resource) = c.resource
  BY <1>1, AttributesRoundTrip DEF Settled, Formed, Unmarshalled
<1>3. \A n \in DOMAIN c.metrics : /\ MetricDecodes(RenderedMetric(c.metrics[n]))
                                  /\ Restored(DecodedMetric(RenderedMetric(c.metrics[n])), c.metrics[n])
  BY MetricRoundTrip DEF Settled, Formed, Unmarshalled
<1>4. c.endpoint # NotText /\ c.tolerance # NotText
  BY ConfigAssumption DEF Settled
<1> HIDE DEF r
<1>5. Decodable(r)
  BY <1>1, <1>2, <1>3, <1>4 DEF Decodable
<1>6. /\ e.endpoint = r.endpoint /\ e.tolerance = r.tolerance
      /\ e.resource = DecodedAttributes(r.resource)
      /\ e.metrics = [n \in DOMAIN r.metrics |-> DecodedMetric(r.metrics[n])]
  BY DEF DecodedConfig
<1> HIDE DEF e
<1>7. DOMAIN e.metrics = DOMAIN c.metrics /\ \A n \in DOMAIN c.metrics : Restored(e.metrics[n], c.metrics[n])
  BY <1>1, <1>3, <1>6
<1> QED
  BY <1>1, <1>2, <1>5, <1>6, <1>7 DEF e, r

\* A metric that was printed is valid, and its defaults do not change it.
LEMMA RestoredIsValid ==
    ASSUME NEW before, IsMetric(before), MetricUsable(before), Ready(before),
           NEW m, IsMetric(m), Restored(m, before)
    PROVE  MetricValid(m) /\ Restored(WithDefaults(m), before)
<1> DEFINE w == WithDefaults(m)
           B == BoundariesOf(m)
<1>1. /\ m.name = before.name /\ m.interval = before.interval /\ m.type = before.type
      /\ m.attributes = before.attributes /\ m.filter = before.filter /\ m.value = before.value
  BY DEF Restored
<1>2. Or(m.interval, "1m") = before.interval
  BY <1>1, ConfigAssumption DEF Ready, Or
<1>3. /\ w.name = m.name /\ w.interval = before.interval /\ w.type = m.type
      /\ w.attributes = m.attributes /\ w.filter = m.filter /\ w.value = m.value
      /\ m.type = "Histogram" => w.boundaries = {B}
  BY <1>2 DEF WithDefaults, IsMetric, MetricMembers
<1>4. ASSUME m.type = "Histogram"
      PROVE  /\ Increasing(B)
             /\ {B} = IF before.boundaries = {<<>>} THEN {DefaultHistogramBoundaries} ELSE before.boundaries
  <2>1. PICK b \in Seq(Int) : before.boundaries = {b} /\ Increasing(b)
    BY <1>1, <1>4 DEF Ready
  <2>2. Increasing(DefaultHistogramBoundaries)
    <3>1. DefaultHistogramBoundaries \in Seq(Int)
      BY ConfigAssumption
    <3>2. \A n \in 2..Len(DefaultHistogramBoundaries) :
             /\ n \in DOMAIN DefaultHistogramBoundaries /\ n - 1 \in DOMAIN DefaultHistogramBoundaries
             /\ n - 1 < n /\ DefaultHistogramBoundaries[n] \in Int /\ DefaultHistogramBoundaries[n - 1] \in Int
      <4>1. /\ DOMAIN DefaultHistogramBoundaries = 1..Len(DefaultHistogramBoundaries)
            /\ Len(DefaultHistogramBoundaries) \in Nat
        BY <3>1, LenProperties
      <4>2. \A k \in DOMAIN DefaultHistogramBoundaries : DefaultHistogramBoundaries[k] \in Int
        BY <3>1, <4>1, ElementOfSeq
      <4> QED
        BY <4>1, <4>2
    <3>3. \A n \in 2..Len(DefaultHistogramBoundaries) :
             DefaultHistogramBoundaries[n - 1] < DefaultHistogramBoundaries[n]
      BY <3>2, ConfigAssumption
    <3> QED
      BY <3>2, <3>3 DEF Increasing
  <2>3. m.boundaries \in {{b} \ {<<>>}, IF b = <<>> THEN {DefaultHistogramBoundaries} ELSE {b}}
    BY <1>1, <1>4, <2>1 DEF Restored
  <2>4. CASE b = <<>>
    <3>1. m.boundaries = {} \/ m.boundaries = {DefaultHistogramBoundaries}
      BY <2>3, <2>4
    <3>2. B = DefaultHistogramBoundaries
      BY <3>1 DEF BoundariesOf
    <3> QED
      BY <2>1, <2>2, <2>4, <3>2
  <2>5. CASE b # <<>>
    <3>1. m.boundaries = {b}
      BY <2>3, <2>5
    <3>2. B = b
      BY <3>1 DEF BoundariesOf
    <3> QED
      BY <2>1, <2>5, <3>2
  <2> QED
    BY <2>4, <2>5
<1> HIDE DEF w, B
<1>5. Restored(w, before)
  BY <1>1, <1>3, <1>4 DEF Restored
<1>6. MetricValid(m)
  BY <1>1, <1>2, <1>4 DEF MetricValid, MetricUsable, Ready, B
<1> QED
  BY <1>5, <1>6 DEF w

LEMMA AlsoLoadedFrame ==
    ASSUME NEW c, AlsoLoaded(c), UNCHANGED <<json, cfg>>,
           \/ stage' = stage
           \/ stage' \in {"resource", "metrics", "accepted"} /\ stage \in {"otel", "resource", "metrics", "accepted"}
           \/ stage' \notin {"evaluate", "refused", "decode", "otel", "resource", "metrics", "accepted"}
    PROVE  AlsoLoaded(c)'
  BY DEF AlsoLoaded

\* Loading what was printed goes on to the end.
LEMMA AlsoLoadedInLoad ==
    ASSUME IInv, NEW c, Settled(c), AlsoLoaded(c), Load
    PROVE  AlsoLoaded(c)'
<1> DEFINE InValidate == stage \in {"otel", "resource", "metrics", "accepted"}
<1>1. DOMAIN cfg = CfgMembers /\ IsList(cfg.metrics) /\ IsList(cfg.resource) /\ i \in Nat \ {0}
  BY DEF IInv, Shaped
<1>2. /\ DOMAIN cfg.metrics = 1..Len(cfg.metrics) /\ Len(cfg.metrics) \in Nat
      /\ DOMAIN cfg.resource = 1..Len(cfg.resource) /\ Len(cfg.resource) \in Nat
  BY <1>1, ListProperties
<1>3. json' = json \/ Evaluate
  BY DEF Load, LoadNext, Decode, ValidateOtel, ValidateResourceAttribute, ValidateBackfill, ValidateMetric, Accept
<1>4. ~ Evaluate
  BY DEF Evaluate, AlsoLoaded
<1>5. CASE Decode
  <2>1. json = {Rendered(c)}
    BY <1>5 DEF Decode, AlsoLoaded
  <2>2. cfg' = DecodedConfig(Rendered(c)) /\ stage' = "otel"
    BY <1>5, <2>1, RoundTrip DEF Decode
  <2> QED
    BY <2>2, RoundTrip DEF AlsoLoaded
<1>6. CASE ValidateOtel
  <2>1. cfg.endpoint = c.endpoint /\ stage = "otel"
    BY <1>6 DEF ValidateOtel, AlsoLoaded
  <2>2. Or(cfg.endpoint, DefaultEndpoint) = c.endpoint /\ c.endpoint \in HTTP
    BY <2>1, ConfigAssumption DEF Or, Settled
  <2>3. cfg' = WithEndpoint(cfg) /\ stage' = "resource"
    BY <1>6, <2>2 DEF ValidateOtel, OtelValid
  <2>4. /\ cfg'.endpoint = c.endpoint /\ cfg'.tolerance = cfg.tolerance
        /\ cfg'.resource = cfg.resource /\ cfg'.metrics = cfg.metrics
    BY <1>1, <2>2, <2>3 DEF WithEndpoint, CfgMembers
  <2> QED
    BY <2>1, <2>3, <2>4 DEF AlsoLoaded
<1>7. CASE ValidateResourceAttribute
  <2>1. stage = "resource" /\ i \in DOMAIN cfg.resource
    BY <1>1, <1>2, <1>7 DEF ValidateResourceAttribute
  <2>2. AttributeValid(cfg.resource[i])
    BY <2>1 DEF AlsoLoaded, Settled
  <2>3. UNCHANGED <<json, cfg, stage>>
    BY <1>7, <2>2 DEF ValidateResourceAttribute
  <2> QED
    BY <2>3, AlsoLoadedFrame
<1>8. CASE ValidateBackfill
  <2>1. cfg.tolerance = c.tolerance /\ stage = "resource"
    BY <1>8 DEF ValidateBackfill, AlsoLoaded
  <2>2. Or(cfg.tolerance, "1h") = c.tolerance /\ c.tolerance \in DOMAIN Duration
    BY <2>1, ConfigAssumption DEF Or, Settled
  <2>3. cfg' = WithTolerance(cfg) /\ stage' = "metrics"
    BY <1>8, <2>2 DEF ValidateBackfill, BackfillValid
  <2>4. /\ cfg'.endpoint = cfg.endpoint /\ cfg'.tolerance = c.tolerance
        /\ cfg'.resource = cfg.resource /\ cfg'.metrics = cfg.metrics
    BY <1>1, <2>2, <2>3 DEF WithTolerance, CfgMembers
  <2> QED
    BY <2>1, <2>3, <2>4 DEF AlsoLoaded
<1>9. CASE ValidateMetric
  <2> DEFINE w == WithDefaults(cfg.metrics[i])
  <2>1. stage = "metrics" /\ i \in DOMAIN cfg.metrics
    BY <1>1, <1>2, <1>9 DEF ValidateMetric
  <2>2. IsMetric(cfg.metrics[i]) /\ DOMAIN cfg.metrics = DOMAIN c.metrics /\ Restored(cfg.metrics[i], c.metrics[i])
    BY <2>1 DEF AlsoLoaded, IInv, Shaped
  <2>3. IsMetric(c.metrics[i]) /\ MetricUsable(c.metrics[i]) /\ Ready(c.metrics[i])
    BY <2>1, <2>2 DEF Settled
  <2>4. MetricValid(cfg.metrics[i]) /\ Restored(w, c.metrics[i])
    BY <2>2, <2>3, RestoredIsValid
  <2>5. cfg' = [cfg EXCEPT !.metrics[i] = w] /\ stage' = "metrics"
    BY <1>9, <2>4 DEF ValidateMetric
  <2> HIDE DEF w
  <2>6. /\ cfg'.endpoint = cfg.endpoint /\ cfg'.tolerance = cfg.tolerance /\ cfg'.resource = cfg.resource
        /\ DOMAIN cfg'.metrics = DOMAIN cfg.metrics
        /\ \A n \in DOMAIN cfg.metrics : cfg'.metrics[n] = IF n = i THEN w ELSE cfg.metrics[n]
    BY <1>1, <2>5 DEF CfgMembers
  <2> QED
    BY <2>1, <2>2, <2>4, <2>5, <2>6 DEF AlsoLoaded
<1>10. CASE Accept
  BY <1>10, AlsoLoadedFrame DEF Accept
<1> QED
  BY <1>4, <1>5, <1>6, <1>7, <1>8, <1>9, <1>10 DEF Load, LoadNext

LEMMA ReloadedStep ==
    ASSUME IInv, Written, Settling, Reloaded, [Next]_vars
    PROVE  Reloaded'
<1>1. ASSUME NEW c \in rendered, rendered' = rendered, AlsoLoaded(c)'
      PROVE  Settled(c)' /\ AlsoLoaded(c)'
  BY <1>1 DEF Reloaded
<1>2. CASE Reload
  <2>1. /\ stage = "rendered" /\ rendered' = {cfg} /\ json' = {Rendered(cfg)} /\ stage' = "decode"
    BY <1>2 DEF Reload, LoadRendered
  <2>2. Settled(cfg)
    BY <2>1, AcceptedIsSettled DEF Accepted
  <2>3. ASSUME NEW c \in rendered' PROVE Settled(c) /\ AlsoLoaded(c)'
    BY <2>1, <2>2, <2>3 DEF AlsoLoaded
  <2> QED
    BY <2>3 DEF Reloaded
<1>3. CASE ~ Reload
  <2>1. rendered' = rendered
    BY <1>3 DEF Next, Load, LoadNext, Evaluate, Decode, ValidateOtel, ValidateResourceAttribute,
           ValidateBackfill, ValidateMetric, Accept, ValidateOnly, Render,
           StartCollector, New, RefuseURL, Invoke, Handle, Exited, vars, configVars
  <2>2. ASSUME NEW c \in rendered PROVE AlsoLoaded(c)'
    <3>1. Settled(c) /\ AlsoLoaded(c)
      BY DEF Reloaded
    <3>2. CASE Load
      BY <3>1, <3>2, AlsoLoadedInLoad
    <3>3. CASE ValidateOnly \/ Render \/ StartCollector \/ New \/ RefuseURL \/ Invoke
      <4>1. /\ stage' \notin {"evaluate", "refused", "decode", "otel", "resource", "metrics", "accepted"}
        BY <3>3 DEF ValidateOnly, Render, StartCollector, New, RefuseURL, Invoke
      <4> QED
        BY <4>1 DEF AlsoLoaded
    <3>4. CASE Handle \/ Exited \/ UNCHANGED vars
      <4>1. UNCHANGED <<json, cfg, stage>>
        BY <3>4 DEF Handle, Exited, vars, configVars
      <4> QED
        BY <3>1, <4>1, AlsoLoadedFrame
    <3> QED
      BY <1>3, <3>2, <3>3, <3>4 DEF Next
  <2>3. ASSUME NEW c \in rendered' PROVE Settled(c) /\ AlsoLoaded(c)'
    BY <2>1, <2>2, <2>3 DEF Reloaded
  <2> QED
    BY <2>3 DEF Reloaded
<1> QED
  BY <1>2, <1>3

LEMMA InitReloaded == Init => Written /\ Settling /\ Reloaded
<1> SUFFICES ASSUME Init PROVE Written /\ Settling /\ Reloaded
  OBVIOUS
<1>1. json = {} /\ rendered = {} /\ stage = "evaluate" /\ \A f \in FieldsIn(doc) : IsWritten(f)
  BY CommandAssumption DEF Init, LoadInit
<1> QED
  BY <1>1 DEF Written, Settling, Reloaded, Accepted

\* A configuration that was printed, read again and accepted is the one that
\* was printed, but for the boundaries that an empty list stands for.
LEMMA ReloadedIsSame ==
    ASSUME IInv, Reloaded
    PROVE  RenderedMeansSame
<1> DEFINE Same(m, before) ==
        /\ [m EXCEPT !.boundaries = {}] = [before EXCEPT !.boundaries = {}]
        /\ m.type = "Histogram" =>
              m.boundaries = IF before.boundaries = {<<>>} THEN {DefaultHistogramBoundaries}
                             ELSE before.boundaries
<1>1. ASSUME NEW c \in rendered PROVE stage # "refused"
  BY DEF Reloaded, AlsoLoaded
<1>2. ASSUME NEW c \in rendered, stage = "accepted"
      PROVE  /\ [cfg EXCEPT !.metrics = <<>>] = [c EXCEPT !.metrics = <<>>]
             /\ DOMAIN cfg.metrics = DOMAIN c.metrics
             /\ \A n \in DOMAIN c.metrics : Same(cfg.metrics[n], c.metrics[n])
  <2>1. Settled(c) /\ AlsoLoaded(c)
    BY DEF Reloaded
  <2>2. /\ DOMAIN cfg = CfgMembers /\ EndpointOK /\ ToleranceOK /\ MetricsOK
        /\ \A n \in DOMAIN cfg.metrics : IsMetric(cfg.metrics[n])
    BY <1>2 DEF IInv, Shaped, Validated, Accepted
  <2>3. /\ cfg.endpoint = c.endpoint /\ cfg.tolerance = c.tolerance /\ cfg.resource = c.resource
        /\ DOMAIN cfg.metrics = DOMAIN c.metrics
        /\ \A n \in DOMAIN c.metrics : Restored(cfg.metrics[n], c.metrics[n])
    BY <1>2, <2>1 DEF AlsoLoaded
  <2>4. cfg.endpointURL = c.endpointURL /\ cfg.timeTolerance = c.timeTolerance /\ DOMAIN c = CfgMembers
    BY <2>1, <2>2, <2>3 DEF Settled, EndpointOK, ToleranceOK
  <2>5. [cfg EXCEPT !.metrics = <<>>] = [c EXCEPT !.metrics = <<>>]
    BY <2>2, <2>3, <2>4 DEF CfgMembers
  <2>6. ASSUME NEW n \in DOMAIN c.metrics PROVE Same(cfg.metrics[n], c.metrics[n])
    <3> DEFINE m == cfg.metrics[n]
               before == c.metrics[n]
    <3>1. IsMetric(m) /\ MetricUsable(m) /\ Restored(m, before)
      BY <2>2, <2>3 DEF MetricsOK
    <3>2. IsMetric(before) /\ MetricUsable(before) /\ Ready(before)
      BY <2>1 DEF Settled
    <3> HIDE DEF m, before
    <3>3. m.aggregateInterval = before.aggregateInterval
      BY <3>1, <3>2 DEF MetricUsable, Restored
    <3>4. [m EXCEPT !.boundaries = {}] = [before EXCEPT !.boundaries = {}]
      BY <3>1, <3>2, <3>3 DEF IsMetric, MetricMembers, Restored
    <3>5. ASSUME m.type = "Histogram"
          PROVE  m.boundaries = IF before.boundaries = {<<>>} THEN {DefaultHistogramBoundaries}
                                ELSE before.boundaries
      <4>1. before.type = "Histogram" /\ m.boundaries # {}
        BY <3>1, <3>5 DEF Restored, MetricUsable
      <4>2. PICK b \in Seq(Int) : before.boundaries = {b}
        BY <3>2, <4>1 DEF Ready
      <4>3. m.boundaries \in {{b} \ {<<>>}, IF {b} = {<<>>} THEN {DefaultHistogramBoundaries} ELSE {b}}
        BY <3>1, <3>5, <4>2 DEF Restored
      <4> QED
        BY <4>1, <4>2, <4>3
    <3> QED
      BY <3>4, <3>5 DEF m, before
  <2> QED
    BY <2>3, <2>5, <2>6
<1> QED
  BY <1>1, <1>2 DEF RenderedMeansSame

\* What --render-config prints is accepted by the process that loads it, and
\* is the same configuration: nothing that Validate fills in is changed by
\* printing and reading it, except that a histogram written with no boundaries
\* comes back with the default ones.
THEOREM RenderingKeepsConfiguration == Spec => []RenderedMeansSame
<1>1. Spec => []IInv
  <2>1. Init => IInv
    BY InitInv
  <2>2. IInv /\ [Next]_vars => IInv'
    BY NextStep
  <2> QED
    BY <2>1, <2>2, PTL DEF Spec
<1>2. IInv /\ IInv' /\ Written /\ Settling /\ Reloaded /\ [Next]_vars => (Written /\ Settling /\ Reloaded)'
  BY WrittenStep, SettlingStep, ReloadedStep
<1>3. IInv /\ Reloaded => RenderedMeansSame
  BY ReloadedIsSame
<1> QED
  BY InitReloaded, <1>1, <1>2, <1>3, PTL DEF Spec
=============================================================================
