--------------------------- MODULE PipelineProofs ---------------------------
(***************************************************************************)
(* Theorems about Pipeline, for every set of messages, objects, resources  *)
(* and concurrent invocations.                                             *)
(***************************************************************************)
EXTENDS Pipeline, DataLemmas

PayloadType == [resource : Resources, objects : SUBSET Objects]

-----------------------------------------------------------------------------
(* What a notification is aggregated to, and what an export does *)

\* generateMetrics returns payloads, for each resource of its sources at least
\* one that has the objects with lines in it.
LEMMA PayloadsProperties ==
    ASSUME PipelineAssumption, TypeOK, NEW o \in Objects, NEW ms \in Payloads(o)
    PROVE  /\ ms \in Seq(PayloadType)
           /\ \A k \in DOMAIN ms : \E r \in Resources :
                 /\ ms[k] = [resource |-> r, objects |-> {p \in Sources(o) : r \in ResourcesOf[p]}]
                 /\ \E p \in Sources(o) : r \in ResourcesOf[p]
           /\ \A r \in ResourcesOf[o] : \E k \in DOMAIN ms :
                 ms[k].resource = r /\ o \in ms[k].objects
<1> DEFINE rs == UNION {ResourcesOf[p] : p \in Sources(o)}
<1>1. Sources(o) \subseteq Objects /\ o \in Sources(o)
  BY DEF Sources, TypeOK
<1>2. rs \subseteq Resources /\ ResourcesOf[o] \subseteq rs
  BY <1>1 DEF PipelineAssumption
<1>3. Cardinality(rs) \in Nat
  BY <1>2, FS_Subset, FS_CardinalityType DEF PipelineAssumption
<1>4. PICK f \in [1..Cardinality(rs) -> rs] :
         Range(f) = rs /\ ms = [i \in DOMAIN f |-> Payload(o, f[i])]
  BY DEF Payloads
<1> HIDE DEF rs
<1>5. DOMAIN ms = 1..Cardinality(rs)
  BY <1>4
<1>6. \A k \in DOMAIN ms : f[k] \in Resources /\ ms[k] = Payload(o, f[k])
  BY <1>2, <1>4, <1>5
<1>7. \A r \in Resources : Payload(o, r) \in PayloadType
  BY <1>1 DEF Payload, PayloadType
<1>8. ms \in Seq(PayloadType)
  <2>1. ms \in [1..Cardinality(rs) -> PayloadType]
    BY <1>4, <1>5, <1>6, <1>7
  <2> QED
    BY <1>3, <2>1, SeqDef
<1>9. \A k \in DOMAIN ms : \E r \in Resources :
         /\ ms[k] = [resource |-> r, objects |-> {p \in Sources(o) : r \in ResourcesOf[p]}]
         /\ \E p \in Sources(o) : r \in ResourcesOf[p]
  <2>1. \A k \in DOMAIN ms : \E p \in Sources(o) : f[k] \in ResourcesOf[p]
    BY <1>4, <1>5 DEF rs
  <2> QED
    BY <1>6, <2>1 DEF Payload
<1>10. ASSUME NEW r \in ResourcesOf[o]
       PROVE  \E k \in DOMAIN ms : ms[k].resource = r /\ o \in ms[k].objects
  <2>1. PICK k \in DOMAIN f : f[k] = r
    BY <1>2, <1>4 DEF Range
  <2>2. k \in DOMAIN ms /\ ms[k] = Payload(o, r)
    BY <1>4, <2>1
  <2> QED
    BY <1>1, <2>2 DEF Payload
<1> QED
  BY <1>8, <1>9, <1>10

\* A sending that was received counts every object of its payload but those
\* rejected.  Without backfill it adds to what the backend has, at most once
\* for each time it was sent, and takes nothing away.
LEMMA ReceivedProperties ==
    ASSUME TypeOK, NEW p \in PayloadType, NEW R, NEW sends \in Nat
    PROVE  /\ Received(p, R, sends) \in [Resources -> [Objects -> Nat]]
           /\ sends > 0 => \A o \in p.objects \ R : Received(p, R, sends)[p.resource][o] >= 1
           /\ ~ BackfillEnabled =>
                 /\ \A r \in Resources, o \in Objects : Received(p, R, sends)[r][o] >= store[r][o]
                 /\ \A r \in Resources, o \in Objects :
                       Received(p, R, sends)[r][o] <= store[r][o] + sends
                 /\ \A r \in Resources, o \in Objects :
                       Received(p, R, sends)[r][o] > store[r][o] => r = p.resource /\ o \in p.objects
<1> DEFINE new(r, o) ==
      IF r # p.resource \/ o \in R \/ sends = 0 THEN store[r][o]
      ELSE IF BackfillEnabled THEN (IF o \in p.objects THEN 1 ELSE 0)
      ELSE store[r][o] + sends * (IF o \in p.objects THEN 1 ELSE 0)
<1>1. Received(p, R, sends) = [r \in Resources |-> [o \in Objects |-> new(r, o)]]
  BY DEF Received
<1>2. p.resource \in Resources /\ p.objects \subseteq Objects
  BY DEF PayloadType
<1>3. ASSUME NEW r \in Resources, NEW o \in Objects
      PROVE  /\ new(r, o) \in Nat
             /\ ~ BackfillEnabled => new(r, o) >= store[r][o] /\ new(r, o) <= store[r][o] + sends
             /\ (~ BackfillEnabled /\ new(r, o) > store[r][o]) => r = p.resource /\ o \in p.objects
             /\ (sends > 0 /\ r = p.resource /\ o \in p.objects /\ o \notin R) => new(r, o) >= 1
  <2>1. store[r][o] \in Nat
    BY DEF TypeOK
  <2>2. CASE o \in p.objects
    <3>1. new(r, o) = IF r # p.resource \/ o \in R \/ sends = 0 THEN store[r][o]
                      ELSE IF BackfillEnabled THEN 1 ELSE store[r][o] + sends
      BY <2>2
    <3> HIDE DEF new
    <3> QED
      BY <2>1, <2>2, <3>1
  <2>3. CASE o \notin p.objects
    <3>1. new(r, o) = IF r # p.resource \/ o \in R \/ sends = 0 THEN store[r][o]
                      ELSE IF BackfillEnabled THEN 0 ELSE store[r][o]
      BY <2>1, <2>3
    <3> HIDE DEF new
    <3> QED
      BY <2>1, <2>3, <3>1
  <2> QED
    BY <2>2, <2>3
<1> HIDE DEF new
<1> QED
  BY <1>1, <1>2, <1>3

-----------------------------------------------------------------------------
(* Types *)

\* A message waiting in the queue may be received once more, and a slot
\* without an invocation has nothing left of the last one.
Fresh ==
    /\ \A m \in Messages :
          /\ queue[m] = "unsent" => receives[m] = 0
          /\ queue[m] = "visible" => receives[m] < MaxReceives
    /\ \A s \in Slots : pc[s] \in {"idle", "invoke"} =>
          next[s] = 1 /\ metrics[s] = <<>> /\ at[s] = 1 /\ ~ failed[s] /\ exporter[s] = "none"

WellTyped == TypeOK /\ Fresh

\* Free leaves a slot as it was at the start.
LEMMA FreeKeepsTypes ==
    ASSUME PipelineAssumption, WellTyped, NEW s \in Slots, Free(s),
           queue' \in [Messages -> {"unsent", "visible", "inflight", "deleted", "dead"}],
           \A m \in Messages : queue'[m] = queue[m] \/ queue'[m] \notin {"unsent", "visible"},
           UNCHANGED <<bucket, receives, backendVars>>
    PROVE  WellTyped'
<1>1. <<>> \in Seq(PayloadType) /\ Len(<<>>) = 0
  BY EmptySeq
<1>2. \A t \in Slots : SlotInRange(t)'
  <2>1. ASSUME NEW t \in Slots, t # s PROVE SlotInRange(t)'
    BY <2>1 DEF WellTyped, TypeOK, Free, SlotInRange
  <2>2. SlotInRange(s)'
    BY <1>1 DEF WellTyped, TypeOK, Free, SlotInRange
  <2> QED
    BY <2>1, <2>2
<1>3. /\ msg' \in [Slots -> Messages \cup {None}]
      /\ pc' \in [Slots -> {"idle", "invoke", "generate", "export", "shutdown", "return"}]
      /\ next' \in [Slots -> Nat \ {0}]
      /\ metrics' \in [Slots -> Seq([resource : Resources, objects : SUBSET Objects])]
      /\ at' \in [Slots -> Nat \ {0}]
      /\ failed' \in [Slots -> BOOLEAN]
      /\ exporter' \in [Slots -> {"none", "open", "shut"}]
  <2>1. <<>> \in Seq([resource : Resources, objects : SUBSET Objects])
    BY <1>1 DEF PayloadType
  <2>2. failed' \in [Slots -> BOOLEAN]
    BY DEF WellTyped, TypeOK, Free
  <2>3. /\ msg' \in [Slots -> Messages \cup {None}]
        /\ exporter' \in [Slots -> {"none", "open", "shut"}]
    BY DEF WellTyped, TypeOK, Free
  <2>4. /\ pc' \in [Slots -> {"idle", "invoke", "generate", "export", "shutdown", "return"}]
        /\ next' \in [Slots -> Nat \ {0}]
        /\ at' \in [Slots -> Nat \ {0}]
    BY DEF WellTyped, TypeOK, Free
  <2>5. metrics' \in [Slots -> Seq([resource : Resources, objects : SUBSET Objects])]
    BY <2>1 DEF WellTyped, TypeOK, Free
  <2> QED
    BY <2>2, <2>3, <2>4, <2>5
<1>4. TypeOK'
  BY <1>2, <1>3 DEF WellTyped, TypeOK, backendVars
<1>5. Fresh'
  BY DEF WellTyped, TypeOK, Fresh, Free
<1> QED
  BY <1>4, <1>5 DEF WellTyped

\* What the types say of the sequences
LEMMA Lengths ==
    ASSUME PipelineAssumption, TypeOK
    PROVE  /\ \A m \in Messages : Records[m] \in Seq(Objects) /\ Len(Records[m]) \in Nat
           /\ \A s \in Slots : metrics[s] \in Seq(PayloadType) /\ Len(metrics[s]) \in Nat
           /\ \A s \in Slots : pc[s] # "idle" => msg[s] \in Messages
           /\ \A s \in Slots : SlotInRange(s)
  BY LenProperties DEF PipelineAssumption, TypeOK, PayloadType, SlotInRange

\* What an export does to the backend, and what is on its way afterwards
LEMMA ExportIs ==
    ASSUME PipelineAssumption, TypeOK, NEW s \in Slots, Export(s)
    PROVE  /\ at[s] \in DOMAIN metrics[s] /\ metrics[s][at[s]] \in PayloadType
           /\ \E sends \in Nat, R \in SUBSET metrics[s][at[s]].objects, error \in BOOLEAN :
                 /\ sends <= MaxSends
                 /\ sends = 0 => error
                 /\ R # {} => metrics[s][at[s]].resource \in Rejectable
                 /\ failed' = [failed EXCEPT ![s] = @ \/ error]
                 /\ store' = Received(metrics[s][at[s]], R, sends)
                 /\ rejected' = rejected \cup (R \X {metrics[s][at[s]].resource})
                 /\ \/ late' = late
                    \/ \E w \in Wires : /\ late' = late \cup {<<w, metrics[s][at[s]]>>}
                                        /\ sends < MaxSends
<1>1. at[s] \in Nat \ {0} /\ at[s] <= Len(metrics[s])
  BY DEF TypeOK, Export
<1>2. /\ metrics[s] \in Seq(PayloadType) /\ Len(metrics[s]) \in Nat
      /\ DOMAIN metrics[s] = 1..Len(metrics[s])
  BY Lengths, LenProperties
<1>3. at[s] \in DOMAIN metrics[s] /\ metrics[s][at[s]] \in PayloadType
  BY <1>1, <1>2, ElementOfSeq
<1> DEFINE p == metrics[s][at[s]]
<1>4. PICK error \in BOOLEAN : ExportGives(p, error) /\ failed' = [failed EXCEPT ![s] = @ \/ error]
  BY DEF Export
<1> HIDE DEF p
<1>5. PICK sends \in 0..MaxSends, R \in SUBSET p.objects,
           l \in {late} \cup {late \cup {<<w, p>>} : w \in FreeWires} :
         /\ sends = 0 \/ l # late => error
         /\ l # late => sends < MaxSends
         /\ R # {} => ~ error /\ p.resource \in Rejectable
         /\ store' = Received(p, R, sends)
         /\ rejected' = rejected \cup (R \X {p.resource})
         /\ late' = l
  BY <1>4 DEF ExportGives
<1>6. sends \in Nat /\ sends <= MaxSends
  BY DEF PipelineAssumption
<1>7. \/ late' = late
      \/ \E w \in Wires : late' = late \cup {<<w, p>>} /\ sends < MaxSends
  BY <1>5 DEF FreeWires
<1> QED
  BY <1>3, <1>4, <1>5, <1>6, <1>7 DEF p

\* What is on its way is a payload on a wire.
LEMMA LateType ==
    ASSUME TypeOK, NEW l \in late
    PROVE  l[1] \in Wires /\ l[2] \in PayloadType /\ l = <<l[1], l[2]>>
  BY DEF TypeOK, PayloadType

\* Every step keeps the types.
LEMMA TypeStep ==
    ASSUME PipelineAssumption, WellTyped, [Next]_vars
    PROVE  WellTyped'
<1> USE DEF WellTyped
<1>1. /\ \A m \in Messages : Records[m] \in Seq(Objects) /\ Len(Records[m]) \in Nat
      /\ \A s \in Slots : metrics[s] \in Seq(PayloadType) /\ Len(metrics[s]) \in Nat
      /\ \A s \in Slots : pc[s] # "idle" => msg[s] \in Messages
      /\ \A s \in Slots : SlotInRange(s)
  BY Lengths
<1>2. ASSUME UNCHANGED slotVars PROVE \A s \in Slots : SlotInRange(s)'
  BY <1>1, <1>2 DEF SlotInRange, slotVars
<1>3. ASSUME NEW o \in Objects, Put(o) PROVE WellTyped'
  BY <1>2, <1>3 DEF TypeOK, Fresh, Put, slotVars, backendVars
<1>4. ASSUME NEW m \in Messages, Notify(m) PROVE WellTyped'
  <2>1. TypeOK'
    BY <1>2, <1>4 DEF TypeOK, Notify, slotVars, backendVars
  <2>2. Fresh'
    BY <1>4 DEF TypeOK, Fresh, Notify, slotVars, PipelineAssumption
  <2> QED
    BY <2>1, <2>2
<1>5. ASSUME NEW m \in Messages, Expire(m) PROVE WellTyped'
  <2>1. TypeOK'
    BY <1>2, <1>5 DEF TypeOK, Expire, slotVars, backendVars
  <2>2. Fresh'
    BY <1>5 DEF TypeOK, Fresh, Expire, slotVars
  <2> QED
    BY <2>1, <2>2
<1>6. ASSUME NEW s \in Slots, NEW m \in Messages, Receive(s, m) PROVE WellTyped'
  <2>1. receives[m] + 1 \in 0..MaxReceives
    BY <1>6 DEF TypeOK, Fresh, Receive, PipelineAssumption
  <2>2. \A t \in Slots : SlotInRange(t)'
    <3>1. ASSUME NEW t \in Slots, t # s PROVE SlotInRange(t)'
      BY <1>1, <1>6, <3>1 DEF TypeOK, Receive, SlotInRange
    <3>2. next[s] = 1 /\ Len(Records[m]) \in Nat
      BY <1>1, <1>6 DEF Fresh, Receive
    <3>3. SlotInRange(s)'
      BY <1>1, <1>6, <3>2 DEF TypeOK, Receive, SlotInRange, PipelineAssumption
    <3> QED
      BY <3>1, <3>3
  <2>3. TypeOK'
    BY <1>6, <2>1, <2>2 DEF TypeOK, Receive, backendVars
  <2>4. Fresh'
    BY <1>6 DEF TypeOK, Fresh, Receive
  <2> QED
    BY <2>3, <2>4
<1>7. ASSUME NEW s \in Slots, Acknowledge(s) \/ Refuse(s) \/ Kill(s) PROVE WellTyped'
  <2>1. /\ queue' \in [Messages -> {"unsent", "visible", "inflight", "deleted", "dead"}]
        /\ \A m \in Messages : queue'[m] = queue[m] \/ queue'[m] \notin {"unsent", "visible"}
    BY <1>7 DEF TypeOK, Acknowledge, Refuse, Kill, queueVars
  <2>2. Free(s) /\ UNCHANGED <<bucket, receives, backendVars>>
    BY <1>7 DEF Acknowledge, Refuse, Kill, queueVars
  <2> QED
    BY <2>1, <2>2, FreeKeepsTypes
<1>8. ASSUME NEW s \in Slots,
             InvokeNothing(s) \/ NewExporter(s) \/ NewExporterFails(s) \/ GenerateFails(s)
                \/ GenerateEnds(s) \/ ExportEnds(s) \/ Shutdown(s)
      PROVE  WellTyped'
  <2> DEFINE States == {"generate", "export", "shutdown", "return"}
  <2>1. /\ pc[s] # "idle"
        /\ \E p \in States : pc' = [pc EXCEPT ![s] = p]
        /\ failed' = failed \/ failed' = [failed EXCEPT ![s] = TRUE]
        /\ \/ exporter' = exporter
           \/ exporter' = [exporter EXCEPT ![s] = "open"]
           \/ exporter' = [exporter EXCEPT ![s] = "shut"]
        /\ UNCHANGED <<queueVars, msg, next, metrics, at, backendVars>>
    BY <1>8 DEF InvokeNothing, NewExporter, NewExporterFails, GenerateFails,
       GenerateEnds, ExportEnds, Shutdown
  <2>2. \A t \in Slots : SlotInRange(t)'
    BY <1>1, <2>1 DEF TypeOK, SlotInRange
  <2>3. /\ pc' \in [Slots -> {"idle", "invoke", "generate", "export", "shutdown", "return"}]
        /\ failed' \in [Slots -> BOOLEAN]
        /\ exporter' \in [Slots -> {"none", "open", "shut"}]
    <3>1. pc' \in [Slots -> {"idle", "invoke", "generate", "export", "shutdown", "return"}]
      BY <2>1 DEF TypeOK
    <3>2. failed' \in [Slots -> BOOLEAN]
      BY <2>1 DEF TypeOK
    <3>3. exporter' \in [Slots -> {"none", "open", "shut"}]
      BY <2>1 DEF TypeOK
    <3> QED
      BY <3>1, <3>2, <3>3
  <2>4. TypeOK'
    BY <2>1, <2>2, <2>3 DEF TypeOK, queueVars, backendVars
  <2>5. Fresh'
    BY <2>1 DEF TypeOK, Fresh, queueVars
  <2> QED
    BY <2>4, <2>5
<1>9. ASSUME NEW s \in Slots, Generate(s) PROVE WellTyped'
  <2>1. next[s] \in DOMAIN Records[msg[s]] /\ msg[s] \in Messages
    BY <1>1, <1>9, LenProperties DEF TypeOK, Generate, Notifications
  <2>2. Records[msg[s]][next[s]] \in Objects
    BY <1>1, <2>1, ElementOfSeq, LenProperties
  <2>3. PICK ms \in Payloads(Records[msg[s]][next[s]]) :
           metrics' = [metrics EXCEPT ![s] = @ \o ms]
    BY <1>9 DEF Generate, Notifications
  <2>4. ms \in Seq(PayloadType) /\ Len(ms) \in Nat
    BY <2>2, PayloadsProperties, LenProperties
  <2>5. metrics[s] \o ms \in Seq(PayloadType) /\ Len(metrics[s] \o ms) >= Len(metrics[s])
    BY <1>1, <2>4, ConcatProperties
  <2>6. metrics' \in [Slots -> Seq(PayloadType)]
    BY <1>1, <2>3, <2>5 DEF TypeOK
  <2>7. \A t \in Slots : SlotInRange(t)'
    <3>1. ASSUME NEW t \in Slots, t # s PROVE SlotInRange(t)'
      BY <1>1, <1>9, <2>3, <3>1 DEF TypeOK, Generate, SlotInRange
    <3>2. next[s] \in Nat /\ at[s] \in Nat /\ next[s] <= Len(Records[msg[s]])
      BY <1>9 DEF TypeOK, Generate, Notifications
    <3>3. /\ next'[s] = next[s] + 1 /\ at'[s] = at[s] /\ msg'[s] = msg[s] /\ pc'[s] = pc[s]
          /\ metrics'[s] = metrics[s] \o ms
      BY <1>9, <2>3 DEF TypeOK, Generate
    <3>4. Len(metrics[s] \o ms) \in Nat
      BY <2>5, LenProperties
    <3>5. SlotInRange(s)'
      <4>1. msg[s] = None <=> pc[s] = "idle"
        BY <1>1 DEF SlotInRange
      <4>2. next'[s] <= Len(Records[msg[s]]) + 1
        <5>1. Len(Records[msg[s]]) \in Nat
          BY <1>1, <2>1
        <5> QED
          BY <3>2, <3>3, <5>1
      <4>3. at[s] <= Len(metrics[s]) + 1 /\ Len(metrics[s]) \in Nat
        BY <1>1 DEF SlotInRange
      <4>4. at'[s] <= Len(metrics[s] \o ms) + 1
        BY <2>5, <3>2, <3>3, <3>4, <4>3
      <4> QED
        BY <3>3, <4>1, <4>2, <4>4 DEF SlotInRange
    <3> QED
      BY <3>1, <3>5
  <2>8. TypeOK'
    <3>1. next' \in [Slots -> Nat \ {0}]
      BY <1>9 DEF TypeOK, Generate
    <3>2. UNCHANGED <<bucket, queue, receives, msg, pc, at, failed, exporter, backendVars>>
      BY <1>9 DEF Generate, queueVars
    <3> QED
      BY <2>6, <2>7, <3>1, <3>2 DEF TypeOK, PayloadType, backendVars
  <2>9. Fresh'
    BY <1>9, <2>3 DEF TypeOK, Fresh, Generate, queueVars
  <2> QED
    BY <2>8, <2>9
<1>10. ASSUME NEW s \in Slots, Export(s) PROVE WellTyped'
  <2> DEFINE p == metrics[s][at[s]]
  <2>1. at[s] \in 1..Len(metrics[s]) /\ p \in PayloadType
    BY <1>1, <1>10, ExportIs, LenProperties
  <2>2. PICK sends \in Nat, R \in SUBSET p.objects :
           /\ R # {} => p.resource \in Rejectable
           /\ store' = Received(p, R, sends)
           /\ rejected' = rejected \cup (R \X {p.resource})
           /\ late' = late \/ \E w \in Wires : late' = late \cup {<<w, p>>}
    BY <1>10, ExportIs
  <2>3. /\ store' \in [Resources -> [Objects -> Nat]]
        /\ rejected' \subseteq Objects \X Rejectable
        /\ late' \subseteq Wires \X [resource : Resources, objects : SUBSET Objects]
    <3> HIDE DEF p
    <3>1. store' \in [Resources -> [Objects -> Nat]]
      BY <2>1, <2>2, ReceivedProperties
    <3>2. R \X {p.resource} \subseteq Objects \X Rejectable
      BY <2>1, <2>2 DEF PayloadType
    <3>3. rejected' \subseteq Objects \X Rejectable
      BY <2>2, <3>2 DEF TypeOK
    <3>4. late' \subseteq Wires \X [resource : Resources, objects : SUBSET Objects]
      BY <2>1, <2>2 DEF TypeOK, PayloadType
    <3> QED
      BY <3>1, <3>3, <3>4
  <2>4. \A t \in Slots : SlotInRange(t)'
    <3>1. ASSUME NEW t \in Slots, t # s PROVE SlotInRange(t)'
      BY <1>1, <1>10, <3>1 DEF TypeOK, Export, SlotInRange
    <3>2. SlotInRange(s)'
      BY <1>1, <1>10, <2>1 DEF TypeOK, Export, SlotInRange
    <3> QED
      BY <3>1, <3>2
  <2>5. TypeOK'
    <3>1. at' \in [Slots -> Nat \ {0}] /\ failed' \in [Slots -> BOOLEAN]
      BY <1>10 DEF TypeOK, Export
    <3>2. UNCHANGED <<bucket, queue, receives, msg, pc, next, metrics, exporter>>
      BY <1>10 DEF Export, queueVars
    <3> QED
      BY <2>3, <2>4, <3>1, <3>2 DEF TypeOK
  <2>6. Fresh'
    BY <1>10 DEF TypeOK, Fresh, Export, queueVars
  <2> QED
    BY <2>5, <2>6
<1>11. ASSUME NEW l \in late, Arrive(l) PROVE WellTyped'
  <2>1. store' \in [Resources -> [Objects -> Nat]]
    BY <1>11, LateType, ReceivedProperties DEF Arrive
  <2>2. /\ UNCHANGED <<queueVars, slotVars, rejected>>
        /\ late' \subseteq late
    BY <1>11 DEF Arrive
  <2>3. TypeOK'
    BY <1>2, <2>1, <2>2 DEF TypeOK, slotVars, queueVars
  <2>4. Fresh'
    BY <2>2 DEF Fresh, slotVars, queueVars
  <2> QED
    BY <2>3, <2>4
<1>12. CASE UNCHANGED vars
  BY <1>2, <1>12 DEF vars, slotVars, TypeOK, Fresh
<1> QED
  BY <1>3, <1>4, <1>5, <1>6, <1>7, <1>8, <1>9, <1>10, <1>11, <1>12
     DEF Next, Invocation, Leave, AllSettled

\* The variables of Pipeline keep their types, and what a slot has of its
\* invocation stays in range.
THEOREM TypeCorrect == Spec => []TypeOK
<1>1. Init => WellTyped
  <2>1. <<>> \in Seq(PayloadType) /\ Len(<<>>) = 0
    BY EmptySeq
  <2> QED
    BY <2>1, PipelineAssumption, LenProperties
       DEF Init, WellTyped, TypeOK, Fresh, SlotInRange, PipelineAssumption, PayloadType
<1>2. WellTyped /\ [Next]_vars => WellTyped'
  BY TypeStep, PipelineAssumption
<1>3. WellTyped => TypeOK
  BY DEF WellTyped
<1> QED
  BY <1>1, <1>2, <1>3, PTL DEF Spec

-----------------------------------------------------------------------------
(* What is acknowledged has been counted *)

Done(m) == \A o \in Range(Records[m]) : \A r \in ResourcesOf[o] : Answered(o, r)

\* A payload of the list ms that counts object o in resource r
Has(ms, r, o) == \E k \in DOMAIN ms : ms[k].resource = r /\ o \in ms[k].objects

\* What an invocation has collected is asked for by its message (without
\* backfill), has all the notifications before next in it, and is in the
\* backend up to at unless an export failed.
InvocationOK(s) ==
    /\ queue[msg[s]] # "unsent"
    /\ ~ BackfillEnabled =>
          \A k \in DOMAIN metrics[s] : \A o \in metrics[s][k].objects :
              o \in Range(Records[msg[s]]) /\ metrics[s][k].resource \in ResourcesOf[o]
    /\ \A i \in DOMAIN Records[msg[s]] : i < next[s] =>
          \A r \in ResourcesOf[Records[msg[s]][i]] : Has(metrics[s], r, Records[msg[s]][i])
    /\ ~ failed[s] =>
          \A k \in DOMAIN metrics[s] : k < at[s] =>
              \A o \in metrics[s][k].objects : Answered(o, metrics[s][k].resource)
    /\ pc[s] = "export" => next[s] > Len(Records[msg[s]])
    /\ pc[s] \in {"shutdown", "return"} /\ ~ failed[s] =>
          next[s] > Len(Records[msg[s]]) /\ at[s] > Len(metrics[s])

\* What is on its way was asked for by a message (without backfill), though the
\* invocation that sent it may be gone.
LateOK ==
    ~ BackfillEnabled =>
        \A l \in late : \E m \in Messages :
            /\ queue[m] # "unsent"
            /\ \A o \in l[2].objects : o \in Range(Records[m]) /\ l[2].resource \in ResourcesOf[o]

Safe ==
    /\ WellTyped
    /\ \A s \in Slots : pc[s] # "idle" => InvocationOK(s)
    /\ LateOK
    /\ AckedIsCounted

StoreGrows ==
    /\ \A r \in Resources, o \in Objects : store'[r][o] >= store[r][o]
    /\ rejected \subseteq rejected'

\* What the backend has answered for stays so.
LEMMA AnsweredStays ==
    ASSUME TypeOK, TypeOK', StoreGrows, NEW r \in Resources, NEW o \in Objects, Answered(o, r)
    PROVE  Answered(o, r)'
<1>1. store[r][o] \in Nat /\ store'[r][o] \in Nat
  BY DEF TypeOK
<1>2. CASE <<o, r>> \in rejected
  BY <1>2 DEF StoreGrows, Answered
<1>3. CASE store[r][o] >= 1
  BY <1>1, <1>3 DEF StoreGrows, Answered
<1> QED
  BY <1>2, <1>3 DEF Answered

\* Without backfill no step takes anything away from the backend.
LEMMA StoreOnlyGrows ==
    ASSUME PipelineAssumption, WellTyped, ~ BackfillEnabled, [Next]_vars
    PROVE  StoreGrows
<1>1. CASE store' = store /\ rejected' = rejected
  BY <1>1 DEF StoreGrows, WellTyped, TypeOK
<1>2. ASSUME NEW s \in Slots, Export(s) PROVE StoreGrows
  <2> DEFINE p == metrics[s][at[s]]
  <2>1. p \in PayloadType
    BY <1>2, ExportIs DEF WellTyped
  <2>2. PICK sends \in Nat, R \in SUBSET p.objects :
           /\ store' = Received(p, R, sends)
           /\ rejected' = rejected \cup (R \X {p.resource})
    BY <1>2, ExportIs DEF WellTyped
  <2> HIDE DEF p
  <2> QED
    BY <2>1, <2>2, ReceivedProperties DEF StoreGrows, WellTyped
<1>3. ASSUME NEW l \in late, Arrive(l) PROVE StoreGrows
  <2>1. l[2] \in PayloadType /\ store' = Received(l[2], {}, 1) /\ rejected' = rejected
    BY <1>3, LateType DEF Arrive, WellTyped
  <2> QED
    BY <2>1, ReceivedProperties DEF StoreGrows, WellTyped
<1> QED
  BY <1>1, <1>2, <1>3 DEF Next, vars, slotVars, queueVars, backendVars, Put, Notify, Expire, Receive,
     Acknowledge, Refuse, Kill, Invocation, Leave, AllSettled, InvokeNothing, NewExporter,
     NewExporterFails, Generate, GenerateFails, GenerateEnds, ExportEnds, Shutdown

\* An invocation that returns nil has had everything its message names counted.
LEMMA ReturnedIsDone ==
    ASSUME PipelineAssumption, WellTyped, NEW s \in Slots, pc[s] = "return", ~ failed[s],
           InvocationOK(s)
    PROVE  Done(msg[s])
<1> SUFFICES ASSUME NEW i \in DOMAIN Records[msg[s]], NEW r \in ResourcesOf[Records[msg[s]][i]]
             PROVE  Answered(Records[msg[s]][i], r)
  BY DEF Done, Range
<1>1. /\ msg[s] \in Messages /\ DOMAIN Records[msg[s]] = 1..Len(Records[msg[s]])
      /\ Len(Records[msg[s]]) \in Nat /\ next[s] \in Nat
      /\ DOMAIN metrics[s] = 1..Len(metrics[s]) /\ Len(metrics[s]) \in Nat /\ at[s] \in Nat
  BY Lengths, LenProperties DEF WellTyped, TypeOK
<1>2. i < next[s]
  BY <1>1 DEF InvocationOK
<1>3. PICK k \in DOMAIN metrics[s] :
         metrics[s][k].resource = r /\ Records[msg[s]][i] \in metrics[s][k].objects
  BY <1>2 DEF InvocationOK, Has
<1>4. k < at[s]
  BY <1>1 DEF InvocationOK
<1> QED
  BY <1>3, <1>4 DEF InvocationOK

\* An invocation is not disturbed by what others do.
LEMMA InvocationFrame ==
    ASSUME PipelineAssumption, WellTyped, WellTyped', StoreGrows, NEW t \in Slots,
           pc[t] # "idle", InvocationOK(t),
           msg'[t] = msg[t], pc'[t] = pc[t], next'[t] = next[t], metrics'[t] = metrics[t],
           at'[t] = at[t], failed'[t] = failed[t],
           queue'[msg[t]] # "unsent"
    PROVE  InvocationOK(t)'
<1>1. ASSUME NEW k \in DOMAIN metrics[t], NEW o \in metrics[t][k].objects,
             Answered(o, metrics[t][k].resource)
      PROVE  Answered(o, metrics[t][k].resource)'
  <2> DEFINE r == metrics[t][k].resource
  <2>1. r \in Resources /\ o \in Objects
    <3>1. metrics[t] \in Seq(PayloadType)
      BY Lengths DEF WellTyped
    <3>2. metrics[t][k] \in PayloadType
      BY <3>1, LenProperties, ElementOfSeq
    <3> QED
      BY <3>2 DEF PayloadType
  <2>2. metrics'[t][k].resource = r
    OBVIOUS
  <2> HIDE DEF r
  <2>3. Answered(o, r)
    BY <1>1 DEF r
  <2>4. store'[r][o] >= 1 \/ <<o, r>> \in rejected'
    BY <2>1, <2>3, AnsweredStays DEF WellTyped, Answered
  <2> QED
    BY <2>2, <2>4 DEF Answered
<1> QED
  BY <1>1 DEF InvocationOK

\* Every step that takes nothing away keeps what is needed for it: the invocation
\* that steps, the others, and the messages already deleted.
LEMMA SafeStep ==
    ASSUME PipelineAssumption, Safe, StoreGrows, [Next]_vars
    PROVE  Safe'
<1>1. WellTyped /\ WellTyped' /\ StoreGrows
  BY TypeStep DEF Safe
<1>2. /\ \A m \in Messages : Records[m] \in Seq(Objects) /\ Len(Records[m]) \in Nat
      /\ \A m \in Messages : DOMAIN Records[m] = 1..Len(Records[m])
      /\ \A s \in Slots : metrics[s] \in Seq(PayloadType) /\ Len(metrics[s]) \in Nat
      /\ \A s \in Slots : DOMAIN metrics[s] = 1..Len(metrics[s])
      /\ \A s \in Slots : pc[s] # "idle" => msg[s] \in Messages
  BY <1>1, Lengths, LenProperties DEF WellTyped
<1>3. \A s \in Slots : next[s] \in Nat \ {0} /\ at[s] \in Nat \ {0}
  BY <1>1 DEF WellTyped, TypeOK
<1>4. ASSUME NEW m \in Messages, Done(m) PROVE Done(m)'
  <2> SUFFICES ASSUME NEW o \in Range(Records[m]), NEW r \in ResourcesOf[o]
               PROVE  Answered(o, r)'
    BY DEF Done
  <2>1. o \in Objects
    BY <1>2, ElementOfSeq DEF Range
  <2>2. r \in Resources
    BY <2>1 DEF PipelineAssumption
  <2>3. Answered(o, r)
    BY <1>4 DEF Done
  <2> QED
    BY <1>1, <2>1, <2>2, <2>3, AnsweredStays DEF WellTyped
<1>5. \A m \in Messages : queue[m] # "unsent" => queue'[m] # "unsent"
  BY <1>1, SMTT(40) DEF WellTyped, TypeOK, Next, vars, slotVars, queueVars, Arrive, Put, Notify, Expire, Receive,
     Acknowledge, Refuse, Kill, Invocation, Leave, AllSettled, InvokeNothing, NewExporter,
     NewExporterFails, Generate, GenerateFails, GenerateEnds, Export, ExportEnds, Shutdown
<1>6. AckedIsCounted'
  <2> SUFFICES ASSUME NEW m \in Messages, queue'[m] = "deleted" PROVE Done(m)'
    BY DEF AckedIsCounted, Done
  <2>1. CASE queue[m] = "deleted"
    BY <1>4, <2>1 DEF Safe, AckedIsCounted, Done
  <2>2. CASE queue[m] # "deleted"
    <3>1. PICK s \in Slots : Acknowledge(s) /\ msg[s] = m
      BY <1>1, <2>2, SMTT(40) DEF WellTyped, TypeOK, Next, vars, slotVars, queueVars, Arrive, Put, Notify, Expire,
         Receive, Acknowledge, Refuse, Kill, Invocation, Leave, AllSettled, InvokeNothing,
         NewExporter, NewExporterFails, Generate, GenerateFails, GenerateEnds, Export,
         ExportEnds, Shutdown
    <3>2. pc[s] = "return" /\ ~ failed[s] /\ InvocationOK(s)
      BY <3>1 DEF Acknowledge, Safe
    <3>3. Done(m)
      BY <1>1, <3>1, <3>2, ReturnedIsDone
    <3> QED
      BY <1>4, <3>3
  <2> QED
    BY <2>1, <2>2
<1>7. ASSUME NEW t \in Slots, pc[t] # "idle",
             msg'[t] = msg[t], pc'[t] = pc[t], next'[t] = next[t], metrics'[t] = metrics[t],
             at'[t] = at[t], failed'[t] = failed[t]
      PROVE  InvocationOK(t)'
  <2>1. InvocationOK(t) /\ msg[t] \in Messages
    BY <1>2, <1>7 DEF Safe
  <2>2. queue'[msg[t]] # "unsent"
    BY <1>5, <2>1 DEF InvocationOK
  <2> QED
    BY <1>1, <1>7, <2>1, <2>2, InvocationFrame
<1>8. ASSUME UNCHANGED slotVars
      PROVE  \A t \in Slots : pc'[t] # "idle" => InvocationOK(t)'
  BY <1>7, <1>8 DEF slotVars
<1> DEFINE Only(s) == \A t \in Slots : t # s /\ pc'[t] # "idle" => InvocationOK(t)'
<1>9. ASSUME NEW s \in Slots, NEW m \in Messages, Receive(s, m)
      PROVE  Only(s) /\ (pc'[s] # "idle" => InvocationOK(s)')
  <2>1. Only(s)
    BY <1>1, <1>7, <1>9 DEF WellTyped, TypeOK, Receive
  <2>2. /\ msg'[s] = m /\ pc'[s] = "invoke" /\ queue'[m] = "inflight" /\ next'[s] = 1
        /\ metrics'[s] = <<>> /\ at'[s] = 1
    BY <1>1, <1>9 DEF WellTyped, TypeOK, Fresh, Receive
  <2>3. InvocationOK(s)'
    BY <1>2, <2>2 DEF InvocationOK
  <2> QED
    BY <2>1, <2>3
<1>10. ASSUME NEW s \in Slots, Free(s)
       PROVE  Only(s) /\ (pc'[s] # "idle" => InvocationOK(s)')
  BY <1>1, <1>7, <1>10 DEF WellTyped, TypeOK, Free
<1>11. ASSUME NEW s \in Slots,
              InvokeNothing(s) \/ NewExporter(s) \/ NewExporterFails(s) \/ GenerateFails(s)
                 \/ GenerateEnds(s) \/ ExportEnds(s) \/ Shutdown(s)
       PROVE  Only(s) /\ (pc'[s] # "idle" => InvocationOK(s)')
  <2>1. Only(s)
    BY <1>1, <1>7, <1>11, SMTT(40) DEF WellTyped, TypeOK, InvokeNothing, NewExporter, NewExporterFails,
       GenerateFails, GenerateEnds, ExportEnds, Shutdown
  <2>2. /\ pc[s] # "idle" /\ InvocationOK(s)
        /\ UNCHANGED <<queue, msg, next, metrics, at, store, rejected>>
    BY <1>11 DEF Safe, InvokeNothing, NewExporter, NewExporterFails, GenerateFails,
       GenerateEnds, ExportEnds, Shutdown, queueVars, backendVars
  <2>3. failed[s] => failed'[s]
    BY <1>1, <1>11 DEF WellTyped, TypeOK, InvokeNothing, NewExporter, NewExporterFails,
       GenerateFails, GenerateEnds, ExportEnds, Shutdown
  <2>4. pc'[s] = "export" => next[s] > Len(Records[msg[s]])
    BY <1>1, <1>11 DEF WellTyped, TypeOK, InvokeNothing, NewExporter, NewExporterFails,
       GenerateFails, GenerateEnds, ExportEnds, Shutdown, Notifications
  <2>5. pc'[s] \in {"shutdown", "return"} /\ ~ failed'[s] =>
           next[s] > Len(Records[msg[s]]) /\ at[s] > Len(metrics[s])
    <3>1. CASE InvokeNothing(s)
      BY <1>1, <1>3, <3>1 DEF WellTyped, TypeOK, Fresh, InvokeNothing, Notifications
    <3>2. CASE NewExporter(s) \/ NewExporterFails(s) \/ GenerateFails(s)
      BY <1>1, <3>2 DEF WellTyped, TypeOK, NewExporter, NewExporterFails, GenerateFails
    <3>3. CASE GenerateEnds(s)
      BY <1>1, <1>3, <3>3 DEF WellTyped, TypeOK, GenerateEnds, Notifications
    <3>4. CASE ExportEnds(s)
      BY <1>1, <2>2, <3>4 DEF WellTyped, TypeOK, ExportEnds, InvocationOK
    <3>5. CASE Shutdown(s)
      BY <1>1, <2>2, <3>5 DEF WellTyped, TypeOK, Shutdown, InvocationOK
    <3> QED
      BY <1>11, <3>1, <3>2, <3>3, <3>4, <3>5
  <2>6. InvocationOK(s)'
    BY <2>2, <2>3, <2>4, <2>5 DEF InvocationOK, Answered
  <2> QED
    BY <2>1, <2>6
<1>12. ASSUME NEW s \in Slots, Generate(s)
       PROVE  Only(s) /\ (pc'[s] # "idle" => InvocationOK(s)')
  <2>1. Only(s)
    BY <1>1, <1>7, <1>12 DEF WellTyped, TypeOK, Generate
  <2> DEFINE o == Records[msg[s]][next[s]]
  <2>2. pc[s] # "idle" /\ InvocationOK(s) /\ msg[s] \in Messages
    BY <1>2, <1>12 DEF Safe, Generate
  <2>3. next[s] \in DOMAIN Records[msg[s]]
    BY <1>2, <1>3, <1>12, <2>2 DEF Generate, Notifications
  <2>4. o \in Objects /\ o \in Range(Records[msg[s]])
    BY <1>2, <2>2, <2>3, ElementOfSeq DEF Range
  <2>5. PICK ms \in Payloads(o) : metrics' = [metrics EXCEPT ![s] = @ \o ms]
    BY <1>12 DEF Generate, Notifications
  <2> DEFINE new == metrics[s] \o ms
  <2>6. /\ ms \in Seq(PayloadType) /\ Len(ms) \in Nat /\ DOMAIN ms = 1..Len(ms)
        /\ ~ BackfillEnabled =>
              \A k \in DOMAIN ms : \A p \in ms[k].objects : p = o /\ ms[k].resource \in ResourcesOf[o]
        /\ \A r \in ResourcesOf[o] : Has(ms, r, o)
    <3>1. ~ BackfillEnabled => Sources(o) = {o}
      BY DEF Sources
    <3>2. ms \in Seq(PayloadType) /\ Len(ms) \in Nat /\ DOMAIN ms = 1..Len(ms)
      BY <1>1, <2>4, PayloadsProperties, LenProperties DEF WellTyped
    <3>3. \A k \in DOMAIN ms : \E r \in Resources :
             ms[k] = [resource |-> r, objects |-> {p \in Sources(o) : r \in ResourcesOf[p]}]
      BY <1>1, <2>4, PayloadsProperties DEF WellTyped
    <3>4. \A r \in ResourcesOf[o] : Has(ms, r, o)
      BY <1>1, <2>4, PayloadsProperties DEF WellTyped, Has
    <3> QED
      BY <3>1, <3>2, <3>3, <3>4
  <2> HIDE DEF o
  <2>7. /\ Len(new) = Len(metrics[s]) + Len(ms) /\ DOMAIN new = 1..(Len(metrics[s]) + Len(ms))
        /\ \A k \in DOMAIN metrics[s] : k \in DOMAIN new /\ new[k] = metrics[s][k]
        /\ \A k \in DOMAIN new : k \notin DOMAIN metrics[s] =>
              k - Len(metrics[s]) \in DOMAIN ms /\ new[k] = ms[k - Len(metrics[s])]
        /\ \A k \in DOMAIN ms : k + Len(metrics[s]) \in DOMAIN new /\ new[k + Len(metrics[s])] = ms[k]
    <3>1. /\ new \in Seq(PayloadType) /\ Len(new) = Len(metrics[s]) + Len(ms)
          /\ \A k \in 1..(Len(metrics[s]) + Len(ms)) :
                new[k] = IF k <= Len(metrics[s]) THEN metrics[s][k] ELSE ms[k - Len(metrics[s])]
      BY <1>2, <2>6, ConcatProperties
    <3>2. DOMAIN new = 1..(Len(metrics[s]) + Len(ms))
      BY <3>1, LenProperties
    <3>3. /\ Len(metrics[s]) \in Nat /\ DOMAIN metrics[s] = 1..Len(metrics[s])
      BY <1>2
    <3> HIDE DEF new
    <3>4. \A k \in DOMAIN metrics[s] : k \in DOMAIN new /\ new[k] = metrics[s][k]
      BY <2>6, <3>1, <3>2, <3>3
    <3>5. ASSUME NEW k \in DOMAIN new, k \notin DOMAIN metrics[s]
          PROVE  k - Len(metrics[s]) \in DOMAIN ms /\ new[k] = ms[k - Len(metrics[s])]
      BY <2>6, <3>1, <3>2, <3>3, <3>5
    <3>6. ASSUME NEW k \in DOMAIN ms
          PROVE  k + Len(metrics[s]) \in DOMAIN new /\ new[k + Len(metrics[s])] = ms[k]
      <4>1. /\ k \in Nat /\ k >= 1 /\ k + Len(metrics[s]) \in 1..(Len(metrics[s]) + Len(ms))
            /\ ~ (k + Len(metrics[s]) <= Len(metrics[s]))
            /\ k + Len(metrics[s]) - Len(metrics[s]) = k
        BY <2>6, <3>3
      <4> QED
        BY <3>1, <3>2, <4>1
    <3> QED
      BY <3>1, <3>2, <3>4, <3>5, <3>6
  <2>8. /\ metrics'[s] = new /\ next'[s] = next[s] + 1
        /\ UNCHANGED <<queue, store, rejected>> /\ msg'[s] = msg[s] /\ pc'[s] = "generate"
        /\ at'[s] = at[s] /\ failed'[s] = failed[s]
    BY <1>1, <1>12, <2>5 DEF WellTyped, TypeOK, Generate, queueVars, backendVars
  <2> HIDE DEF new
  <2>9. ASSUME ~ BackfillEnabled
        PROVE  \A k \in DOMAIN new : \A p \in new[k].objects :
                  p \in Range(Records[msg[s]]) /\ new[k].resource \in ResourcesOf[p]
    <3>1. \A k \in DOMAIN metrics[s] : \A p \in metrics[s][k].objects :
             p \in Range(Records[msg[s]]) /\ metrics[s][k].resource \in ResourcesOf[p]
      BY <2>2, <2>9 DEF InvocationOK
    <3> QED
      BY <2>4, <2>6, <2>7, <2>9, <3>1
  <2>10. \A r, p : Has(metrics[s], r, p) \/ Has(ms, r, p) => Has(new, r, p)
    BY <2>7 DEF Has
  <2>11. ASSUME NEW i \in DOMAIN Records[msg[s]], i < next[s] + 1,
                NEW r \in ResourcesOf[Records[msg[s]][i]]
         PROVE  Has(new, r, Records[msg[s]][i])
    <3>1. CASE i = next[s]
      BY <2>6, <2>10, <3>1 DEF o
    <3>2. CASE i < next[s]
      BY <2>2, <2>10, <3>2 DEF InvocationOK
    <3> QED
      BY <1>2, <1>3, <2>2, <2>11, <3>1, <3>2
  <2>12. \A k \in DOMAIN new : k < at[s] => k \in DOMAIN metrics[s]
    <3>1. at[s] <= Len(metrics[s]) + 1
      BY <1>1, Lengths DEF WellTyped, SlotInRange
    <3> QED
      BY <1>2, <1>3, <2>6, <2>7, <3>1
  <2>13. ~ failed[s] =>
            \A k \in DOMAIN new : k < at[s] =>
                \A p \in new[k].objects : Answered(p, new[k].resource)
    BY <2>2, <2>7, <2>12 DEF InvocationOK
  <2>14. InvocationOK(s)'
    BY <2>2, <2>8, <2>9, <2>11, <2>13 DEF InvocationOK, Answered
  <2> QED
    BY <2>1, <2>14
<1>13. ASSUME NEW s \in Slots, Export(s)
       PROVE  Only(s) /\ (pc'[s] # "idle" => InvocationOK(s)')
  <2>1. Only(s)
    BY <1>1, <1>7, <1>13 DEF WellTyped, TypeOK, Export
  <2> DEFINE now == metrics[s][at[s]]
  <2>2. /\ pc[s] = "export" /\ InvocationOK(s) /\ at[s] \in DOMAIN metrics[s]
        /\ now \in PayloadType
    BY <1>1, <1>13, ExportIs DEF Safe, Export, WellTyped
  <2>3. PICK sends \in Nat, R \in SUBSET now.objects, error \in BOOLEAN :
           /\ sends = 0 => error
           /\ failed' = [failed EXCEPT ![s] = @ \/ error]
           /\ store' = Received(now, R, sends)
           /\ rejected' = rejected \cup (R \X {now.resource})
    BY <1>1, <1>13, ExportIs DEF WellTyped
  <2>4. /\ UNCHANGED <<queue, msg, pc, next, metrics>>
        /\ at'[s] = at[s] + 1
    BY <1>1, <1>13 DEF WellTyped, TypeOK, Export, queueVars
  <2>5. failed[s] \/ error => failed'[s]
    BY <1>1, <2>3 DEF WellTyped, TypeOK
  <2>6. ASSUME ~ failed'[s], NEW k \in DOMAIN metrics[s], k < at[s] + 1,
               NEW p \in metrics[s][k].objects
        PROVE  Answered(p, metrics[s][k].resource)'
    <3> DEFINE r == metrics[s][k].resource
    <3>1. r \in Resources /\ p \in Objects /\ metrics'[s][k].resource = r
      <4>1. metrics[s][k] \in PayloadType
        BY <1>2, ElementOfSeq
      <4> QED
        BY <2>4, <4>1 DEF PayloadType
    <3>2. CASE k = at[s]
      <4>1. sends > 0 /\ r = now.resource /\ p \in now.objects
        BY <2>3, <2>5, <2>6, <3>2
      <4> HIDE DEF now, r
      <4>2. CASE p \in R
        BY <2>3, <3>1, <4>1, <4>2 DEF Answered, r
      <4>3. CASE p \notin R
        <5>1. store'[now.resource][p] >= 1
          BY <1>1, <2>2, <2>3, <4>1, <4>3, ReceivedProperties DEF WellTyped
        <5> QED
          BY <3>1, <4>1, <5>1 DEF Answered, r
      <4> QED
        BY <4>2, <4>3
    <3>3. CASE k < at[s]
      <4>1. Answered(p, r)
        BY <2>2, <2>5, <2>6, <3>3 DEF InvocationOK
      <4> HIDE DEF r
      <4>2. store'[r][p] >= 1 \/ <<p, r>> \in rejected'
        BY <1>1, <3>1, <4>1, AnsweredStays DEF WellTyped, Answered
      <4> QED
        BY <3>1, <4>2 DEF Answered, r
    <3> QED
      BY <1>2, <1>3, <2>6, <3>2, <3>3
  <2>7. InvocationOK(s)'
    <3> HIDE DEF now
    <3> QED
      BY <2>2, <2>4, <2>6 DEF InvocationOK
  <2> QED
    BY <2>1, <2>7
<1>14. \A t \in Slots : pc'[t] # "idle" => InvocationOK(t)'
  BY <1>8, <1>9, <1>10, <1>11, <1>12, <1>13 DEF Next, vars, slotVars, Arrive, Put, Notify, Expire,
     Acknowledge, Refuse, Kill, Invocation, Leave, AllSettled
<1>15. LateOK'
  <2> SUFFICES ASSUME ~ BackfillEnabled, NEW l \in late'
               PROVE  \E m \in Messages :
                         /\ queue'[m] # "unsent"
                         /\ \A o \in l[2].objects :
                               o \in Range(Records[m]) /\ l[2].resource \in ResourcesOf[o]
    BY DEF LateOK
  <2>1. CASE l \in late
    BY <1>5, <2>1 DEF Safe, LateOK
  <2>2. CASE l \notin late
    <3>1. PICK s \in Slots : Export(s)
      BY <2>2 DEF Next, vars, slotVars, queueVars, backendVars, Arrive, Put, Notify, Expire, Receive,
         Acknowledge, Refuse, Kill, Invocation, Leave, AllSettled, InvokeNothing, NewExporter,
         NewExporterFails, Generate, GenerateFails, GenerateEnds, ExportEnds, Shutdown
    <3>2. pc[s] # "idle" /\ InvocationOK(s) /\ msg[s] \in Messages /\ queue' = queue
      BY <1>2, <3>1 DEF Safe, Export, queueVars
    <3>3. at[s] \in DOMAIN metrics[s] /\ l[2] = metrics[s][at[s]]
      BY <1>1, <2>2, <3>1, ExportIs DEF WellTyped
    <3>4. \A o \in l[2].objects :
             o \in Range(Records[msg[s]]) /\ l[2].resource \in ResourcesOf[o]
      BY <3>2, <3>3 DEF InvocationOK
    <3> QED
      BY <3>2, <3>4 DEF InvocationOK
  <2> QED
    BY <2>1, <2>2
<1> QED
  BY <1>1, <1>6, <1>14, <1>15 DEF Safe

\* At first there is nothing to be safe.
LEMMA InitSafe ==
    ASSUME PipelineAssumption, Init
    PROVE  Safe
<1>1. WellTyped
  <2>1. <<>> \in Seq(PayloadType) /\ Len(<<>>) = 0
    BY EmptySeq
  <2> QED
    BY <2>1, LenProperties
       DEF Init, WellTyped, TypeOK, Fresh, SlotInRange, PipelineAssumption, PayloadType
<1> QED
  BY <1>1 DEF Init, Safe, LateOK, AckedIsCounted

\* The inductive invariant of Pipeline without backfill
LEMMA SafeInvariant ==
    ASSUME ~ BackfillEnabled
    PROVE  Spec => []Safe
<1>1. Init => Safe
  BY InitSafe, PipelineAssumption
<1>2. Safe /\ [Next]_vars => Safe'
  BY SafeStep, StoreOnlyGrows, PipelineAssumption DEF Safe
<1> QED
  BY <1>1, <1>2, PTL DEF Spec

\* Without backfill a message is deleted only when the backend has all it
\* names, whatever fails, is killed, redelivered or runs at the same time.
THEOREM NothingAcknowledgedIsLost ==
    ASSUME ~ BackfillEnabled
    PROVE  Spec => []AckedIsCounted
<1>1. Safe => AckedIsCounted
  BY DEF Safe
<1> QED
  BY <1>1, SafeInvariant, PTL

-----------------------------------------------------------------------------
(* Pipeline implements the safety of AtLeastOnce *)

\* Steps that move no message between the states AtLeastOnce tells apart, and
\* that leave the backend alone, are not seen in it.
LEMMA Unseen ==
    ASSUME TypeOK,
           \A m \in Messages :
              queue'[m] = queue[m] \/ {queue[m], queue'[m]} \subseteq {"visible", "inflight"},
           UNCHANGED <<store, rejected>>
    PROVE  Status' = Status /\ Counted' = Counted
<1>1. Status' = Status
  BY DEF Status
<1>2. Counted' = Counted
  BY DEF Counted, Answered
<1> QED
  BY <1>1, <1>2

\* What is done for a message, all its pairs are counted.
LEMMA DoneIsCounted ==
    ASSUME PipelineAssumption, TypeOK, NEW m \in Messages, Done(m)
    PROVE  Promise!Pairs(m) \subseteq Counted
<1> SUFFICES ASSUME NEW p \in Objects \X Resources,
                    \E i \in DOMAIN Records[m] : Records[m][i] = p[1],
                    p[2] \in ResourcesOf[p[1]]
             PROVE  Answered(p[1], p[2])
  BY DEF Promise!Pairs, Counted
<1> QED
  BY DEF Done, Range

\* When the backend receives a payload that a message asks for, or rejects
\* points of it, that is Count of the message.
LEMMA ReceivedIsCount ==
    ASSUME PipelineAssumption, WellTyped, WellTyped', StoreGrows, ~ BackfillEnabled, queue' = queue,
           NEW m \in Messages, queue[m] # "unsent", NEW p \in PayloadType,
           \A o \in p.objects : o \in Range(Records[m]) /\ p.resource \in ResourcesOf[o],
           NEW sends \in Nat, NEW R \in SUBSET p.objects, store' = Received(p, R, sends),
           rejected' \subseteq rejected \cup (R \X {p.resource})
    PROVE  Promise!Count(m)
<1>1. Status[m] # "unsent" /\ Status' = Status
  BY DEF WellTyped, TypeOK, Status
<1>2. Counted \subseteq Counted'
  BY AnsweredStays DEF WellTyped, Counted
<1>3. ASSUME NEW o \in Objects, NEW r \in Resources, Answered(o, r)', ~ Answered(o, r)
      PROVE  <<o, r>> \in Promise!Pairs(m)
  <2>1. r = p.resource /\ o \in p.objects
    <3>1. CASE <<o, r>> \in rejected'
      BY <1>3, <3>1 DEF Answered
    <3>2. CASE store'[r][o] >= 1
      <4>1. store[r][o] \in Nat /\ store'[r][o] \in Nat /\ ~ (store[r][o] >= 1)
        BY <1>3 DEF WellTyped, TypeOK, Answered
      <4>2. store'[r][o] > store[r][o]
        BY <3>2, <4>1
      <4> QED
        BY <4>2, ReceivedProperties DEF WellTyped
    <3> QED
      BY <1>3, <3>1, <3>2 DEF Answered
  <2>2. o \in Range(Records[m]) /\ r \in ResourcesOf[o]
    BY <2>1
  <2> QED
    BY <2>2 DEF Promise!Pairs, Range
<1>4. Counted' \ Counted \subseteq Promise!Pairs(m)
  <2> SUFFICES ASSUME NEW c \in Objects \X Resources, Answered(c[1], c[2])', ~ Answered(c[1], c[2])
               PROVE  c \in Promise!Pairs(m)
    BY DEF Counted
  <2>1. c[1] \in Objects /\ c[2] \in Resources /\ c = <<c[1], c[2]>>
    OBVIOUS
  <2> QED
    BY <1>3, <2>1
<1> QED
  BY <1>1, <1>2, <1>4 DEF Promise!Count

\* Every step is one of AtLeastOnce, or is not seen in it.
LEMMA StepImplements ==
    ASSUME PipelineAssumption, Safe, Safe', ~ BackfillEnabled, [Next]_vars
    PROVE  [Promise!Next]_(Promise!vars)
<1> SUFFICES Promise!Next \/ (Status' = Status /\ Counted' = Counted)
  BY DEF Promise!vars
<1>1. TypeOK /\ TypeOK'
  BY DEF Safe, WellTyped
<1>2. CASE UNCHANGED <<queue, store, rejected>>
  BY <1>1, <1>2, Unseen
<1>3. ASSUME NEW m \in Messages, Notify(m) PROVE Promise!Next
  <2>1. Status[m] = "unsent" /\ Status' = [Status EXCEPT ![m] = "open"]
    BY <1>1, <1>3 DEF TypeOK, Notify, Status
  <2>2. Counted' = Counted
    BY <1>3 DEF Notify, Counted, Answered, backendVars
  <2>3. Promise!Send(m)
    BY <2>1, <2>2 DEF Promise!Send
  <2> QED
    BY <2>3 DEF Promise!Next
<1>4. ASSUME NEW m \in Messages, Expire(m)
      PROVE  Promise!Next \/ (Status' = Status /\ Counted' = Counted)
  <2>1. CASE receives[m] < MaxReceives
    BY <1>1, <1>4, <2>1, Unseen DEF TypeOK, Expire, backendVars
  <2>2. CASE ~ (receives[m] < MaxReceives)
    <3>1. Status[m] = "open" /\ Status' = [Status EXCEPT ![m] = "dead"]
      BY <1>1, <1>4, <2>2 DEF TypeOK, Expire, Status
    <3>2. Counted' = Counted
      BY <1>4 DEF Expire, Counted, Answered, backendVars
    <3>3. Promise!Bury(m)
      BY <3>1, <3>2 DEF Promise!Bury
    <3> QED
      BY <3>3 DEF Promise!Next
  <2> QED
    BY <2>1, <2>2
<1>5. ASSUME NEW s \in Slots, NEW m \in Messages, Receive(s, m)
      PROVE  Status' = Status /\ Counted' = Counted
  BY <1>1, <1>5, Unseen DEF TypeOK, Receive, backendVars
<1>6. ASSUME NEW s \in Slots, Acknowledge(s)
      PROVE  Promise!Next \/ (Status' = Status /\ Counted' = Counted)
  <2>1. pc[s] = "return" /\ ~ failed[s] /\ InvocationOK(s) /\ msg[s] \in Messages
    BY <1>1, <1>6, Lengths DEF Acknowledge, Safe
  <2>2. CASE queue[msg[s]] \in {"visible", "inflight"}
    <3>1. Status[msg[s]] = "open" /\ Status' = [Status EXCEPT ![msg[s]] = "deleted"]
      BY <1>1, <1>6, <2>1, <2>2 DEF TypeOK, Acknowledge, Status
    <3>2. Counted' = Counted
      BY <1>6 DEF Acknowledge, Counted, Answered, backendVars
    <3>3. Promise!Pairs(msg[s]) \subseteq Counted
      BY <1>1, <2>1, ReturnedIsDone, DoneIsCounted DEF Safe
    <3>4. Promise!Finish(msg[s])
      BY <3>1, <3>2, <3>3 DEF Promise!Finish
    <3> QED
      BY <2>1, <3>4 DEF Promise!Next
  <2>3. CASE queue[msg[s]] \in {"deleted", "dead"}
    <3>1. queue' = queue /\ UNCHANGED <<store, rejected>>
      BY <1>1, <1>6, <2>1, <2>3 DEF TypeOK, Acknowledge, backendVars
    <3> QED
      BY <1>1, <3>1, Unseen
  <2>4. queue[msg[s]] \in {"visible", "inflight", "deleted", "dead"}
    BY <1>1, <2>1 DEF TypeOK, InvocationOK
  <2> QED
    BY <2>2, <2>3, <2>4
<1>7. ASSUME NEW s \in Slots, Export(s) PROVE Promise!Next
  <2>1. pc[s] = "export" /\ InvocationOK(s) /\ msg[s] \in Messages
    BY <1>1, <1>7, Lengths DEF Export, Safe
  <2> DEFINE p == metrics[s][at[s]]
  <2>2. at[s] \in DOMAIN metrics[s] /\ p \in PayloadType
    BY <1>1, <1>7, ExportIs
  <2>3. PICK sends \in Nat, R \in SUBSET p.objects :
           store' = Received(p, R, sends) /\ rejected' = rejected \cup (R \X {p.resource})
    BY <1>1, <1>7, ExportIs
  <2>4. queue' = queue /\ queue[msg[s]] # "unsent"
    BY <1>7, <2>1 DEF Export, queueVars, InvocationOK
  <2>5. \A o \in p.objects : o \in Range(Records[msg[s]]) /\ p.resource \in ResourcesOf[o]
    BY <2>1, <2>2 DEF InvocationOK
  <2>6. StoreGrows /\ WellTyped /\ WellTyped'
    BY StoreOnlyGrows DEF Safe
  <2> HIDE DEF p
  <2>7. Promise!Count(msg[s])
    BY <2>1, <2>2, <2>3, <2>4, <2>5, <2>6, ReceivedIsCount
  <2> QED
    BY <2>1, <2>7 DEF Promise!Next
<1>8. ASSUME NEW l \in late, Arrive(l) PROVE Promise!Next
  <2>1. PICK m \in Messages :
           /\ queue[m] # "unsent"
           /\ \A o \in l[2].objects : o \in Range(Records[m]) /\ l[2].resource \in ResourcesOf[o]
    BY DEF Safe, LateOK
  <2>2. l[2] \in PayloadType
    BY <1>1, LateType
  <2>3. queue' = queue /\ store' = Received(l[2], {}, 1) /\ rejected' = rejected
    BY <1>8 DEF Arrive, queueVars
  <2>4. StoreGrows /\ WellTyped /\ WellTyped'
    BY StoreOnlyGrows DEF Safe
  <2>5. Promise!Count(m)
    BY <2>1, <2>2, <2>3, <2>4, ReceivedIsCount
  <2> QED
    BY <2>5 DEF Promise!Next
<1> QED
  BY <1>2, <1>3, <1>4, <1>5, <1>6, <1>7, <1>8 DEF Next, vars, slotVars, queueVars, backendVars, Put,
     Refuse, Kill, Invocation, Leave, AllSettled, InvokeNothing, NewExporter, NewExporterFails,
     Generate, GenerateFails, GenerateEnds, ExportEnds, Shutdown

\* Without backfill Pipeline implements the safety of AtLeastOnce: to whoever
\* sends notifications, all the failures, retries and concurrent invocations
\* look like messages that are counted, finished or buried.
THEOREM ImplementsPromise ==
    ASSUME ~ BackfillEnabled
    PROVE  Spec => Promise!Safety
<1>1. Init => Promise!Init
  BY DEF Init, Promise!Init, Status, Counted, Answered
<1>2. Safe /\ Safe' /\ [Next]_vars => [Promise!Next]_(Promise!vars)
  BY StepImplements, PipelineAssumption
<1> QED
  BY <1>1, <1>2, SafeInvariant, PTL DEF Spec, Promise!Safety

-----------------------------------------------------------------------------
(* One object that cannot be read *)

Readable(m) == Range(Records[m]) \cap Unreadable = {}

\* An invocation has its message from the queue, and no notification before
\* next is of an object that cannot be read.
CleanSoFar(s) ==
    /\ receives[msg[s]] > 0
    /\ \A i \in DOMAIN Records[msg[s]] : i < next[s] => Records[msg[s]][i] \notin Unreadable

\* What is on its way is of a message that was received and has no object that
\* cannot be read.
LateClean ==
    \A l \in late : \E m \in Messages :
        Readable(m) /\ receives[m] > 0 /\ l[2].objects \subseteq Range(Records[m])

Clean ==
    /\ Safe
    /\ \A s \in Slots : pc[s] # "idle" => CleanSoFar(s)
    /\ LateClean
    /\ PoisonedIsKeptOut

\* A message that was received has been received ever after.
LEMMA ReceivedStaysReceived ==
    ASSUME WellTyped, [Next]_vars
    PROVE  \A m \in Messages : receives[m] > 0 => receives'[m] > 0
<1>1. CASE receives' = receives
  BY <1>1
<1>2. ASSUME NEW s \in Slots, NEW n \in Messages, Receive(s, n)
      PROVE  \A m \in Messages : receives[m] > 0 => receives'[m] > 0
  <2>1. /\ receives \in [Messages -> 0..MaxReceives]
        /\ receives' = [receives EXCEPT ![n] = @ + 1]
    BY <1>2 DEF WellTyped, TypeOK, Receive
  <2>2. \A m \in Messages : receives[m] \in Int
    BY <2>1
  <2>3. \A m \in Messages : receives'[m] = receives[m] \/ receives'[m] = receives[m] + 1
    BY <2>1
  <2> QED
    BY <2>2, <2>3
<1> QED
  BY <1>1, <1>2 DEF Next, vars, slotVars, queueVars, Arrive, Put, Notify, Expire,
     Acknowledge, Refuse, Kill, Invocation, Leave, AllSettled, InvokeNothing, NewExporter,
     NewExporterFails, Generate, GenerateFails, GenerateEnds, Export, ExportEnds, Shutdown

\* Past the last notification, all are readable.
LEMMA PastTheLast ==
    ASSUME PipelineAssumption, WellTyped, NEW s \in Slots, pc[s] # "idle", CleanSoFar(s),
           next[s] > Len(Records[msg[s]])
    PROVE  Readable(msg[s])
<1>1. /\ DOMAIN Records[msg[s]] = 1..Len(Records[msg[s]]) /\ Len(Records[msg[s]]) \in Nat
      /\ next[s] \in Nat
  BY Lengths, LenProperties DEF WellTyped, TypeOK
<1>2. \A i \in DOMAIN Records[msg[s]] : Records[msg[s]][i] \notin Unreadable
  BY <1>1 DEF CleanSoFar
<1> QED
  BY <1>2 DEF Readable, Range

\* Only receiving a message and aggregating a notification change what
\* CleanSoFar speaks of.
LEMMA CleanSoFarStep ==
    ASSUME PipelineAssumption, Clean, WellTyped', [Next]_vars, NEW t \in Slots, pc'[t] # "idle"
    PROVE  CleanSoFar(t)'
<1>1. WellTyped
  BY DEF Clean, Safe
<1>2. \A m \in Messages : receives[m] > 0 => receives'[m] > 0
  BY <1>1, ReceivedStaysReceived
<1>3. CASE pc[t] # "idle" /\ msg'[t] = msg[t] /\ next'[t] = next[t]
  <2>1. CleanSoFar(t) /\ msg[t] \in Messages
    BY <1>1, <1>3, Lengths DEF Clean, WellTyped
  <2> QED
    BY <1>2, <1>3, <2>1 DEF CleanSoFar
<1>4. ASSUME NEW m \in Messages, Receive(t, m) PROVE CleanSoFar(t)'
  <2>1. msg'[t] = m /\ receives'[m] = receives[m] + 1 /\ next'[t] = 1 /\ receives[m] \in Nat
    BY <1>1, <1>4 DEF WellTyped, TypeOK, Fresh, Receive
  <2>2. DOMAIN Records[m] = 1..Len(Records[m]) /\ Len(Records[m]) \in Nat
    BY <1>1, Lengths, LenProperties DEF WellTyped
  <2> QED
    BY <2>1, <2>2 DEF CleanSoFar
<1>5. ASSUME Generate(t) PROVE CleanSoFar(t)'
  <2>1. CleanSoFar(t) /\ msg[t] \in Messages /\ next[t] \in Nat
    BY <1>1, <1>5, Lengths DEF Clean, WellTyped, TypeOK, Generate
  <2>2. msg'[t] = msg[t] /\ next'[t] = next[t] + 1 /\ receives' = receives
    BY <1>1, <1>5 DEF WellTyped, TypeOK, Generate, queueVars
  <2>3. Records[msg[t]][next[t]] \notin Unreadable
    BY <1>5 DEF Generate, Sources, Notifications
  <2>4. DOMAIN Records[msg[t]] = 1..Len(Records[msg[t]]) /\ Len(Records[msg[t]]) \in Nat
    BY <1>1, <2>1, Lengths, LenProperties DEF WellTyped
  <2>5. \A i \in DOMAIN Records[msg[t]] : i < next[t] + 1 => i < next[t] \/ i = next[t]
    BY <2>1, <2>4
  <2> QED
    BY <2>1, <2>2, <2>3, <2>5 DEF CleanSoFar
<1>6. \/ pc[t] # "idle" /\ msg'[t] = msg[t] /\ next'[t] = next[t]
      \/ \E m \in Messages : Receive(t, m)
      \/ Generate(t)
  <2>1. CASE UNCHANGED slotVars
    BY <2>1 DEF slotVars
  <2>2. ASSUME NEW s \in Slots, NEW m \in Messages, Receive(s, m), t # s
        PROVE  pc[t] # "idle" /\ msg'[t] = msg[t] /\ next'[t] = next[t]
    BY <1>1, <2>2 DEF WellTyped, TypeOK, Receive
  <2>3. ASSUME NEW s \in Slots, Free(s)
        PROVE  pc[t] # "idle" /\ msg'[t] = msg[t] /\ next'[t] = next[t]
    BY <1>1, <2>3 DEF WellTyped, TypeOK, Free
  <2>4. ASSUME NEW s \in Slots, Generate(s), t # s
        PROVE  pc[t] # "idle" /\ msg'[t] = msg[t] /\ next'[t] = next[t]
    BY <1>1, <2>4 DEF WellTyped, TypeOK, Generate
  <2>5. ASSUME NEW s \in Slots,
               InvokeNothing(s) \/ NewExporter(s) \/ NewExporterFails(s) \/ GenerateFails(s)
                  \/ GenerateEnds(s) \/ Export(s) \/ ExportEnds(s) \/ Shutdown(s)
        PROVE  pc[t] # "idle" /\ msg'[t] = msg[t] /\ next'[t] = next[t]
    BY <1>1, <2>5 DEF WellTyped, TypeOK, InvokeNothing, NewExporter, NewExporterFails,
       GenerateFails, GenerateEnds, Export, ExportEnds, Shutdown
  <2> QED
    BY <2>1, <2>2, <2>3, <2>4, <2>5 DEF Next, vars, slotVars, Arrive, Put, Notify, Expire, Acknowledge,
       Refuse, Kill, Invocation, Leave, AllSettled
<1> QED
  BY <1>3, <1>4, <1>5, <1>6

\* A message is deleted, and something is sent to the backend, only by an
\* invocation that is past its last notification.
LEMMA KeptOutStep ==
    ASSUME PipelineAssumption, Clean, ~ BackfillEnabled, WellTyped', [Next]_vars
    PROVE  PoisonedIsKeptOut' /\ LateClean'
<1>1. WellTyped /\ \A s \in Slots : pc[s] # "idle" => InvocationOK(s) /\ CleanSoFar(s)
  BY DEF Clean, Safe
<1>2. \A m \in Messages : receives[m] > 0 => receives'[m] > 0
  BY <1>1, ReceivedStaysReceived
<1>3. ASSUME NEW m \in Messages, queue'[m] = "deleted" PROVE Readable(m)
  <2>1. CASE queue[m] = "deleted"
    BY <2>1 DEF Clean, PoisonedIsKeptOut, Readable
  <2>2. CASE queue[m] # "deleted"
    <3>1. PICK s \in Slots : Acknowledge(s) /\ msg[s] = m
      <4>1. queue' # queue /\ queue \in [Messages -> {"unsent", "visible", "inflight", "deleted", "dead"}]
        BY <1>1, <1>3, <2>2 DEF WellTyped, TypeOK
      <4>2. \A l \in Messages : ~ Notify(l) /\ ~ Expire(l) /\ \A s \in Slots : ~ Receive(s, l)
        BY <1>3, <2>2, <4>1 DEF Notify, Expire, Receive
      <4>3. PICK s \in Slots : Acknowledge(s)
        BY <4>1, <4>2 DEF Next, vars, queueVars, Arrive, Put, Refuse, Kill, Invocation, Leave,
           AllSettled, InvokeNothing, NewExporter, NewExporterFails, Generate, GenerateFails,
           GenerateEnds, Export, ExportEnds, Shutdown
      <4> QED
        BY <1>3, <2>2, <4>1, <4>3 DEF Acknowledge
    <3>2. pc[s] = "return" /\ ~ failed[s]
      BY <3>1 DEF Acknowledge
    <3>3. CleanSoFar(s) /\ next[s] > Len(Records[msg[s]])
      BY <1>1, <3>2 DEF InvocationOK
    <3> QED
      BY <1>1, <3>1, <3>2, <3>3, PastTheLast
  <2> QED
    BY <2>1, <2>2
<1>4. ASSUME NEW s \in Slots, Export(s)
      PROVE  /\ msg[s] \in Messages /\ Readable(msg[s]) /\ receives[msg[s]] > 0
             /\ metrics[s][at[s]].objects \subseteq Range(Records[msg[s]])
  <2>1. pc[s] = "export" /\ InvocationOK(s) /\ CleanSoFar(s) /\ msg[s] \in Messages
    BY <1>1, <1>4, Lengths DEF Export, WellTyped
  <2>2. at[s] \in DOMAIN metrics[s]
    BY <1>1, <1>4, ExportIs DEF WellTyped
  <2>3. Readable(msg[s])
    BY <1>1, <2>1, PastTheLast DEF InvocationOK
  <2> QED
    BY <2>1, <2>2, <2>3 DEF InvocationOK, CleanSoFar
<1>5. ASSUME NEW r \in Resources, NEW o \in Objects, store'[r][o] > 0
      PROVE  \E m \in Messages : Readable(m) /\ o \in Range(Records[m]) /\ receives'[m] > 0
  <2>1. CASE store[r][o] > 0
    BY <1>2, <2>1 DEF Clean, PoisonedIsKeptOut, Readable
  <2>2. CASE ~ (store[r][o] > 0)
    <3>1. ASSUME NEW p \in PayloadType, NEW R, NEW sends \in Nat, store' = Received(p, R, sends)
          PROVE  o \in p.objects
      <4>1. store[r][o] \in Nat /\ store'[r][o] \in Nat
        BY <1>1 DEF WellTyped, TypeOK
      <4>2. store'[r][o] > store[r][o]
        BY <1>5, <2>2, <4>1
      <4> QED
        BY <1>1, <3>1, <4>2, ReceivedProperties DEF WellTyped
    <3>2. ASSUME NEW s \in Slots, Export(s)
          PROVE  \E m \in Messages : Readable(m) /\ o \in Range(Records[m]) /\ receives'[m] > 0
      <4>1. PICK sends \in Nat, R \in SUBSET metrics[s][at[s]].objects :
               store' = Received(metrics[s][at[s]], R, sends)
        BY <1>1, <3>2, ExportIs DEF WellTyped
      <4>2. metrics[s][at[s]] \in PayloadType
        BY <1>1, <3>2, ExportIs DEF WellTyped
      <4>3. o \in metrics[s][at[s]].objects
        BY <3>1, <4>1, <4>2
      <4> QED
        BY <1>2, <1>4, <3>2, <4>3
    <3>3. ASSUME NEW l \in late, Arrive(l)
          PROVE  \E m \in Messages : Readable(m) /\ o \in Range(Records[m]) /\ receives'[m] > 0
      <4>1. o \in l[2].objects
        BY <1>1, <3>1, <3>3, LateType DEF Arrive, WellTyped
      <4> QED
        BY <1>2, <4>1 DEF Clean, LateClean
    <3>4. (\E s \in Slots : Export(s)) \/ (\E l \in late : Arrive(l))
      BY <1>5, <2>2 DEF Next, vars, slotVars, queueVars, backendVars, Put, Notify, Expire, Receive,
         Acknowledge, Refuse, Kill, Invocation, Leave, AllSettled, InvokeNothing, NewExporter,
         NewExporterFails, Generate, GenerateFails, GenerateEnds, ExportEnds, Shutdown
    <3> QED
      BY <3>2, <3>3, <3>4
  <2> QED
    BY <2>1, <2>2
<1>6. LateClean'
  <2> SUFFICES ASSUME NEW l \in late'
               PROVE  \E m \in Messages :
                         Readable(m) /\ receives'[m] > 0 /\ l[2].objects \subseteq Range(Records[m])
    BY DEF LateClean, Readable
  <2>1. CASE l \in late
    BY <1>2, <2>1 DEF Clean, LateClean
  <2>2. CASE l \notin late
    <3>1. PICK s \in Slots : Export(s)
      BY <2>2 DEF Next, vars, slotVars, queueVars, backendVars, Arrive, Put, Notify, Expire, Receive,
         Acknowledge, Refuse, Kill, Invocation, Leave, AllSettled, InvokeNothing, NewExporter,
         NewExporterFails, Generate, GenerateFails, GenerateEnds, ExportEnds, Shutdown
    <3>2. l[2] = metrics[s][at[s]]
      BY <1>1, <2>2, <3>1, ExportIs DEF WellTyped
    <3> QED
      BY <1>2, <1>4, <3>1, <3>2
  <2> QED
    BY <2>1, <2>2
<1> QED
  BY <1>3, <1>5, <1>6 DEF PoisonedIsKeptOut, Readable

\* Without backfill a message with an object that cannot be read is never
\* deleted, and no object is counted on behalf of such a message, whatever
\* other invocations do.
THEOREM PoisonStaysOut ==
    ASSUME ~ BackfillEnabled
    PROVE  Spec => []PoisonedIsKeptOut
<1>1. Init => Clean
  <2>1. Init => PoisonedIsKeptOut /\ LateClean
    BY DEF Init, PoisonedIsKeptOut, LateClean
  <2> QED
    BY <2>1, InitSafe, PipelineAssumption DEF Clean, Init
<1>2. Clean /\ [Next]_vars => Clean'
  <2> SUFFICES ASSUME Clean, [Next]_vars PROVE Clean'
    OBVIOUS
  <2>1. Safe' /\ WellTyped'
    BY SafeStep, StoreOnlyGrows, PipelineAssumption DEF Clean, Safe
  <2>2. \A t \in Slots : pc'[t] # "idle" => CleanSoFar(t)'
    BY <2>1, CleanSoFarStep, PipelineAssumption
  <2> QED
    BY <2>1, <2>2, KeptOutStep, PipelineAssumption DEF Clean
<1>3. Clean => PoisonedIsKeptOut
  BY DEF Clean
<1> QED
  BY <1>1, <1>2, <1>3, PTL DEF Spec

-----------------------------------------------------------------------------
(* How often an object is counted *)

\* What an invocation may still export of object o in resource r: once for
\* each notification of it that is still to be aggregated, and once for each
\* payload with it that is still to be exported.
Ahead(s, o) == {i \in DOMAIN Records[msg[s]] : i >= next[s] /\ Records[msg[s]][i] = o}

Pending(s, r, o) ==
    {k \in DOMAIN metrics[s] :
        k >= at[s] /\ metrics[s][k].resource = r /\ o \in metrics[s][k].objects}

Due(s, r, o) ==
    IF pc[s] \in {"idle", "shutdown", "return"} THEN 0
    ELSE Cardinality(Ahead(s, o)) + Cardinality(Pending(s, r, o))

DueTo(r, o) == SumFunctionOnSet([s \in Slots |-> Due(s, r, o)], Slots)

\* What is on its way of object o in resource r
LateOf(r, o) == {l \in late : l[2].resource = r /\ o \in l[2].objects}

\* How often it is counted when all of that has arrived
Total(r, o) == store[r][o] + Cardinality(LateOf(r, o))

\* The invariant counts what is due and what is on its way next to what is there.
WithinHanded ==
    /\ IsFiniteSet(late)
    /\ \A r \in Resources, o \in Objects :
          Total(r, o) + MaxSends * DueTo(r, o) <= MaxSends * Handed(o)

\* What is on its way can be counted.
LEMMA LateIsFinite ==
    ASSUME TypeOK, IsFiniteSet(late), NEW r \in Resources, NEW o \in Objects
    PROVE  /\ IsFiniteSet(LateOf(r, o)) /\ Cardinality(LateOf(r, o)) \in Nat
           /\ Total(r, o) \in Nat
<1>1. LateOf(r, o) \subseteq late
  BY DEF LateOf
<1>2. IsFiniteSet(LateOf(r, o)) /\ Cardinality(LateOf(r, o)) \in Nat
  BY <1>1, FS_Subset, FS_CardinalityType
<1>3. store[r][o] \in Nat
  BY DEF TypeOK
<1> QED
  BY <1>2, <1>3 DEF Total

TotalIsNat(r, o) == IsFiniteSet(late) => Total(r, o) \in Nat

\* The same in the next state
LEMMA TotalTypeNext ==
    ASSUME NEW r \in Resources, NEW o \in Objects
    PROVE  TypeOK' => TotalIsNat(r, o)'
<1>1. TypeOK => TotalIsNat(r, o)
  BY LateIsFinite DEF TotalIsNat
<1> QED
  BY <1>1, PTL

\* What arrives was on its way.
LEMMA ArrivedWasLate ==
    ASSUME TypeOK, TypeOK', IsFiniteSet(late), ~ BackfillEnabled, NEW l \in late, Arrive(l),
           NEW r \in Resources, NEW o \in Objects
    PROVE  IsFiniteSet(late') /\ Total(r, o)' <= Total(r, o)
<1>1. l[2] \in PayloadType /\ store' = Received(l[2], {}, 1) /\ late' = late \ {l}
  BY LateType DEF Arrive
<1>2. store[r][o] \in Nat /\ store'[r][o] \in Nat
  BY DEF TypeOK
<1>3. IsFiniteSet(LateOf(r, o)) /\ Cardinality(LateOf(r, o)) \in Nat
  BY LateIsFinite
<1>4. LateOf(r, o)' = LateOf(r, o) \ {l}
  BY <1>1 DEF LateOf
<1>5. CASE l \in LateOf(r, o)
  <2>1. Cardinality(LateOf(r, o) \ {l}) = Cardinality(LateOf(r, o)) - 1
    BY <1>3, <1>5, FS_RemoveElement
  <2>2. Cardinality(LateOf(r, o)') = Cardinality(LateOf(r, o)) - 1
    BY <1>4, <2>1
  <2>3. store'[r][o] <= store[r][o] + 1
    BY <1>1, ReceivedProperties
  <2> QED
    BY <1>1, <1>2, <1>3, <2>2, <2>3, FS_RemoveElement DEF Total
<1>6. CASE l \notin LateOf(r, o)
  <2>1. LateOf(r, o)' = LateOf(r, o)
    BY <1>4, <1>6
  <2>2. ~ (store'[r][o] > store[r][o])
    BY <1>1, <1>6, ReceivedProperties DEF LateOf
  <2>3. store'[r][o] <= store[r][o]
    BY <1>2, <2>2
  <2> QED
    BY <1>1, <1>2, <1>3, <2>1, <2>3, FS_RemoveElement DEF Total
<1> QED
  BY <1>5, <1>6

LEMMA PlacesAreFinite ==
    ASSUME NEW X, NEW w \in Seq(X), NEW T, T \subseteq DOMAIN w
    PROVE  IsFiniteSet(T) /\ Cardinality(T) \in Nat
<1>1. Len(w) \in Nat /\ DOMAIN w = 1..Len(w)
  BY LenProperties
<1>2. IsFiniteSet(1..Len(w))
  BY <1>1, FS_Interval
<1>3. IsFiniteSet(T)
  BY <1>1, <1>2, FS_Subset
<1> QED
  BY <1>3, FS_CardinalityType

DueIsFinite(s, r, o) ==
    /\ Due(s, r, o) \in Nat
    /\ pc[s] # "idle" => /\ IsFiniteSet(Ahead(s, o)) /\ Cardinality(Ahead(s, o)) \in Nat
                         /\ IsFiniteSet(Pending(s, r, o)) /\ Cardinality(Pending(s, r, o)) \in Nat

LEMMA DueType ==
    ASSUME PipelineAssumption, TypeOK, NEW s \in Slots, NEW r, NEW o
    PROVE  DueIsFinite(s, r, o)
<1>1. ASSUME pc[s] # "idle" PROVE IsFiniteSet(Ahead(s, o)) /\ Cardinality(Ahead(s, o)) \in Nat
  <2>1. Records[msg[s]] \in Seq(Objects)
    BY <1>1, Lengths
  <2>2. Ahead(s, o) \subseteq DOMAIN Records[msg[s]]
    BY DEF Ahead
  <2> QED
    BY <2>1, <2>2, PlacesAreFinite
<1>2. IsFiniteSet(Pending(s, r, o)) /\ Cardinality(Pending(s, r, o)) \in Nat
  <2>1. metrics[s] \in Seq(PayloadType)
    BY Lengths
  <2>2. Pending(s, r, o) \subseteq DOMAIN metrics[s]
    BY DEF Pending
  <2> QED
    BY <2>1, <2>2, PlacesAreFinite
<1> QED
  BY <1>1, <1>2 DEF Due, DueIsFinite

\* An invocation changes what is due by its own part.
LEMMA DueChanges ==
    ASSUME PipelineAssumption, TypeOK, NEW s \in Slots, NEW r, NEW o, Due(s, r, o)' \in Nat,
           \A t \in Slots \ {s} : /\ msg'[t] = msg[t] /\ pc'[t] = pc[t] /\ next'[t] = next[t]
                                 /\ metrics'[t] = metrics[t] /\ at'[t] = at[t]
    PROVE  /\ DueTo(r, o)' = DueTo(r, o) + (Due(s, r, o)' - Due(s, r, o))
           /\ DueTo(r, o) \in Int /\ Due(s, r, o) \in Nat
<1> DEFINE f == [t \in Slots |-> Due(t, r, o)]
           f1 == [t \in Slots |-> Due(t, r, o)']
<1>1. \A t \in Slots : Due(t, r, o) \in Nat
  BY DueType DEF DueIsFinite
<1>2. \A t \in Slots \ {s} : Due(t, r, o)' = Due(t, r, o)
  BY ZenonT(40) DEF Due, Ahead, Pending
<1>3. \A t \in Slots : Due(t, r, o)' \in Nat
  BY <1>1, <1>2
<1>4. IsFiniteSet(Slots)
  BY DEF PipelineAssumption
<1>5. DueTo(r, o) = SumFunctionOnSet(f, Slots) /\ DueTo(r, o)' = SumFunctionOnSet(f1, Slots)
  BY DEF DueTo
<1>6. /\ \A t \in Slots : f[t] \in Int /\ f1[t] \in Int
      /\ \A t \in Slots \ {s} : f1[t] = f[t]
      /\ f[s] = Due(s, r, o) /\ f1[s] = Due(s, r, o)'
  BY <1>1, <1>2, <1>3
<1> HIDE DEF f, f1
<1>7. SumFunctionOnSet(f1, Slots) = SumFunctionOnSet(f, Slots) + (f1[s] - f[s])
  BY <1>4, <1>6, SumOneChanged
<1>8. SumFunctionOnSet(f, Slots) \in Int
  BY <1>4, <1>6, SumType
<1> QED
  BY <1>1, <1>2, <1>5, <1>6, <1>7, <1>8

LEMMA HandedType ==
    ASSUME PipelineAssumption, TypeOK, NEW o
    PROVE  /\ \A m \in Messages : Times(o, m) \in Nat
           /\ Handed(o) \in Int
<1>1. ASSUME NEW m \in Messages PROVE Times(o, m) \in Nat
  <2>1. Records[m] \in Seq(Objects)
    BY Lengths
  <2> QED
    BY <2>1, PlacesAreFinite DEF Times
<1> DEFINE f == [m \in Messages |-> receives[m] * Times(o, m)]
<1>2. \A m \in Messages : f[m] \in Int
  <2> SUFFICES ASSUME NEW m \in Messages PROVE receives[m] * Times(o, m) \in Int
    OBVIOUS
  <2>1. receives[m] \in Int /\ Times(o, m) \in Int
    BY <1>1 DEF TypeOK
  <2> QED
    BY <2>1
<1> HIDE DEF f
<1>3. SumFunctionOnSet(f, Messages) \in Int
  BY <1>2, SumType DEF PipelineAssumption
<1> QED
  BY <1>1, <1>3 DEF Handed, f

\* A message that is received hands out its objects as often as it names them.
LEMMA HandedOut ==
    ASSUME PipelineAssumption, TypeOK, TypeOK', NEW m \in Messages, NEW o,
           receives'[m] = receives[m] + 1,
           \A n \in Messages \ {m} : receives'[n] = receives[n]
    PROVE  Handed(o)' = Handed(o) + Times(o, m)
<1>1. Handed(o) \in Int /\ \A n \in Messages : Times(o, n) \in Nat
  BY HandedType
<1>2. \A n \in Messages : receives[n] \in Int /\ receives'[n] \in Int
  <2>1. receives \in [Messages -> 0..MaxReceives] /\ receives' \in [Messages -> 0..MaxReceives]
    BY DEF TypeOK
  <2> QED
    BY <2>1 DEF PipelineAssumption
<1> DEFINE f == [n \in Messages |-> receives[n] * Times(o, n)]
           f1 == [n \in Messages |-> receives'[n] * Times(o, n)]
<1>3. \A n \in Messages : f[n] \in Int /\ f1[n] \in Int
  BY <1>1, <1>2
<1>4. f1[m] = f[m] + Times(o, m)
  <2>1. (receives[m] + 1) * Times(o, m) = receives[m] * Times(o, m) + Times(o, m)
    BY <1>1, <1>2
  <2> QED
    BY <1>2, <2>1
<1>5. \A n \in Messages \ {m} : f1[n] = f[n]
  OBVIOUS
<1>6. Handed(o) = SumFunctionOnSet(f, Messages) /\ Handed(o)' = SumFunctionOnSet(f1, Messages)
  BY DEF Handed, Times
<1> HIDE DEF f, f1
<1>7. IsFiniteSet(Messages)
  BY DEF PipelineAssumption
<1>8. SumFunctionOnSet(f1, Messages) = SumFunctionOnSet(f, Messages) + (f1[m] - f[m])
  BY <1>3, <1>5, <1>7, SumOneChanged
<1> QED
  <2>1. Handed(o) \in Int /\ Times(o, m) \in Int /\ f[m] \in Int /\ f1[m] \in Int
    BY <1>1, <1>3
  <2> QED
    BY <1>4, <1>6, <1>8, <2>1

\* The same in the next state
LEMMA DueTypeNext ==
    ASSUME NEW s \in Slots, NEW r, NEW o
    PROVE  TypeOK' => DueIsFinite(s, r, o)'
<1>1. TypeOK => DueIsFinite(s, r, o)
  BY DueType, PipelineAssumption
<1> QED
  BY <1>1, PTL

\* Without backfill a notification is aggregated to at most one payload for
\* each resource, with its own object and no other.
LEMMA PayloadsOnce ==
    ASSUME PipelineAssumption, ~ BackfillEnabled, NEW o \in Objects, NEW ms \in Payloads(o)
    PROVE  /\ \A k \in DOMAIN ms : ms[k].objects \subseteq {o}
           /\ \A k, l \in DOMAIN ms : ms[k].resource = ms[l].resource => k = l
<1> DEFINE rs == ResourcesOf[o]
           c == Cardinality(rs)
<1>1. Sources(o) = {o}
  BY DEF Sources
<1>2. UNION {ResourcesOf[p] : p \in Sources(o)} = rs
  BY <1>1
<1>3. IsFiniteSet(rs)
  BY FS_Subset DEF PipelineAssumption
<1>4. PICK f \in [1..c -> rs] : Range(f) = rs /\ ms = [i \in DOMAIN f |-> Payload(o, f[i])]
  BY <1>2 DEF Payloads
<1>5. c \in Nat
  BY <1>3, FS_CardinalityType
<1> HIDE DEF rs, c
<1>6. IsFiniteSet(1..c) /\ Cardinality(1..c) = c
  BY <1>5, FS_Interval
<1>7. f \in Surjection(1..c, rs)
  BY <1>4 DEF Range, Surjection
<1>8. f \in Injection(1..c, rs)
  BY <1>6, <1>7, FS_Surjection DEF c
<1>9. \A k, l \in 1..c : f[k] = f[l] => k = l
  BY <1>8 DEF Injection, IsInjective
<1>10. \A k \in DOMAIN ms : k \in 1..c /\ ms[k].resource = f[k] /\ ms[k].objects \subseteq {o}
  BY <1>1, <1>4 DEF Payload
<1> QED
  BY <1>9, <1>10

\* What is aggregated now is due for export instead.
LEMMA GeneratedIsDue ==
    ASSUME PipelineAssumption, TypeOK, TypeOK', ~ BackfillEnabled,
           NEW s \in Slots, Generate(s), NEW r, NEW o
    PROVE  Due(s, r, o)' <= Due(s, r, o)
<1>1. /\ pc[s] = "generate" /\ msg[s] \in Messages /\ Records[msg[s]] \in Seq(Objects)
      /\ next[s] \in DOMAIN Records[msg[s]]
      /\ pc'[s] = "generate" /\ msg'[s] = msg[s] /\ at'[s] = at[s] /\ next'[s] = next[s] + 1
  <2>1. pc[s] = "generate" /\ next[s] <= Len(Records[msg[s]])
    BY DEF Generate, Notifications
  <2>2. next[s] \in Nat \ {0}
    BY DEF TypeOK
  <2>3. next'[s] = next[s] + 1
    BY DEF TypeOK, Generate
  <2>4. pc' = pc /\ msg' = msg /\ at' = at
    BY DEF Generate
  <2> QED
    BY <2>1, <2>2, <2>3, <2>4, Lengths, LenProperties
<1> DEFINE now == Records[msg[s]][next[s]]
<1>2. PICK ms \in Payloads(now) : metrics'[s] = metrics[s] \o ms
  BY DEF TypeOK, Generate, Notifications
<1>3. now \in Objects
  BY <1>1, ElementOfSeq, LenProperties
<1> HIDE DEF now
<1>4. ms \in Seq(PayloadType) /\ metrics[s] \in Seq(PayloadType)
  BY <1>3, PayloadsProperties, Lengths
<1>5. /\ \A k \in DOMAIN ms : ms[k].objects \subseteq {now}
      /\ \A k, l \in DOMAIN ms : ms[k].resource = ms[l].resource => k = l
  BY <1>3, PayloadsOnce
<1> DEFINE n == Len(metrics[s])
           new == {k \in 1..Len(ms) : ms[k].resource = r /\ o \in ms[k].objects}
<1>6. n \in Nat /\ Len(ms) \in Nat /\ DOMAIN ms = 1..Len(ms) /\ DOMAIN metrics[s] = 1..n
  BY <1>4, LenProperties
<1>7. /\ DOMAIN (metrics[s] \o ms) = 1..(n + Len(ms))
      /\ \A k \in 1..(n + Len(ms)) :
            (metrics[s] \o ms)[k] = IF k <= n THEN metrics[s][k] ELSE ms[k - n]
  BY <1>4, <1>6, ConcatProperties, LenProperties
<1>8. \A k \in Pending(s, r, o)' : k \in Pending(s, r, o) \/ (k - n \in new /\ k \in Int)
  <2> SUFFICES ASSUME NEW k \in 1..(n + Len(ms)), k >= at[s],
                      (metrics[s] \o ms)[k].resource = r, o \in (metrics[s] \o ms)[k].objects
               PROVE  k \in Pending(s, r, o) \/ k - n \in new
    BY <1>1, <1>2, <1>6, <1>7 DEF Pending
  <2>1. CASE k <= n
    BY <1>6, <1>7, <2>1 DEF Pending
  <2>2. CASE ~ (k <= n)
    BY <1>6, <1>7, <2>2
  <2> QED
    BY <2>1, <2>2
<1>9. /\ IsFiniteSet(Pending(s, r, o)) /\ Cardinality(Pending(s, r, o)) \in Nat
      /\ IsFiniteSet(Ahead(s, o)) /\ Cardinality(Ahead(s, o)) \in Nat
      /\ IsFiniteSet(Pending(s, r, o)') /\ Cardinality(Pending(s, r, o))' \in Nat
      /\ IsFiniteSet(Ahead(s, o)') /\ Cardinality(Ahead(s, o))' \in Nat
  BY <1>1, DueType, DueTypeNext DEF DueIsFinite
<1> DEFINE one == IF now = o THEN 1 ELSE 0
<1>10. Cardinality(Pending(s, r, o)') <= Cardinality(Pending(s, r, o)) + one
  <2>1. CASE new = {}
    <3>1. Pending(s, r, o)' \subseteq Pending(s, r, o)
      BY <1>8, <2>1
    <3>2. Cardinality(Pending(s, r, o)') <= Cardinality(Pending(s, r, o))
      BY <1>9, <3>1, FS_Subset
    <3> QED
      BY <1>9, <3>2
  <2>2. CASE new # {}
    <3>1. PICK k \in new : TRUE
      BY <2>2
    <3>2. now = o /\ \A l \in new : l = k
      BY <1>5, <1>6, <3>1
    <3>3. k \in Int
      BY <1>6, <3>1
    <3> DEFINE more == Pending(s, r, o) \cup {n + k}
    <3>4. \A i \in Pending(s, r, o)' : i \in more
      <4> SUFFICES ASSUME NEW i \in Pending(s, r, o)', i \notin Pending(s, r, o) PROVE i = n + k
        OBVIOUS
      <4>1. i - n \in new /\ i \in Int
        BY <1>8
      <4>2. i - n = k
        BY <3>2, <4>1
      <4> QED
        BY <1>6, <3>3, <4>1, <4>2
    <3>5. /\ IsFiniteSet(more)
          /\ Cardinality(more) = Cardinality(Pending(s, r, o))
                \/ Cardinality(more) = Cardinality(Pending(s, r, o)) + 1
      BY <1>9, FS_AddElement
    <3>6. Cardinality(Pending(s, r, o)') <= Cardinality(more)
      BY <1>9, <3>4, <3>5, FS_Subset
    <3> QED
      BY <1>9, <3>2, <3>5, <3>6
  <2> QED
    BY <2>1, <2>2
<1>11. Cardinality(Ahead(s, o)') <= Cardinality(Ahead(s, o)) - one
  <2>1. next[s] \in Nat /\ DOMAIN Records[msg[s]] = 1..Len(Records[msg[s]]) /\ Len(Records[msg[s]]) \in Nat
    BY <1>1, LenProperties
  <2>2. Ahead(s, o)' \subseteq Ahead(s, o) /\ next[s] \notin Ahead(s, o)'
    BY <1>1, <2>1 DEF Ahead
  <2>3. CASE now = o
    <3>1. next[s] \in Ahead(s, o)
      BY <1>1, <2>1, <2>3 DEF Ahead, now
    <3>2. /\ IsFiniteSet(Ahead(s, o) \ {next[s]})
          /\ Cardinality(Ahead(s, o) \ {next[s]}) = Cardinality(Ahead(s, o)) - 1
      <4> DEFINE A == Ahead(s, o)
                 x == next[s]
      <4>1. IsFiniteSet(A) /\ x \in A
        BY <1>9, <3>1
      <4> HIDE DEF A, x, one
      <4>2. IsFiniteSet(A \ {x}) /\ Cardinality(A \ {x}) = Cardinality(A) - 1
        BY <4>1, FS_RemoveElement
      <4> QED
        BY <4>2 DEF A, x
    <3>3. Cardinality(Ahead(s, o)') <= Cardinality(Ahead(s, o) \ {next[s]})
      BY <2>2, <3>2, FS_Subset
    <3> QED
      BY <2>3, <3>2, <3>3
  <2>4. CASE now # o
    <3>1. Cardinality(Ahead(s, o)') <= Cardinality(Ahead(s, o))
      BY <1>9, <2>2, FS_Subset
    <3> QED
      BY <1>9, <2>4, <3>1
  <2> QED
    BY <2>3, <2>4
<1>12. /\ Due(s, r, o) = Cardinality(Ahead(s, o)) + Cardinality(Pending(s, r, o))
       /\ Due(s, r, o)' = Cardinality(Ahead(s, o)') + Cardinality(Pending(s, r, o)')
  BY <1>1 DEF Due
<1>13. one \in {0, 1}
  OBVIOUS
<1> HIDE DEF one
<1> QED
  BY <1>9, <1>10, <1>11, <1>12, <1>13

\* The payload the invocation is at is done with, and one export adds as much
\* as it may be sent, there or on its way.
LEMMA ExportedIsNotDue ==
    ASSUME PipelineAssumption, TypeOK, TypeOK', IsFiniteSet(late), ~ BackfillEnabled,
           NEW s \in Slots, Export(s), NEW r \in Resources, NEW o \in Objects
    PROVE  /\ IsFiniteSet(late')
           /\ \/ Total(r, o)' <= Total(r, o) /\ Due(s, r, o)' <= Due(s, r, o)
              \/ Total(r, o)' <= Total(r, o) + MaxSends /\ Due(s, r, o)' <= Due(s, r, o) - 1
<1>1. /\ pc[s] = "export" /\ pc'[s] = "export" /\ msg'[s] = msg[s] /\ next'[s] = next[s]
      /\ metrics'[s] = metrics[s] /\ at'[s] = at[s] + 1
  <2>1. at'[s] = at[s] + 1
    BY DEF TypeOK, Export
  <2> QED
    BY <2>1 DEF Export
<1>2. /\ metrics[s] \in Seq(PayloadType) /\ Len(metrics[s]) \in Nat
      /\ DOMAIN metrics[s] = 1..Len(metrics[s]) /\ at[s] \in DOMAIN metrics[s]
  <2>1. at[s] \in Nat \ {0} /\ at[s] <= Len(metrics[s])
    BY DEF TypeOK, Export
  <2> QED
    BY <2>1, Lengths, LenProperties
<1> DEFINE p == metrics[s][at[s]]
           has == r = p.resource /\ o \in p.objects
<1>3. PICK sends \in Nat, R \in SUBSET p.objects :
         /\ sends <= MaxSends
         /\ store' = Received(p, R, sends)
         /\ \/ late' = late
            \/ \E w \in Wires : late' = late \cup {<<w, p>>} /\ sends < MaxSends
  BY ExportIs
<1>4. p \in PayloadType
  BY <1>2, ElementOfSeq
<1>5. store[r][o] \in Nat /\ store'[r][o] \in Nat /\ MaxSends \in Nat
  BY DEF TypeOK, PipelineAssumption
<1>6. /\ IsFiniteSet(late')
      /\ Total(r, o)' <= (IF has THEN Total(r, o) + MaxSends ELSE Total(r, o))
  <2> DEFINE L == LateOf(r, o)
             L1 == LateOf(r, o)'
  <2>1. IsFiniteSet(L) /\ Cardinality(L) \in Nat
    BY LateIsFinite
  <2>2. store'[r][o] <= store[r][o] + sends
    BY <1>3, <1>4, ReceivedProperties
  <2>3. ~ has => store'[r][o] <= store[r][o]
    <3>1. store'[r][o] > store[r][o] => has
      BY <1>3, <1>4, ReceivedProperties
    <3> QED
      BY <1>5, <3>1
  <2>4. Total(r, o) = store[r][o] + Cardinality(L) /\ Total(r, o)' = store'[r][o] + Cardinality(L1)
    BY DEF Total
  <2>5. CASE late' = late
    <3>1. L1 = L
      BY <2>5 DEF LateOf
    <3>2. IsFiniteSet(late')
      BY <2>5
    <3> DEFINE was == store[r][o]
               now == store'[r][o]
               n == Cardinality(L)
    <3>3. /\ was \in Nat /\ now \in Nat /\ MaxSends \in Nat /\ sends \in Nat /\ n \in Nat
          /\ sends <= MaxSends /\ now <= was + sends /\ (~ has => now <= was)
          /\ Total(r, o) = was + n /\ Total(r, o)' = now + n
      BY <1>3, <1>5, <2>1, <2>2, <2>3, <2>4, <3>1
    <3> HIDE DEF L, L1, has, was, now, n
    <3>4. Total(r, o)' <= (IF has THEN Total(r, o) + MaxSends ELSE Total(r, o))
      BY <3>3
    <3> QED
      BY <3>2, <3>4
  <2>6. ASSUME NEW w \in Wires, late' = late \cup {<<w, p>>}, sends < MaxSends
        PROVE  /\ IsFiniteSet(late')
               /\ Total(r, o)' <= (IF has THEN Total(r, o) + MaxSends ELSE Total(r, o))
    <3>1. IsFiniteSet(late')
      BY <2>6, FS_AddElement
    <3>2. CASE has
      <4>1. L1 = L \cup {<<w, p>>}
        BY <2>6, <3>2 DEF LateOf
      <4>2. Cardinality(L1) = Cardinality(L) \/ Cardinality(L1) = Cardinality(L) + 1
        BY <2>1, <4>1, FS_AddElement
      <4> DEFINE was == store[r][o]
                 now == store'[r][o]
                 n == Cardinality(L)
                 n1 == Cardinality(L1)
      <4>3. /\ was \in Nat /\ now \in Nat /\ MaxSends \in Nat /\ sends \in Nat /\ n \in Nat
            /\ sends < MaxSends /\ now <= was + sends /\ (n1 = n \/ n1 = n + 1)
            /\ Total(r, o) = was + n /\ Total(r, o)' = now + n1
        BY <1>3, <1>5, <2>1, <2>2, <2>4, <2>6, <4>2
      <4> HIDE DEF L, L1, has, was, now, n, n1
      <4>4. Total(r, o)' <= Total(r, o) + MaxSends
        BY <4>3
      <4> QED
        BY <3>1, <3>2, <4>4
    <3>3. CASE ~ has
      <4>1. L1 = L
        BY <2>6, <3>3 DEF LateOf
      <4> HIDE DEF L, L1, has
      <4> QED
        BY <1>5, <2>1, <2>3, <2>4, <3>1, <3>3, <4>1
    <3> QED
      BY <3>2, <3>3
  <2> QED
    BY <1>3, <2>5, <2>6
<1>7. /\ IsFiniteSet(Pending(s, r, o)) /\ Cardinality(Pending(s, r, o)) \in Nat
      /\ Cardinality(Ahead(s, o)) \in Nat /\ Cardinality(Pending(s, r, o))' \in Nat
  BY <1>1, DueType, DueTypeNext DEF DueIsFinite
<1>8. Ahead(s, o)' = Ahead(s, o)
  BY <1>1 DEF Ahead
<1>9. Pending(s, r, o)' = Pending(s, r, o) \ {at[s]}
  <2>1. \A k \in DOMAIN metrics[s] : k >= at[s] + 1 <=> (k >= at[s] /\ k # at[s])
    BY <1>2
  <2> QED
    BY <1>1, <2>1 DEF Pending
<1>10. at[s] \in Pending(s, r, o) <=> has
  BY <1>2 DEF Pending
<1>11. /\ has => Cardinality(Pending(s, r, o)') = Cardinality(Pending(s, r, o)) - 1
       /\ ~ has => Pending(s, r, o)' = Pending(s, r, o)
  <2>1. ASSUME at[s] \in Pending(s, r, o)
        PROVE  Cardinality(Pending(s, r, o) \ {at[s]}) = Cardinality(Pending(s, r, o)) - 1
    <3> DEFINE P == Pending(s, r, o)
               x == at[s]
    <3>1. IsFiniteSet(P) /\ x \in P
      BY <1>7, <2>1
    <3> HIDE DEF P, x, p, has
    <3>2. Cardinality(P \ {x}) = Cardinality(P) - 1
      BY <3>1, FS_RemoveElement
    <3> QED
      BY <3>2 DEF P, x
  <2>2. ASSUME at[s] \notin Pending(s, r, o)
        PROVE  Pending(s, r, o) \ {at[s]} = Pending(s, r, o)
    BY <2>2
  <2> HIDE DEF has
  <2> QED
    BY <1>9, <1>10, <2>1, <2>2
<1>12. /\ Due(s, r, o) = Cardinality(Ahead(s, o)) + Cardinality(Pending(s, r, o))
       /\ Due(s, r, o)' = Cardinality(Ahead(s, o)) + Cardinality(Pending(s, r, o)')
  BY <1>1, <1>8 DEF Due
<1> HIDE DEF p, has
<1>13. CASE has
  BY <1>6, <1>7, <1>11, <1>12, <1>13
<1>14. CASE ~ has
  BY <1>6, <1>7, <1>11, <1>12, <1>14
<1> QED
  BY <1>13, <1>14

\* What is there and due together grow only by what is handed out.
LEMMA WithinStep ==
    ASSUME PipelineAssumption, WellTyped, WellTyped', WithinHanded, ~ BackfillEnabled, [Next]_vars
    PROVE  WithinHanded'
<1>0. IsFiniteSet(late')
  <2>1. CASE late' = late
    BY <2>1 DEF WithinHanded
  <2>2. ASSUME NEW s \in Slots, Export(s) PROVE IsFiniteSet(late')
    <3>1. late' = late \/ \E w \in Wires : late' = late \cup {<<w, metrics[s][at[s]]>>}
      BY <2>2, ExportIs DEF WellTyped
    <3>2. IsFiniteSet(late) /\ \A w \in Wires : IsFiniteSet(late \cup {<<w, metrics[s][at[s]]>>})
      BY FS_AddElement DEF WithinHanded
    <3> QED
      BY <3>1, <3>2
  <2>3. ASSUME NEW l \in late, Arrive(l) PROVE IsFiniteSet(late')
    BY <2>3, FS_RemoveElement DEF WithinHanded, Arrive
  <2> QED
    BY <2>1, <2>2, <2>3 DEF Next, vars, slotVars, queueVars, backendVars, Put, Notify, Expire,
       Receive, Acknowledge, Refuse, Kill, Invocation, Leave, AllSettled, InvokeNothing,
       NewExporter, NewExporterFails, Generate, GenerateFails, GenerateEnds, ExportEnds, Shutdown
<1> SUFFICES ASSUME NEW r \in Resources, NEW o \in Objects
             PROVE  Total(r, o)' + MaxSends * DueTo(r, o)' <= MaxSends * Handed(o)'
  BY <1>0 DEF WithinHanded
<1>1. TypeOK /\ TypeOK'
  BY DEF WellTyped
<1>2. /\ Total(r, o) \in Nat /\ Total(r, o)' \in Nat /\ MaxSends \in Nat /\ Handed(o) \in Int
      /\ Total(r, o) + MaxSends * DueTo(r, o) <= MaxSends * Handed(o)
  <2>1. Total(r, o) \in Nat /\ Total(r, o)' \in Nat
    BY <1>0, <1>1, LateIsFinite, TotalTypeNext DEF WithinHanded, TotalIsNat
  <2> QED
    BY <1>1, <2>1, HandedType DEF PipelineAssumption, WithinHanded
<1>3. ASSUME receives' = receives PROVE Handed(o)' = Handed(o)
  BY <1>3 DEF Handed, Times
<1> USE <1>0
<1>11. ASSUME UNCHANGED <<store, late>> PROVE Total(r, o)' = Total(r, o)
  BY <1>11 DEF Total, LateOf
<1>4. ASSUME UNCHANGED <<slotVars, receives>>, Total(r, o)' <= Total(r, o)
      PROVE  Total(r, o)' + MaxSends * DueTo(r, o)' <= MaxSends * Handed(o)'
  <2>1. DueTo(r, o)' = DueTo(r, o)
    BY <1>4 DEF DueTo, Due, Ahead, Pending, slotVars
  <2>2. DueTo(r, o) \in Int
    <3>1. \A s \in Slots : Due(s, r, o) \in Nat
      BY <1>1, DueType DEF DueIsFinite
    <3> DEFINE f == [s \in Slots |-> Due(s, r, o)]
    <3>2. \A s \in Slots : f[s] \in Int
      BY <3>1
    <3>3. DueTo(r, o) = SumFunctionOnSet(f, Slots)
      BY DEF DueTo
    <3> HIDE DEF f
    <3> QED
      BY <3>2, <3>3, SumType DEF PipelineAssumption
  <2>3. MaxSends * DueTo(r, o) \in Int /\ MaxSends * Handed(o) \in Int
    BY <1>2, <2>2
  <2> QED
    BY <1>2, <1>3, <1>4, <2>1, <2>3
<1>5. ASSUME NEW s \in Slots
      PROVE  Due(s, r, o) \in Nat /\ Due(s, r, o)' \in Nat
  BY <1>1, DueType, DueTypeNext DEF DueIsFinite
<1>6. ASSUME NEW s \in Slots, receives' = receives,
             \A t \in Slots \ {s} : /\ msg'[t] = msg[t] /\ pc'[t] = pc[t] /\ next'[t] = next[t]
                                   /\ metrics'[t] = metrics[t] /\ at'[t] = at[t],
             \/ Total(r, o)' <= Total(r, o) /\ Due(s, r, o)' <= Due(s, r, o)
             \/ Total(r, o)' <= Total(r, o) + MaxSends /\ Due(s, r, o)' <= Due(s, r, o) - 1
      PROVE  Total(r, o)' + MaxSends * DueTo(r, o)' <= MaxSends * Handed(o)'
  <2>1. /\ DueTo(r, o)' = DueTo(r, o) + (Due(s, r, o)' - Due(s, r, o))
        /\ DueTo(r, o) \in Int
    BY <1>1, <1>5, <1>6, DueChanges
  <2> DEFINE less == Due(s, r, o) - Due(s, r, o)'
  <2>2. less \in Nat /\ DueTo(r, o)' = DueTo(r, o) - less
    BY <1>5, <1>6, <2>1
  <2>3. /\ MaxSends * (DueTo(r, o) - less) = MaxSends * DueTo(r, o) - MaxSends * less
        /\ MaxSends * less >= 0
        /\ less >= 1 => MaxSends * less >= MaxSends
    <3> HIDE DEF less
    <3>1. MaxSends * (DueTo(r, o) - less) = MaxSends * DueTo(r, o) - MaxSends * less
      BY <1>2, <2>1, <2>2
    <3>2. ASSUME NEW a \in Nat, NEW b \in Nat PROVE a * b >= 0 /\ (b >= 1 => a * b >= a)
      <4>1. ASSUME b >= 1 PROVE a * b >= a
        <5>1. a * b = a + a * (b - 1) /\ a * (b - 1) >= 0
          BY <4>1
        <5> QED
          BY <5>1
      <4> QED
        BY <4>1
    <3> QED
      BY <1>2, <2>2, <3>1, <3>2
  <2>4. Total(r, o)' <= Total(r, o) + MaxSends * less
    <3>1. \/ Total(r, o)' <= Total(r, o) /\ less >= 0
          \/ Total(r, o)' <= Total(r, o) + MaxSends /\ less >= 1
      BY <1>5, <1>6
    <3> HIDE DEF less
    <3>2. MaxSends * less \in Int
      BY <1>2, <2>2
    <3> QED
      BY <1>2, <2>3, <3>1, <3>2
  <2> HIDE DEF less
  <2>5. MaxSends * less \in Int /\ MaxSends * DueTo(r, o) \in Int /\ MaxSends * Handed(o) \in Int
    BY <1>2, <2>1, <2>2
  <2>6. Total(r, o)' + MaxSends * (DueTo(r, o) - less) <= MaxSends * Handed(o)
    <3>1. ASSUME NEW a \in Int, NEW b \in Int, NEW c \in Int, NEW d \in Int, NEW x \in Int, NEW y,
                 a + x <= d, b <= a + c, y = x - c
          PROVE  b + y <= d
      BY <3>1
    <3> QED
      BY <1>2, <2>3, <2>4, <2>5, <3>1
  <2> QED
    BY <1>3, <1>6, <2>2, <2>6
<1>7. ASSUME NEW s \in Slots, NEW m \in Messages, Receive(s, m)
      PROVE  Total(r, o)' + MaxSends * DueTo(r, o)' <= MaxSends * Handed(o)'
  <2>1. /\ pc[s] = "idle" /\ pc'[s] = "invoke" /\ msg'[s] = m /\ next'[s] = 1 /\ metrics'[s] = <<>>
        /\ UNCHANGED <<store, late>>
    BY <1>1, <1>7 DEF TypeOK, WellTyped, Fresh, Receive, backendVars
  <2>2. Due(s, r, o) = 0
    BY <2>1 DEF Due
  <2>3. Records[m] \in Seq(Objects) /\ DOMAIN Records[m] = 1..Len(Records[m]) /\ Len(Records[m]) \in Nat
    BY <1>1, Lengths, LenProperties
  <2>4. Due(s, r, o)' = Times(o, m)
    <3>1. Ahead(s, o)' = {i \in DOMAIN Records[m] : Records[m][i] = o}
      BY <2>1, <2>3 DEF Ahead
    <3>2. Pending(s, r, o)' = {}
      <4>1. DOMAIN metrics'[s] = {}
        BY <2>1, EmptySeq, LenProperties
      <4> QED
        BY <4>1 DEF Pending
    <3>3. Cardinality({}) = 0 /\ Times(o, m) \in Nat
      BY <1>1, FS_EmptySet, HandedType
    <3> QED
      BY <2>1, <3>1, <3>2, <3>3 DEF Due, Times
  <2>5. Handed(o)' = Handed(o) + Times(o, m) /\ Times(o, m) \in Nat
    <3>1. receives'[m] = receives[m] + 1 /\ \A n \in Messages \ {m} : receives'[n] = receives[n]
      BY <1>1, <1>7 DEF TypeOK, Receive
    <3> QED
      BY <1>1, <3>1, HandedOut, HandedType
  <2>6. DueTo(r, o)' = DueTo(r, o) + Times(o, m) /\ DueTo(r, o) \in Int
    <3>1. \A t \in Slots \ {s} : /\ msg'[t] = msg[t] /\ pc'[t] = pc[t] /\ next'[t] = next[t]
                                /\ metrics'[t] = metrics[t] /\ at'[t] = at[t]
      BY <1>1, <1>7 DEF TypeOK, Receive
    <3>2. /\ DueTo(r, o)' = DueTo(r, o) + (Due(s, r, o)' - Due(s, r, o))
          /\ DueTo(r, o) \in Int
      BY <1>1, <1>5, <3>1, DueChanges
    <3> QED
      BY <2>2, <2>4, <2>5, <3>2
  <2>7. ASSUME NEW a \in Int, NEW b \in Int, NEW c \in Int, NEW d \in Int, NEW k \in Int,
               a + k * b <= k * c
        PROVE  a + k * (b + d) <= k * (c + d)
    <3>1. k * (b + d) = k * b + k * d /\ k * (c + d) = k * c + k * d
      OBVIOUS
    <3> QED
      BY <2>7, <3>1
  <2>8. Total(r, o) + MaxSends * (DueTo(r, o) + Times(o, m)) <= MaxSends * (Handed(o) + Times(o, m))
    BY <1>2, <2>5, <2>6, <2>7, SMTT(40)
  <2>9. Total(r, o)' = Total(r, o)
    BY <1>11, <2>1
  <2> QED
    BY <2>5, <2>6, <2>8, <2>9
<1>8. ASSUME NEW s \in Slots, Invocation(s) \/ Leave(s)
      PROVE  /\ receives' = receives
             /\ \A t \in Slots \ {s} : /\ msg'[t] = msg[t] /\ pc'[t] = pc[t] /\ next'[t] = next[t]
                                    /\ metrics'[t] = metrics[t] /\ at'[t] = at[t]
             /\ \/ Total(r, o)' <= Total(r, o) /\ Due(s, r, o)' <= Due(s, r, o)
                \/ Total(r, o)' <= Total(r, o) + MaxSends /\ Due(s, r, o)' <= Due(s, r, o) - 1
  <2>1. CASE Leave(s)
    <3>1. Free(s) /\ UNCHANGED <<receives, store, late>>
      BY <2>1 DEF Leave, Acknowledge, Refuse, Kill, queueVars, backendVars
    <3>2. Due(s, r, o)' = 0
      BY <1>1, <3>1 DEF TypeOK, Free, Due
    <3>3. Total(r, o)' <= Total(r, o)
      BY <1>2, <1>11, <3>1
    <3> QED
      BY <1>1, <1>5, <3>1, <3>2, <3>3 DEF TypeOK, Free
  <2>2. CASE Generate(s)
    <3>1. Total(r, o)' <= Total(r, o)
      BY <1>2, <1>11, <2>2 DEF Generate, backendVars
    <3> QED
      BY <1>1, <2>2, <3>1, GeneratedIsDue DEF TypeOK, Generate, queueVars
  <2>3. CASE Export(s)
    <3>1. \A t \in Slots \ {s} : at'[t] = at[t]
      BY <1>1, <2>3 DEF TypeOK, Export
    <3> QED
      BY <1>1, <2>3, <3>1, ExportedIsNotDue DEF Export, queueVars, WithinHanded
  <2>4. CASE \/ InvokeNothing(s) \/ NewExporter(s) \/ NewExporterFails(s) \/ GenerateFails(s)
            \/ GenerateEnds(s) \/ ExportEnds(s) \/ Shutdown(s)
    <3>1. /\ UNCHANGED <<queueVars, msg, next, metrics, at, store, late>>
          /\ pc[s] \in {"invoke", "generate"} \/ pc'[s] \in {"shutdown", "return"}
          /\ \A t \in Slots \ {s} : pc'[t] = pc[t]
          /\ pc[s] # "idle"
          /\ pc[s] \in {"shutdown", "return"} => pc'[s] = "return"
      BY <1>1, <2>4, SMTT(40) DEF TypeOK, InvokeNothing, NewExporter, NewExporterFails, GenerateFails,
         GenerateEnds, ExportEnds, Shutdown, backendVars
    <3>2. Due(s, r, o)' <= Due(s, r, o)
      <4>1. Ahead(s, o)' = Ahead(s, o) /\ Pending(s, r, o)' = Pending(s, r, o)
        BY <3>1 DEF Ahead, Pending
      <4>2. Due(s, r, o)' = Due(s, r, o) \/ Due(s, r, o)' = 0
        BY <3>1, <4>1 DEF Due
      <4> QED
        BY <1>5, <4>2
    <3>3. Total(r, o)' <= Total(r, o)
      BY <1>2, <1>11, <3>1
    <3> QED
      BY <3>1, <3>2, <3>3 DEF queueVars
  <2> QED
    BY <1>8, <2>1, <2>2, <2>3, <2>4 DEF Invocation
<1>9. ASSUME NEW l \in late, Arrive(l)
      PROVE  Total(r, o)' + MaxSends * DueTo(r, o)' <= MaxSends * Handed(o)'
  <2>1. Total(r, o)' <= Total(r, o)
    BY <1>1, <1>9, ArrivedWasLate DEF WithinHanded
  <2> QED
    BY <1>4, <1>9, <2>1 DEF Arrive, queueVars
<1>10. ASSUME UNCHANGED <<slotVars, receives, store, late>>
       PROVE  Total(r, o)' + MaxSends * DueTo(r, o)' <= MaxSends * Handed(o)'
  BY <1>2, <1>4, <1>10, <1>11
<1> QED
  BY <1>6, <1>7, <1>8, <1>9, <1>10 DEF Next, vars, slotVars, queueVars, backendVars, AllSettled, Put,
     Notify, Expire

\* Without backfill an object is counted no more often than its messages were
\* received, times what the exporter sends again by itself: an invocation
\* adds each payload once and only that of its own message.
THEOREM OvercountIsRedelivery ==
    ASSUME ~ BackfillEnabled
    PROVE  Spec => []OvercountOnlyByRedelivery
<1> DEFINE IInv == WellTyped /\ WithinHanded
<1>1. Init => WellTyped
  <2>1. <<>> \in Seq(PayloadType) /\ Len(<<>>) = 0
    BY EmptySeq
  <2> QED
    BY <2>1, PipelineAssumption, LenProperties
       DEF Init, WellTyped, TypeOK, Fresh, SlotInRange, PipelineAssumption, PayloadType
<1>2. Init => WithinHanded
  <2>0. Init => IsFiniteSet(late)
    BY FS_EmptySet DEF Init
  <2> SUFFICES ASSUME Init, NEW r \in Resources, NEW o \in Objects
               PROVE  Total(r, o) + MaxSends * DueTo(r, o) <= MaxSends * Handed(o)
    BY <2>0 DEF WithinHanded
  <2>1. TypeOK
    BY <1>1 DEF WellTyped
  <2> DEFINE f == [s \in Slots |-> Due(s, r, o)]
             g == [m \in Messages |-> receives[m] * Times(o, m)]
  <2>2. IsFiniteSet(Slots) /\ IsFiniteSet(Messages) /\ MaxSends \in Nat
    BY PipelineAssumption DEF PipelineAssumption
  <2>3. \A s \in Slots : f[s] = 0
    BY DEF Init, Due
  <2>4. \A m \in Messages : g[m] = 0
    <3>1. \A m \in Messages : Times(o, m) \in Nat
      BY <2>1, PipelineAssumption, HandedType
    <3> QED
      BY <3>1 DEF Init
  <2>5. DueTo(r, o) = SumFunctionOnSet(f, Slots) /\ Handed(o) = SumFunctionOnSet(g, Messages)
    BY DEF DueTo, Handed
  <2> HIDE DEF f, g
  <2>6. DueTo(r, o) = 0 /\ Handed(o) = 0
    BY <2>2, <2>3, <2>4, <2>5, SumOfZeros
  <2>7. Total(r, o) = 0
    <3>1. LateOf(r, o) = {}
      BY DEF Init, LateOf
    <3> QED
      BY <3>1, FS_EmptySet DEF Init, Total
  <2> QED
    BY <2>2, <2>6, <2>7
<1>3. IInv /\ [Next]_vars => IInv'
  BY TypeStep, WithinStep, PipelineAssumption
<1>4. IInv => OvercountOnlyByRedelivery
  <2> SUFFICES ASSUME WellTyped, WithinHanded, NEW r \in Resources, NEW o \in Objects
               PROVE  store[r][o] <= MaxSends * Handed(o)
    BY DEF OvercountOnlyByRedelivery
  <2>1. TypeOK
    BY DEF WellTyped
  <2> DEFINE f == [s \in Slots |-> Due(s, r, o)]
  <2>2. IsFiniteSet(Slots) /\ MaxSends \in Nat
    BY PipelineAssumption DEF PipelineAssumption
  <2>3. \A s \in Slots : f[s] \in Nat
    BY <2>1, PipelineAssumption, DueType DEF DueIsFinite
  <2>4. DueTo(r, o) = SumFunctionOnSet(f, Slots)
    BY DEF DueTo
  <2> HIDE DEF f
  <2>5. DueTo(r, o) \in Nat
    BY <2>2, <2>3, <2>4, SumOfNats
  <2>6. MaxSends * DueTo(r, o) \in Nat /\ MaxSends * Handed(o) \in Int
    BY <2>1, <2>2, <2>5, PipelineAssumption, HandedType
  <2>7. store[r][o] \in Nat /\ Total(r, o) + MaxSends * DueTo(r, o) <= MaxSends * Handed(o)
    BY <2>1 DEF TypeOK, WithinHanded
  <2>8. Total(r, o) \in Nat /\ Total(r, o) >= store[r][o]
    BY <2>1, <2>7, LateIsFinite DEF WithinHanded, Total
  <2> QED
    BY <2>6, <2>7, <2>8
<1> QED
  BY <1>1, <1>2, <1>3, <1>4, PTL DEF Spec

-----------------------------------------------------------------------------
(* One backfill at a time *)

\* There is one slot: Lambda never runs two invocations at a time.  The example
\* of lambda/ does not configure that, and without it backfills get in each
\* other's way.
OneAtATime == \A s, t \in Slots : s = t

\* Objects that count in one resource are read with each other.  The code does
\* not see to that: it reads the objects of the tolerance and of the hours before
\* and after (app.go:341, 443-451), and lines of one resource and minute may be in
\* objects beyond them (WindowsWhole of LogSource is violated).
RelatedWhole ==
    \A o, q \in Objects : \A p \in Related[o] \cup {o} :
        ResourcesOf[p] \cap ResourcesOf[q] # {} => q \in Related[o]

\* S3 notifies of every object.
AllNotified == \A o \in Objects : \E m \in Messages : o \in Range(Records[m])

\* No sending reaches the backend after its Export has given it up.
NoneArriveLate == Wires = {}

LEMMA NoneLate ==
    ASSUME TypeOK, NoneArriveLate
    PROVE  late = {}
  BY DEF TypeOK, NoneArriveLate

\* What there is to count in a resource
Whole(r) == {o \in bucket : r \in ResourcesOf[o]}

\* What the backend has of a resource
Stored(r) == {o \in Objects : store[r][o] # 0}

\* The payloads of an invocation are of the bucket as it was one after the other,
\* and those not exported yet replace what is older than they are.
Growing(s) ==
    /\ \A k \in DOMAIN metrics[s] : metrics[s][k].objects \subseteq Whole(metrics[s][k].resource)
    /\ \A k \in DOMAIN metrics[s] : k >= at[s] =>
          Stored(metrics[s][k].resource) \subseteq metrics[s][k].objects
    /\ \A k, l \in DOMAIN metrics[s] :
          k < l /\ metrics[s][k].resource = metrics[s][l].resource =>
              metrics[s][k].objects \subseteq metrics[s][l].objects

Backfilled ==
    /\ \A m \in Messages : queue[m] # "unsent" => Range(Records[m]) \subseteq bucket
    /\ \A r \in Resources, o \in Objects : store[r][o] \in {0, 1}
    /\ \A r \in Resources : Stored(r) \subseteq Whole(r)
    /\ \A s \in Slots : Growing(s)

\* With backfill a payload takes the place of what the backend had of its resource,
\* but for the points it rejects.
LEMMA ReceivedReplaces ==
    ASSUME TypeOK, BackfillEnabled, NEW p \in PayloadType, NEW R, NEW sends \in Nat,
           NEW r \in Resources, NEW o \in Objects
    PROVE  Received(p, R, sends)[r][o] =
               IF r # p.resource \/ o \in R \/ sends = 0 THEN store[r][o]
               ELSE IF o \in p.objects THEN 1 ELSE 0
  BY DEF Received

\* A payload of a backfill has all there is of its resource.
LEMMA PayloadsAreWhole ==
    ASSUME PipelineAssumption, TypeOK, BackfillEnabled, RelatedWhole,
           NEW o \in bucket, NEW ms \in Payloads(o), NEW k \in DOMAIN ms
    PROVE  ms[k].objects = Whole(ms[k].resource)
<1>1. bucket \subseteq Objects /\ Sources(o) = {o} \cup (Related[o] \cap bucket)
  BY DEF TypeOK, Sources
<1>2. PICK r \in Resources :
         /\ ms[k] = [resource |-> r, objects |-> {p \in Sources(o) : r \in ResourcesOf[p]}]
         /\ \E p \in Sources(o) : r \in ResourcesOf[p]
  BY <1>1, PayloadsProperties
<1>3. PICK p \in Sources(o) : r \in ResourcesOf[p]
  BY <1>2
<1>4. ASSUME NEW q \in bucket, r \in ResourcesOf[q] PROVE q \in Sources(o)
  <2>1. p \in Related[o] \cup {o} /\ q \in Objects /\ o \in Objects
    BY <1>1
  <2>2. ResourcesOf[p] \cap ResourcesOf[q] # {}
    BY <1>3, <1>4
  <2> QED
    BY <1>1, <2>1, <2>2 DEF RelatedWhole
<1> QED
  BY <1>1, <1>2, <1>4 DEF Whole

\* An export takes nothing away that an earlier one has brought.
LEMMA BackfillGrows ==
    ASSUME PipelineAssumption, WellTyped, WellTyped', BackfillEnabled, NoneArriveLate, Backfilled,
           [Next]_vars
    PROVE  StoreGrows
<1>1. CASE store' = store /\ rejected' = rejected
  BY <1>1 DEF StoreGrows, WellTyped, TypeOK
<1>2. ASSUME NEW s \in Slots, Export(s) PROVE StoreGrows
  <2> DEFINE p == metrics[s][at[s]]
  <2>1. at[s] \in DOMAIN metrics[s] /\ p \in PayloadType /\ p.resource \in Resources /\ at[s] \in Nat
    <3>1. at[s] \in DOMAIN metrics[s] /\ p \in PayloadType
      BY <1>2, ExportIs DEF WellTyped
    <3>2. at[s] \in Nat
      BY DEF WellTyped, TypeOK
    <3> QED
      BY <3>1, <3>2 DEF PayloadType
  <2>2. PICK sends \in Nat, R \in SUBSET p.objects :
           store' = Received(p, R, sends) /\ rejected' = rejected \cup (R \X {p.resource})
    BY <1>2, ExportIs DEF WellTyped
  <2>3. Stored(p.resource) \subseteq p.objects
    <3>1. Growing(s)
      BY DEF Backfilled
    <3> QED
      BY <2>1, <3>1 DEF Growing
  <2> HIDE DEF p
  <2> SUFFICES ASSUME NEW r \in Resources, NEW o \in Objects PROVE store'[r][o] >= store[r][o]
    BY <2>2 DEF StoreGrows
  <2>4. store'[r][o] = IF r # p.resource \/ o \in R \/ sends = 0 THEN store[r][o]
                       ELSE IF o \in p.objects THEN 1 ELSE 0
    BY <2>1, <2>2, ReceivedReplaces DEF WellTyped
  <2>5. store[r][o] \in {0, 1}
    BY DEF Backfilled
  <2>6. store[r][o] = 1 /\ r = p.resource => o \in p.objects
    BY <2>3 DEF Stored
  <2> QED
    BY <2>4, <2>5, <2>6
<1>3. late = {}
  BY NoneLate DEF WellTyped
<1> QED
  BY <1>1, <1>2, <1>3 DEF Next, vars, slotVars, queueVars, backendVars, Put, Notify, Expire, Receive,
     Acknowledge, Refuse, Kill, Invocation, Leave, AllSettled, InvokeNothing, NewExporter,
     NewExporterFails, Generate, GenerateFails, GenerateEnds, ExportEnds, Shutdown

\* What an invocation has collected stays in line while the backend stays as it
\* is and the bucket only grows.
LEMMA GrowingFrame ==
    ASSUME NEW s \in Slots, Growing(s), metrics'[s] = metrics[s], at'[s] = at[s],
           bucket \subseteq bucket', store' = store
    PROVE  Growing(s)'
  BY DEF Growing, Whole, Stored

\* Each step keeps the backend and the payloads of the one invocation in line.
LEMMA BackfilledStep ==
    ASSUME PipelineAssumption, BackfillEnabled, OneAtATime, RelatedWhole, NoneArriveLate,
           Safe, WellTyped', Backfilled, [Next]_vars
    PROVE  Backfilled'
<1>0. late = {}
  BY NoneLate DEF Safe, WellTyped
<1>1. /\ WellTyped /\ TypeOK /\ TypeOK'
      /\ \A m \in Messages : Records[m] \in Seq(Objects) /\ DOMAIN Records[m] = 1..Len(Records[m])
      /\ \A s \in Slots : metrics[s] \in Seq(PayloadType) /\ Len(metrics[s]) \in Nat
      /\ \A s \in Slots : DOMAIN metrics[s] = 1..Len(metrics[s])
      /\ \A s \in Slots : at[s] \in Nat \ {0} /\ at[s] <= Len(metrics[s]) + 1
      /\ \A s \in Slots : next[s] \in Nat \ {0}
  <2>1. WellTyped /\ TypeOK /\ TypeOK'
    BY DEF Safe, WellTyped
  <2>2. /\ \A s \in Slots : at[s] \in Nat \ {0} /\ at[s] <= Len(metrics[s]) + 1
        /\ \A s \in Slots : next[s] \in Nat \ {0}
    BY <2>1 DEF TypeOK, SlotInRange
  <2> QED
    BY <2>1, <2>2, Lengths, LenProperties
<1>2. bucket \subseteq bucket'
  BY DEF Next, vars, slotVars, queueVars, Arrive, Put, Notify, Expire, Receive,
     Acknowledge, Refuse, Kill, Invocation, Leave, AllSettled, InvokeNothing, NewExporter,
     NewExporterFails, Generate, GenerateFails, GenerateEnds, Export, ExportEnds, Shutdown
<1>3. \A m \in Messages : queue'[m] # "unsent" => Range(Records[m]) \subseteq bucket'
  <2> SUFFICES ASSUME NEW m \in Messages, queue'[m] # "unsent"
               PROVE  Range(Records[m]) \subseteq bucket'
    OBVIOUS
  <2>1. CASE queue[m] # "unsent"
    BY <1>2, <2>1 DEF Backfilled
  <2>2. CASE queue[m] = "unsent"
    <3>1. ASSUME NEW s \in Slots PROVE msg[s] # m \/ pc[s] = "idle"
      BY <2>2 DEF Safe, InvocationOK
    <3>2. Notify(m)
      BY <1>1, <2>2, <3>1, SMTT(40) DEF TypeOK, Next, vars, slotVars, queueVars, Arrive, Put, Notify, Expire,
         Receive, Acknowledge, Refuse, Kill, Invocation, Leave, AllSettled, InvokeNothing,
         NewExporter, NewExporterFails, Generate, GenerateFails, GenerateEnds, Export,
         ExportEnds, Shutdown
    <3> QED
      BY <3>2 DEF Notify
  <2> QED
    BY <2>1, <2>2
<1> DEFINE Contents ==
      /\ \A r \in Resources, o \in Objects : store'[r][o] \in {0, 1}
      /\ \A r \in Resources : Stored(r)' \subseteq Whole(r)'
<1>4. ASSUME store' = store PROVE Contents
  BY <1>2, <1>4 DEF Backfilled, Stored, Whole
<1>5. ASSUME NEW s \in Slots, metrics'[s] = metrics[s], at'[s] = at[s], store' = store
      PROVE  Growing(s)'
  BY <1>2, <1>5, GrowingFrame DEF Backfilled
<1>6. CASE UNCHANGED <<slotVars, store>>
  BY <1>3, <1>4, <1>5, <1>6 DEF Backfilled, slotVars
<1>7. ASSUME NEW s \in Slots, NEW m \in Messages, Receive(s, m) PROVE Backfilled'
  BY <1>3, <1>4, <1>5, <1>7 DEF Backfilled, Receive, backendVars
<1>8. ASSUME NEW s \in Slots, Leave(s) PROVE Backfilled'
  <2>1. Free(s) /\ store' = store
    BY <1>8 DEF Leave, Acknowledge, Refuse, Kill, queueVars, backendVars
  <2>2. metrics'[s] = <<>>
    BY <1>1, <2>1 DEF TypeOK, Free
  <2>3. \A t \in Slots : Growing(t)'
    BY <2>2 DEF OneAtATime, Growing
  <2> QED
    BY <1>3, <1>4, <2>1, <2>3 DEF Backfilled
<1>9. ASSUME NEW s \in Slots,
             InvokeNothing(s) \/ NewExporter(s) \/ NewExporterFails(s) \/ GenerateFails(s)
                \/ GenerateEnds(s) \/ ExportEnds(s) \/ Shutdown(s)
      PROVE  Backfilled'
  <2>1. UNCHANGED <<metrics, at, store>>
    BY <1>9 DEF InvokeNothing, NewExporter, NewExporterFails, GenerateFails,
       GenerateEnds, ExportEnds, Shutdown, backendVars
  <2> QED
    BY <1>3, <1>4, <1>5, <2>1 DEF Backfilled
<1>10. ASSUME NEW s \in Slots, Generate(s) PROVE Backfilled'
  <2> DEFINE o == Records[msg[s]][next[s]]
  <2>1. pc[s] # "idle" /\ msg[s] \in Messages /\ queue[msg[s]] # "unsent"
    <3>1. pc[s] = "generate"
      BY <1>10 DEF Generate
    <3>2. msg[s] \in Messages
      BY <1>1, <3>1 DEF TypeOK, SlotInRange
    <3> QED
      BY <3>1, <3>2 DEF Safe, InvocationOK
  <2>2. o \in bucket
    <3>1. next[s] \in DOMAIN Records[msg[s]]
      BY <1>1, <1>10, <2>1, LenProperties DEF Generate, Notifications
    <3>2. o \in Range(Records[msg[s]])
      BY <3>1 DEF Range
    <3> QED
      BY <2>1, <3>2 DEF Backfilled
  <2>3. PICK ms \in Payloads(o) : metrics' = [metrics EXCEPT ![s] = @ \o ms]
    BY <1>10 DEF Generate, Notifications
  <2> HIDE DEF o
  <2>4. ms \in Seq(PayloadType) /\ DOMAIN ms = 1..Len(ms) /\ Len(ms) \in Nat
    <3>1. o \in Objects
      BY <1>1, <2>2 DEF TypeOK
    <3> QED
      BY <1>1, <3>1, PayloadsProperties, LenProperties
  <2>5. \A k \in DOMAIN ms : ms[k].objects = Whole(ms[k].resource) /\ ms[k].resource \in Resources
    <3>1. \A k \in DOMAIN ms : ms[k].resource \in Resources
      <4>1. \A k \in DOMAIN ms : ms[k] \in PayloadType
        BY <2>4, ElementOfSeq
      <4> QED
        BY <4>1 DEF PayloadType
    <3> QED
      BY <1>1, <2>2, <3>1, PayloadsAreWhole
  <2> DEFINE new == metrics[s] \o ms
  <2>6. /\ DOMAIN new = 1..(Len(metrics[s]) + Len(ms))
        /\ \A k \in DOMAIN new : \/ k \in DOMAIN metrics[s] /\ new[k] = metrics[s][k]
                                 \/ /\ k > Len(metrics[s])
                                    /\ new[k].objects = Whole(new[k].resource)
                                    /\ new[k].resource \in Resources
    <3>1. /\ new \in Seq(PayloadType) /\ Len(new) = Len(metrics[s]) + Len(ms)
          /\ \A k \in 1..(Len(metrics[s]) + Len(ms)) :
                new[k] = IF k <= Len(metrics[s]) THEN metrics[s][k] ELSE ms[k - Len(metrics[s])]
      BY <1>1, <2>4, ConcatProperties
    <3>2. DOMAIN new = 1..(Len(metrics[s]) + Len(ms))
      BY <3>1, LenProperties
    <3>3. Len(metrics[s]) \in Nat /\ DOMAIN metrics[s] = 1..Len(metrics[s])
      BY <1>1
    <3> HIDE DEF new
    <3>4. ASSUME NEW k \in DOMAIN new, k > Len(metrics[s])
          PROVE  k - Len(metrics[s]) \in DOMAIN ms /\ new[k] = ms[k - Len(metrics[s])]
      BY <2>4, <3>1, <3>2, <3>3, <3>4
    <3> QED
      BY <2>5, <3>1, <3>2, <3>3, <3>4
  <2>7. metrics'[s] = new /\ UNCHANGED <<bucket, at, store>>
    BY <1>1, <1>10, <2>3 DEF TypeOK, Generate, queueVars, backendVars
  <2> HIDE DEF new
  <2>8. Growing(s)
    BY DEF Backfilled
  <2>9. \A k \in DOMAIN new : new[k].objects \subseteq Whole(new[k].resource)
    BY <2>6, <2>8 DEF Growing
  <2>10. \A k \in DOMAIN new : k >= at[s] => Stored(new[k].resource) \subseteq new[k].objects
    BY <2>6, <2>8 DEF Growing, Backfilled
  <2>11. ASSUME NEW k \in DOMAIN new, NEW l \in DOMAIN new, k < l,
                new[k].resource = new[l].resource
         PROVE  new[k].objects \subseteq new[l].objects
    <3>1. CASE l \in DOMAIN metrics[s] /\ new[l] = metrics[s][l]
      <4>1. k \in DOMAIN metrics[s] /\ ~ (k > Len(metrics[s]))
        BY <1>1, <2>6, <2>11, <3>1
      <4>2. new[k] = metrics[s][k]
        BY <2>6, <4>1
      <4> QED
        BY <2>8, <2>11, <3>1, <4>1, <4>2 DEF Growing
    <3>2. CASE new[l].objects = Whole(new[l].resource)
      BY <2>9, <2>11, <3>2
    <3> QED
      BY <2>6, <3>1, <3>2
  <2>12. Growing(s)'
    <3>1. /\ \A r : Whole(r)' = Whole(r)
          /\ \A r : Stored(r)' = Stored(r)
      BY <2>7 DEF Whole, Stored
    <3> QED
      BY <2>7, <2>9, <2>10, <2>11, <3>1 DEF Growing
  <2> QED
    BY <1>3, <1>4, <2>7, <2>12 DEF Backfilled, OneAtATime
<1>11. ASSUME NEW s \in Slots, Export(s) PROVE Backfilled'
  <2> DEFINE p == metrics[s][at[s]]
  <2>1. at[s] \in DOMAIN metrics[s] /\ p \in PayloadType /\ p.resource \in Resources /\ at[s] \in Nat
    <3>1. at[s] \in DOMAIN metrics[s] /\ p \in PayloadType
      BY <1>1, <1>11, ExportIs
    <3> QED
      BY <1>1, <3>1 DEF PayloadType
  <2>2. PICK sends \in Nat, R \in SUBSET p.objects : store' = Received(p, R, sends)
    BY <1>1, <1>11, ExportIs
  <2>3. UNCHANGED <<bucket, metrics>> /\ at'[s] = at[s] + 1
    BY <1>1, <1>11 DEF TypeOK, Export, queueVars
  <2>4. Growing(s)
    BY DEF Backfilled
  <2>5. p.objects \subseteq Whole(p.resource)
    BY <2>1, <2>4 DEF Growing
  <2>6. \A k \in DOMAIN metrics[s] : k > at[s] /\ metrics[s][k].resource = p.resource =>
            p.objects \subseteq metrics[s][k].objects
    BY <1>1, <2>1, <2>4 DEF Growing
  <2> HIDE DEF p
  <2>7. \A r \in Resources, o \in Objects :
           store'[r][o] = IF r # p.resource \/ o \in R \/ sends = 0 THEN store[r][o]
                          ELSE IF o \in p.objects THEN 1 ELSE 0
    BY <1>1, <2>1, <2>2, ReceivedReplaces
  <2>8. \A r \in Resources : Stored(r)' \subseteq Stored(r) \cup (IF r = p.resource THEN p.objects ELSE {})
    BY <2>7 DEF Stored
  <2>9. Contents
    <3>1. \A r \in Resources, o \in Objects : store'[r][o] \in {0, 1}
      BY <2>7 DEF Backfilled
    <3>2. \A r \in Resources : Stored(r)' \subseteq Whole(r)'
      BY <2>3, <2>5, <2>8 DEF Backfilled, Whole
    <3> QED
      BY <3>1, <3>2
  <2>10. Growing(s)'
    <3>1. \A r : Whole(r)' = Whole(r)
      BY <2>3 DEF Whole
    <3>2. ASSUME NEW k \in DOMAIN metrics[s], k >= at[s] + 1, NEW r \in Resources,
                 r = metrics[s][k].resource
          PROVE  Stored(r)' \subseteq metrics[s][k].objects
      <4>1. k > at[s] /\ k >= at[s] /\ k \in Nat
        BY <1>1, <2>1, <3>2
      <4>2. Stored(r) \subseteq metrics[s][k].objects
        BY <2>4, <3>2, <4>1 DEF Growing
      <4>3. r = p.resource => p.objects \subseteq metrics[s][k].objects
        BY <2>6, <3>2, <4>1
      <4>4. Stored(r)' \subseteq Stored(r) \cup (IF r = p.resource THEN p.objects ELSE {})
        BY <2>8
      <4> QED
        BY <4>2, <4>3, <4>4
    <3>3. \A k \in DOMAIN metrics[s] : metrics[s][k].resource \in Resources
      <4>1. \A k \in DOMAIN metrics[s] : metrics[s][k] \in PayloadType
        BY <1>1, ElementOfSeq
      <4> QED
        BY <4>1 DEF PayloadType
    <3>4. \A k \in DOMAIN metrics'[s] : k >= at'[s] =>
             Stored(metrics[s][k].resource)' \subseteq metrics'[s][k].objects
      BY <2>3, <3>2, <3>3 DEF Stored
    <3> QED
      BY <2>3, <2>4, <3>1, <3>4 DEF Growing
  <2> QED
    BY <1>3, <2>9, <2>10 DEF Backfilled, OneAtATime
<1> QED
  BY <1>0, <1>6, <1>7, <1>8, <1>9, <1>10, <1>11
     DEF Next, vars, slotVars, backendVars, AllSettled, Put, Notify, Expire, Invocation

\* The inductive invariant of a backfill that has the queue to itself
LEMMA BackfillInvariant ==
    ASSUME BackfillEnabled, OneAtATime, RelatedWhole, NoneArriveLate
    PROVE  Spec => [](Safe /\ Backfilled)
<1>1. Init => Safe /\ Backfilled
  <2>1. Init => Backfilled
    BY DEF Init, Backfilled, Stored, Growing
  <2> QED
    BY <2>1, InitSafe, PipelineAssumption
<1>2. Safe /\ Backfilled /\ [Next]_vars => (Safe /\ Backfilled)'
  <2> SUFFICES ASSUME Safe, Backfilled, [Next]_vars PROVE Safe' /\ Backfilled'
    OBVIOUS
  <2>1. WellTyped /\ WellTyped'
    BY TypeStep, PipelineAssumption DEF Safe
  <2>2. StoreGrows
    BY <2>1, BackfillGrows, PipelineAssumption
  <2> QED
    BY <2>1, <2>2, SafeStep, BackfilledStep, PipelineAssumption
<1> QED
  BY <1>1, <1>2, PTL DEF Spec

\* If backfills run one at a time, no sending arrives late and objects that count
\* in one resource are read with each other, then a message is deleted only when
\* the backend has all it names, though what the backend has is replaced again
\* and again.  None of the three is the code's doing: the first is a setting of
\* the function, the second the network's, and the third a matter of the logs,
\* that the tolerance and the hour of the prefix may not meet.
THEOREM NothingReplacedIsLost ==
    ASSUME BackfillEnabled, OneAtATime, RelatedWhole, NoneArriveLate
    PROVE  Spec => []AckedIsCounted
<1>1. Safe /\ Backfilled => AckedIsCounted
  BY DEF Safe
<1> QED
  BY <1>1, BackfillInvariant, PTL

\* If backfills run one at a time, no sending arrives late and objects that count
\* in one resource are read with each other, then no backfill takes back what an
\* earlier one wrote: its payloads were made from the bucket later and hold all
\* of it.
THEOREM BackfillsOnlyAdd ==
    ASSUME BackfillEnabled, OneAtATime, RelatedWhole, NoneArriveLate
    PROVE  Spec => BackfillNeverLoses
<1>1. Safe /\ Backfilled /\ (Safe /\ Backfilled)' /\ [Next]_vars =>
          [\A r \in Resources, o \in Objects : store'[r][o] >= store[r][o]]_vars
  BY BackfillGrows, PipelineAssumption DEF Safe, StoreGrows
<1> QED
  BY <1>1, BackfillInvariant, PTL DEF Spec, BackfillNeverLoses

\* If backfills run one at a time, no sending arrives late, every object has a
\* message and objects that count in one resource are read with each other, then
\* the backend has each object once, but for points it rejected, when all the
\* messages have been deleted.  The code does not ensure the last condition, and
\* README.md:242 promises complete aggregation without it: where it fails, what
\* is read is not whole (WindowsWhole of LogSource).
THEOREM BackfillsComplete ==
    ASSUME BackfillEnabled, OneAtATime, RelatedWhole, AllNotified, NoneArriveLate
    PROVE  Spec => []CompleteAggregation
<1>1. Safe /\ Backfilled => CompleteAggregation
  <2> SUFFICES ASSUME Safe, Backfilled, \A m \in Messages : queue[m] = "deleted",
                      NEW r \in Resources, NEW o \in Objects
               PROVE  store[r][o] = Complete(r)[o] \/ <<o, r>> \in rejected
    BY DEF CompleteAggregation
  <2>1. store[r][o] \in {0, 1}
    BY DEF Backfilled
  <2>2. Complete(r)[o] = IF o \in bucket /\ r \in ResourcesOf[o] THEN 1 ELSE 0
    BY DEF Complete
  <2>3. CASE o \in bucket /\ r \in ResourcesOf[o]
    <3>1. Answered(o, r)
      BY <2>3 DEF AllNotified, Safe, AckedIsCounted
    <3> QED
      BY <2>1, <2>2, <2>3, <3>1 DEF Answered
  <2>4. CASE ~ (o \in bucket /\ r \in ResourcesOf[o])
    <3>1. o \notin Stored(r)
      BY <2>4 DEF Backfilled, Whole
    <3> QED
      BY <2>2, <2>4, <3>1 DEF Stored
  <2> QED
    BY <2>3, <2>4
<1> QED
  BY <1>1, BackfillInvariant, PTL
=============================================================================
