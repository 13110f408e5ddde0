------------------------------ MODULE Pipeline ------------------------------
(***************************************************************************)
(* Invoke and Process (app.go:179-241), and generateMetrics (283-303) as a *)
(* step of them: what becomes of the notifications of a message, from the  *)
(* queue to the metrics backend, when several invocations run at a time    *)
(* and each may fail, be killed or be handed the same message again.       *)
(*                                                                         *)
(* An object is the log file a notification names.  What GetVariablesAnd-  *)
(* Logs and Aggregate make of it (modules LogSource and Aggregation) is    *)
(* here the set of resources its lines count in; an export is one resource *)
(* with the objects its points were computed from.                         *)
(*                                                                         *)
(* S3, the SQS queue with its dead-letter queue, the Lambda service and    *)
(* the backend are external (lambda/mackerel/example.tf, README.md:235).   *)
(***************************************************************************)
EXTENDS Integers, Sequences, FiniteSets, Functions

CONSTANTS
    Objects, Resources, Messages,
    Slots,           \* the invocations that may run at a time
    None,            \* no message
    Records,         \* the notifications of each message: their objects
    ResourcesOf,     \* the resources the lines of an object count in
    Unreadable,      \* objects that cannot be parsed or aggregated
    Related,         \* the objects a backfill reads with an object
    BackfillEnabled,
    MaxReceives,     \* maxReceiveCount of the queue
    MaxSends,        \* times one Export may reach the backend
    Rejectable,      \* resources the backend may reject points of
    Wires            \* where a sending may be when its Export has given up

ASSUME PipelineAssumption ==
    /\ Records \in [Messages -> Seq(Objects)]
    /\ ResourcesOf \in [Objects -> SUBSET Resources]
    /\ IsFiniteSet(Resources) /\ IsFiniteSet(Messages) /\ IsFiniteSet(Slots)
    /\ Unreadable \subseteq Objects
    /\ Related \in [Objects -> SUBSET Objects]
    /\ BackfillEnabled \in BOOLEAN
    /\ MaxReceives \in Nat \ {0}
    /\ MaxSends \in Nat \ {0}
    /\ Rejectable \subseteq Resources
    /\ IsFiniteSet(Wires)
    /\ None \notin Messages

VARIABLES
    bucket,    \* the objects delivered so far
    queue,     \* "unsent", "visible", "inflight", "deleted" or "dead"
    receives,  \* how often each message was received
    msg,       \* the message each slot handles
    pc,        \* where its invocation is
    next,      \* the notification Process is at
    metrics,   \* resourceMetrics
    at,        \* the payload Process exports next
    failed,    \* the invocation ends with an error
    exporter,  \* its OTLP exporter: "none", "open" or "shut"
    store,     \* the backend: how often it counts an object in a resource
    rejected,  \* the <<object, resource>> pairs it had and did not count
    late       \* <<wire, payload>>: sent, and not there yet

vars == <<bucket, queue, receives, msg, pc, next, metrics, at, failed, exporter,
          store, rejected, late>>

queueVars == <<bucket, queue, receives>>
slotVars  == <<msg, pc, next, metrics, at, failed, exporter>>
backendVars == <<store, rejected, late>>

Init ==
    /\ bucket = {}
    /\ queue = [m \in Messages |-> "unsent"]
    /\ receives = [m \in Messages |-> 0]
    /\ msg = [s \in Slots |-> None]
    /\ pc = [s \in Slots |-> "idle"]
    /\ next = [s \in Slots |-> 1]
    /\ metrics = [s \in Slots |-> <<>>]
    /\ at = [s \in Slots |-> 1]
    /\ failed = [s \in Slots |-> FALSE]
    /\ exporter = [s \in Slots |-> "none"]
    /\ store = [r \in Resources |-> [o \in Objects |-> 0]]
    /\ rejected = {}
    /\ late = {}

-----------------------------------------------------------------------------
(* The queue and the Lambda service (external) *)

\* CloudFront delivers a log file.
Put(o) ==
    /\ o \notin bucket
    /\ bucket' = bucket \cup {o}
    /\ UNCHANGED <<queue, receives, slotVars, backendVars>>

\* S3 notifies of objects that are there, sometimes more than once.
Notify(m) ==
    /\ queue[m] = "unsent" /\ Range(Records[m]) \subseteq bucket
    /\ queue' = [queue EXCEPT ![m] = "visible"]
    /\ UNCHANGED <<bucket, receives, slotVars, backendVars>>

Receive(s, m) ==
    /\ pc[s] = "idle" /\ queue[m] = "visible"
    /\ queue' = [queue EXCEPT ![m] = "inflight"]
    /\ receives' = [receives EXCEPT ![m] = @ + 1]
    /\ msg' = [msg EXCEPT ![s] = m]
    /\ pc' = [pc EXCEPT ![s] = "invoke"]
    /\ UNCHANGED <<bucket, next, metrics, at, failed, exporter, backendVars>>

\* As without a dead-letter queue
ExpireUntilMax(m) ==
    /\ queue[m] = "inflight" /\ receives[m] < MaxReceives
    /\ queue' = [queue EXCEPT ![m] = "visible"]
    /\ UNCHANGED <<bucket, receives, slotVars, backendVars>>

\* The visibility timeout ends.  It equals the timeout of the function
\* (example.tf, function.jsonnet: 600 seconds both) and starts before it, so
\* the invocation may still be running.
Expire(m) ==
    /\ queue[m] = "inflight"
    /\ queue' = [queue EXCEPT ![m] = IF receives[m] < MaxReceives THEN "visible" ELSE "dead"]
    /\ UNCHANGED <<bucket, receives, slotVars, backendVars>>

FreeKeepsMessage(s) ==
    /\ pc' = [pc EXCEPT ![s] = "idle"]
    /\ next' = [next EXCEPT ![s] = 1]
    /\ metrics' = [metrics EXCEPT ![s] = <<>>]
    /\ at' = [at EXCEPT ![s] = 1]
    /\ failed' = [failed EXCEPT ![s] = FALSE]
    /\ exporter' = [exporter EXCEPT ![s] = "none"]
    /\ UNCHANGED msg

\* Nothing is left of an invocation.
Free(s) ==
    /\ msg' = [msg EXCEPT ![s] = None]
    /\ pc' = [pc EXCEPT ![s] = "idle"]
    /\ next' = [next EXCEPT ![s] = 1]
    /\ metrics' = [metrics EXCEPT ![s] = <<>>]
    /\ at' = [at EXCEPT ![s] = 1]
    /\ failed' = [failed EXCEPT ![s] = FALSE]
    /\ exporter' = [exporter EXCEPT ![s] = "none"]

\* Invoke returned nil: the message is deleted, visible again or not.
Acknowledge(s) ==
    /\ pc[s] = "return" /\ ~ failed[s]
    /\ queue' = [queue EXCEPT ![msg[s]] = IF @ = "dead" THEN @ ELSE "deleted"]
    /\ Free(s)
    /\ UNCHANGED <<bucket, receives, backendVars>>

\* Invoke returned an error: the message stays until its visibility ends.
Refuse(s) ==
    /\ pc[s] = "return" /\ failed[s]
    /\ Free(s)
    /\ UNCHANGED <<queueVars, backendVars>>

\* The invocation is killed, or its answer is lost.
Kill(s) ==
    /\ pc[s] # "idle"
    /\ Free(s)
    /\ UNCHANGED <<queueVars, backendVars>>

-----------------------------------------------------------------------------
(* Invoke and Process *)

Notifications(s) == Records[msg[s]]

\* Invoke without a notification returns nil before Process (app.go:196-199).
InvokeNothing(s) ==
    /\ pc[s] = "invoke" /\ Notifications(s) = <<>>
    /\ pc' = [pc EXCEPT ![s] = "return"]
    /\ UNCHANGED <<queueVars, msg, next, metrics, at, failed, exporter, backendVars>>

NewExporter(s) ==
    /\ pc[s] = "invoke" /\ Notifications(s) # <<>>
    /\ exporter' = [exporter EXCEPT ![s] = "open"]
    /\ pc' = [pc EXCEPT ![s] = "generate"]
    /\ UNCHANGED <<queueVars, msg, next, metrics, at, failed, backendVars>>

NewExporterFails(s) ==
    /\ pc[s] = "invoke" /\ Notifications(s) # <<>>
    /\ failed' = [failed EXCEPT ![s] = TRUE]
    /\ pc' = [pc EXCEPT ![s] = "return"]
    /\ UNCHANGED <<queueVars, msg, next, metrics, at, exporter, backendVars>>

SourcesOwnOnly(o) == {o}

\* The objects a notification is aggregated from
Sources(o) == {o} \cup (IF BackfillEnabled THEN Related[o] \cap bucket ELSE {})

Payload(o, r) == [resource |-> r, objects |-> {p \in Sources(o) : r \in ResourcesOf[p]}]

\* The response of Aggregate lists each resource once, in an order that
\* depends on the lines.
Payloads(o) ==
    LET rs == UNION {ResourcesOf[p] : p \in Sources(o)}
        orders == {f \in [1..Cardinality(rs) -> rs] : Range(f) = rs}
    IN  {[i \in DOMAIN f |-> Payload(o, f[i])] : f \in orders}

GeneratePrepends(s) ==
    /\ pc[s] = "generate" /\ next[s] <= Len(Notifications(s))
    /\ Sources(Notifications(s)[next[s]]) \cap Unreadable = {}
    /\ \E ms \in Payloads(Notifications(s)[next[s]]) :
          metrics' = [metrics EXCEPT ![s] = ms \o @]
    /\ next' = [next EXCEPT ![s] = @ + 1]
    /\ UNCHANGED <<queueVars, msg, pc, at, failed, exporter, backendVars>>

Generate(s) ==
    /\ pc[s] = "generate" /\ next[s] <= Len(Notifications(s))
    /\ Sources(Notifications(s)[next[s]]) \cap Unreadable = {}
    /\ \E ms \in Payloads(Notifications(s)[next[s]]) :
          metrics' = [metrics EXCEPT ![s] = @ \o ms]
    /\ next' = [next EXCEPT ![s] = @ + 1]
    /\ UNCHANGED <<queueVars, msg, pc, at, failed, exporter, backendVars>>

\* As if the loop went on with the next notification
GenerateFailsSkipping(s) ==
    /\ pc[s] = "generate" /\ next[s] <= Len(Notifications(s))
    /\ next' = [next EXCEPT ![s] = @ + 1]
    /\ UNCHANGED <<queueVars, msg, pc, metrics, at, failed, exporter, backendVars>>

\* One notification that fails ends Process before anything is exported; the
\* deferred Shutdown still runs.
GenerateFails(s) ==
    /\ pc[s] = "generate" /\ next[s] <= Len(Notifications(s))
    /\ failed' = [failed EXCEPT ![s] = TRUE]
    /\ pc' = [pc EXCEPT ![s] = "shutdown"]
    /\ UNCHANGED <<queueVars, msg, next, metrics, at, exporter, backendVars>>

GenerateEnds(s) ==
    /\ pc[s] = "generate" /\ next[s] > Len(Notifications(s))
    /\ pc' = [pc EXCEPT ![s] = IF metrics[s] = <<>> THEN "shutdown" ELSE "export"]
    /\ UNCHANGED <<queueVars, msg, next, metrics, at, failed, exporter, backendVars>>

\* What the backend makes of a payload: a delta is added; with backfill, for
\* which README.md:241 asks for a backend that updates points, it replaces.
\* Of the objects in R it rejects the points, and has what it had of them.
Received(p, R, sends) ==
    LET one(o) == IF o \in p.objects THEN 1 ELSE 0
    IN  [r \in Resources |-> [o \in Objects |->
            IF r # p.resource \/ o \in R \/ sends = 0 THEN store[r][o]
            ELSE IF BackfillEnabled THEN one(o)
            ELSE store[r][o] + sends * one(o)]]

FreeWires == {w \in Wires : \A l \in late : l[1] # w}

\* How Export(payload) may go (otlpmetricgrpc and the backend, external).  The
\* exporter sends, and again after some errors.  An error does not tell whether
\* the backend has the payload, and a sending that timed out may still be on
\* its way.  Nor does nil tell: a partial success is nil, and only logged.
ExportGives(payload, error) ==
    \E sends \in 0..MaxSends, R \in SUBSET payload.objects,
       l \in {late} \cup {late \cup {<<w, payload>>} : w \in FreeWires} :
          /\ sends = 0 \/ l # late => error
          /\ l # late => sends < MaxSends
          /\ R # {} => ~ error /\ payload.resource \in Rejectable
          /\ store' = Received(payload, R, sends)
          /\ rejected' = rejected \cup (R \X {payload.resource})
          /\ late' = l

\* As if only the last error counted
ExportKeepsLastError(s) ==
    /\ pc[s] = "export" /\ at[s] <= Len(metrics[s])
    /\ \E error \in BOOLEAN : ExportGives(metrics[s][at[s]], error) /\ failed' = [failed EXCEPT ![s] = error]
    /\ at' = [at EXCEPT ![s] = @ + 1]
    /\ UNCHANGED <<queueVars, msg, pc, next, metrics, exporter>>

\* As if a failed export were tried again
ExportRepeats(s) ==
    /\ pc[s] = "export" /\ at[s] <= Len(metrics[s])
    /\ \E error \in BOOLEAN :
          /\ ExportGives(metrics[s][at[s]], error)
          /\ at' = [at EXCEPT ![s] = IF error THEN @ ELSE @ + 1]
    /\ UNCHANGED <<queueVars, msg, pc, next, metrics, failed, exporter>>

\* One Export: its error is kept with those before it.
Export(s) ==
    /\ pc[s] = "export" /\ at[s] <= Len(metrics[s])
    /\ \E error \in BOOLEAN :
          /\ ExportGives(metrics[s][at[s]], error)
          /\ failed' = [failed EXCEPT ![s] = @ \/ error]
    /\ at' = [at EXCEPT ![s] = @ + 1]
    /\ UNCHANGED <<queueVars, msg, pc, next, metrics, exporter>>

ExportEnds(s) ==
    /\ pc[s] = "export" /\ at[s] > Len(metrics[s])
    /\ pc' = [pc EXCEPT ![s] = "shutdown"]
    /\ UNCHANGED <<queueVars, msg, next, metrics, at, failed, exporter, backendVars>>

\* A Shutdown that fails is only logged.
Shutdown(s) ==
    /\ pc[s] = "shutdown"
    /\ exporter' = [exporter EXCEPT ![s] = "shut"]
    /\ pc' = [pc EXCEPT ![s] = "return"]
    /\ UNCHANGED <<queueVars, msg, next, metrics, at, failed, backendVars>>

\* What was on its way reaches the backend, whoever sent it may be gone.  (It
\* may also never do.)
Arrive(l) ==
    /\ l \in late
    /\ late' = late \ {l}
    /\ store' = Received(l[2], {}, 1)
    /\ UNCHANGED <<queueVars, slotVars, rejected>>

-----------------------------------------------------------------------------
Invocation(s) ==
    \/ InvokeNothing(s) \/ NewExporter(s) \/ NewExporterFails(s)
    \/ Generate(s) \/ GenerateFails(s) \/ GenerateEnds(s)
    \/ Export(s) \/ ExportEnds(s) \/ Shutdown(s)

Leave(s) == Acknowledge(s) \/ Refuse(s) \/ Kill(s)

\* Nothing is left to deliver or to handle.
AllSettled ==
    /\ bucket = Objects
    /\ \A m \in Messages : queue[m] \in {"deleted", "dead"}
    /\ \A s \in Slots : pc[s] = "idle"
    /\ UNCHANGED vars

Next ==
    \/ AllSettled
    \/ \E o \in Objects : Put(o)
    \/ \E m \in Messages : Notify(m) \/ Expire(m)
    \/ \E l \in late : Arrive(l)
    \/ \E s \in Slots : Invocation(s) \/ Leave(s) \/ \E m \in Messages : Receive(s, m)

\* Lambda polls the queue, runs what it started and ends it (at the timeout,
\* if it does not end by itself); visibility ends.  Deliveries may stop.
Fairness ==
    /\ \A m \in Messages : /\ WF_vars(Expire(m))
                           /\ WF_vars(\E s \in Slots : Receive(s, m))
    /\ \A s \in Slots : WF_vars(Leave(s) \/ Invocation(s))

Spec == Init /\ [][Next]_vars /\ Fairness

-----------------------------------------------------------------------------
SlotInRange(s) ==
    /\ msg[s] = None <=> pc[s] = "idle"
    /\ pc[s] # "idle" => next[s] <= Len(Records[msg[s]]) + 1
    /\ at[s] <= Len(metrics[s]) + 1

TypeOK ==
    /\ bucket \subseteq Objects
    /\ queue \in [Messages -> {"unsent", "visible", "inflight", "deleted", "dead"}]
    /\ receives \in [Messages -> 0..MaxReceives]
    /\ msg \in [Slots -> Messages \cup {None}]
    /\ pc \in [Slots -> {"idle", "invoke", "generate", "export", "shutdown", "return"}]
    /\ next \in [Slots -> Nat \ {0}]
    /\ metrics \in [Slots -> Seq([resource : Resources, objects : SUBSET Objects])]
    /\ at \in [Slots -> Nat \ {0}]
    /\ failed \in [Slots -> BOOLEAN]
    /\ exporter \in [Slots -> {"none", "open", "shut"}]
    /\ store \in [Resources -> [Objects -> Nat]]
    /\ rejected \subseteq Objects \X Rejectable
    /\ late \subseteq Wires \X [resource : Resources, objects : SUBSET Objects]
    /\ \A s \in Slots : SlotInRange(s)

\* The backend has counted the object in the resource, or has had it and
\* rejected its points in a partial success.
Answered(o, r) == store[r][o] >= 1 \/ <<o, r>> \in rejected

\* A message is deleted only when every line of every object it names has
\* reached the backend: no error of an export is forgotten, no payload of an
\* earlier notification is lost, and no other invocation takes it away.  What
\* is not counted then, the backend itself has rejected.
AckedIsCounted ==
    \A m \in Messages : queue[m] = "deleted" =>
        \A o \in Range(Records[m]) : \A r \in ResourcesOf[o] : Answered(o, r)

Times(o, m) == Cardinality({i \in DOMAIN Records[m] : Records[m][i] = o})

\* How often object o was handed to an invocation
Handed(o) == SumFunctionOnSet([m \in Messages |-> receives[m] * Times(o, m)], Messages)

\* How often an object's lines are counted is bounded by how often its
\* messages were received: one invocation exports a payload once, and what
\* is counted twice goes back to a redelivery or to the exporter's retry, be
\* it that a sending arrives late.
OvercountOnlyByRedelivery ==
    \A r \in Resources, o \in Objects : store[r][o] <= MaxSends * Handed(o)

\* One object that cannot be read keeps every object of its message out of
\* the backend: the exports start when all the notifications have been
\* aggregated (app.go:218-225), and the message is never deleted.
PoisonedIsKeptOut ==
    LET Poisoned(m) == Range(Records[m]) \cap Unreadable # {}
    IN  /\ \A m \in Messages : Poisoned(m) => queue[m] # "deleted"
        /\ \A r \in Resources, o \in Objects : store[r][o] > 0 =>
              \E m \in Messages : ~ Poisoned(m) /\ o \in Range(Records[m]) /\ receives[m] > 0

\* Every message S3 sends is deleted or ends in the dead-letter queue, however
\* its invocations fail.
EveryMessageSettles ==
    \A m \in Messages : queue[m] = "visible" ~> queue[m] \in {"deleted", "dead"}

\* Pipeline implements AtLeastOnce: a message in the queue is open whether an
\* invocation has it or not, and a pair is counted from the first time the
\* backend has counted or rejected it on.
Status ==
    [m \in Messages |-> IF queue[m] \in {"visible", "inflight"} THEN "open" ELSE queue[m]]

Counted == {p \in Objects \X Resources : Answered(p[1], p[2])}

Promise == INSTANCE AtLeastOnce WITH status <- Status, counted <- Counted

\* What Lambda's retries, fail-fast generation and the joined export errors
\* amount to without backfill: at-least-once delivery, or the dead-letter queue.
ImplementsAtLeastOnce == Promise!Spec

\* What the backend should have of a resource
Complete(r) == [o \in Objects |-> IF o \in bucket /\ r \in ResourcesOf[o] THEN 1 ELSE 0]

\* Nothing a backfill wrote is taken back by a later one.
BackfillNeverLoses ==
    [][\A r \in Resources, o \in Objects : store'[r][o] >= store[r][o]]_vars

\* README.md:242: backfill reads the past logs "to include complete
\* aggregation".  When all the messages of the objects delivered have been
\* deleted, the backend has each object once, but for points it rejected.
CompleteAggregation ==
    (/\ \A s \in Slots : pc[s] = "idle"
     /\ \A m \in Messages : queue[m] = "deleted")
        => \A r \in Resources, o \in Objects :
              store[r][o] = Complete(r)[o] \/ <<o, r>> \in rejected
=============================================================================
