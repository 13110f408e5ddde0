------------------------------- MODULE Unwrap -------------------------------
(***************************************************************************)
(* UnwrapEvent and the first half of Invoke (app.go:58-199): the event a   *)
(* Lambda function is invoked with is taken out of its SQS and its SNS     *)
(* envelope, in this order, and the S3 notifications in what is left are   *)
(* collected.                                                              *)
(*                                                                         *)
(* A document is what the code tells apart of a piece of JSON: whether it  *)
(* parses, its Records, its own event source, and the body or message it   *)
(* carries.  The iterators are pulled, so the order of the yields is that  *)
(* of one loop inside the other; here each stage hands its yields over.    *)
(***************************************************************************)
EXTENDS Naturals, Sequences, FiniteSets, FiniteSetsExt, SequencesExt

\* {"Records": [...]}: each record has a source and a body (an SQS body, an SNS
\* message, the s3 part of an S3 record).
Document(rs) == [form |-> "records", source |-> "", records |-> rs, body |-> <<>>]

\* One record without the "Records" around it
Message(source, body) ==
    [form |-> "message", source |-> source, records |-> <<>>, body |-> <<body>>]

\* An SNS entity: what SNS puts in the body of an SQS message
Entity(body) == [form |-> "entity", source |-> "", records |-> <<>>, body |-> <<body>>]

\* Some other JSON object, and a text that is not a JSON object
Object == [form |-> "object", source |-> "", records |-> <<>>, body |-> <<>>]
Text == [form |-> "text", source |-> "", records |-> <<>>, body |-> <<>>]

\* The documents in it: a record of S3 carries none.
Inner(d) ==
    {d.body[k] : k \in {k \in DOMAIN d.body : d.form \in {"message", "entity"}}}
        \cup {d.records[k].body : k \in {k \in DOMAIN d.records : d.records[k].source \in {"aws:sqs", "aws:sns"}}}

IsDocument(d) ==
    /\ d.form \in {"records", "message", "entity", "object", "text"}
    /\ d.form # "records" => d.records = <<>>
    /\ d.records \in Seq(Range(d.records))
    /\ \A k \in DOMAIN d.records : d.records[k].source \in {"aws:s3", "aws:sqs", "aws:sns"}
    /\ d.form \in {"message", "entity"} => d.body = <<d.body[1]>>

\* A document down to what the code looks at
IsEvent(d) ==
    /\ IsDocument(d)
    /\ \A x \in Inner(d) : IsDocument(x) /\ \A y \in Inner(x) : IsDocument(y)

VARIABLES
    event,          \* the argument of Invoke
    unsqs,          \* what unwrapSQSEvent has yielded, not yet consumed
    unsns,          \* what unwrapSNSEvent has yielded, not yet consumed
    notifications,  \* s3Notifications
    pc              \* "unwrap", "collect", "process" or "nothing"

-----------------------------------------------------------------------------
Bodies(rs) == [i \in DOMAIN rs |-> rs[i].body]

ForeignIn(rs, source) == {i \in DOMAIN rs : rs[i].source # source}

\* The loop over the records stops at the first record of another source: it
\* yields the bodies before it, and the event whole.
UnwrapRecords(d, source) ==
    LET foreign == ForeignIn(d.records, source)
    IN  IF foreign = {} THEN Bodies(d.records)
        ELSE Append(SubSeq(Bodies(d.records), 1, Min(foreign) - 1), d)

UnwrapSQS(d) ==
    IF d.records # <<>> THEN UnwrapRecords(d, "aws:sqs")
    ELSE IF d.form = "message" /\ d.source = "aws:sqs" THEN d.body
    ELSE <<d>>

UnwrapSNSNoEntity(d) ==
    IF d.records # <<>> THEN UnwrapRecords(d, "aws:sns")
    ELSE IF d.form = "message" /\ d.source = "aws:sns" THEN d.body
    ELSE <<d>>

UnwrapSNS(d) ==
    IF d.records # <<>> THEN UnwrapRecords(d, "aws:sns")
    ELSE IF \/ d.form = "message" /\ d.source = "aws:sns"
            \/ d.form = "entity"
         THEN d.body
    ELSE <<d>>

\* Decoding into an S3Event takes every record, whatever its source; a text
\* that cannot be decoded is skipped.
S3Records(d) == d.records

-----------------------------------------------------------------------------
\* With any event
Init ==
    /\ unsqs = <<>>
    /\ unsns = <<>>
    /\ notifications = <<>>
    /\ pc = "unwrap"

TakeEvent ==
    /\ pc = "unwrap"
    /\ unsqs' = UnwrapSQS(event)
    /\ pc' = "collect"
    /\ UNCHANGED <<event, unsns, notifications>>

\* unwrapSNSEvent pulls its next event when what it yielded has been used.
TakeFromSQS ==
    /\ pc = "collect" /\ unsns = <<>> /\ unsqs # <<>>
    /\ unsns' = UnwrapSNS(Head(unsqs))
    /\ unsqs' = Tail(unsqs)
    /\ UNCHANGED <<event, notifications, pc>>

\* As if an event were a notification
CollectEvent ==
    /\ pc = "collect" /\ unsns # <<>>
    /\ notifications' = Append(notifications, Head(unsns))
    /\ unsns' = Tail(unsns)
    /\ UNCHANGED <<event, unsqs, pc>>

Collect ==
    /\ pc = "collect" /\ unsns # <<>>
    /\ notifications' = notifications \o S3Records(Head(unsns))
    /\ unsns' = Tail(unsns)
    /\ UNCHANGED <<event, unsqs, pc>>

\* Without notifications Invoke returns, else it calls Process.
Decide ==
    /\ pc = "collect" /\ unsns = <<>> /\ unsqs = <<>>
    /\ pc' = IF notifications = <<>> THEN "nothing" ELSE "process"
    /\ UNCHANGED <<event, unsqs, unsns, notifications>>

Next == TakeEvent \/ TakeFromSQS \/ Collect \/ Decide

-----------------------------------------------------------------------------
(* The notifications in an event, by its structure *)

From(d, source) == d.records # <<>> /\ ForeignIn(d.records, source) = {}

\* A delivery path AWS offers: S3 alone, S3 to SNS, either of them to SQS
\* (where SNS sends its entity), or one record of such an event by itself.  In
\* place of a notification there may be something else, like the test event
\* S3 sends when notifications are set up.
DirectOK(d) == From(d, "aws:s3") \/ d.form \in {"object", "text"}

TopicOK(d) ==
    \/ DirectOK(d)
    \/ d.form = "entity" /\ DirectOK(d.body[1])
    \/ d.form = "message" /\ d.source = "aws:sns" /\ DirectOK(d.body[1])
    \/ From(d, "aws:sns") /\ \A i \in DOMAIN d.records : DirectOK(d.records[i].body)

QueueOK(d) ==
    \/ TopicOK(d)
    \/ d.form = "message" /\ d.source = "aws:sqs" /\ TopicOK(d.body[1])
    \/ From(d, "aws:sqs") /\ \A i \in DOMAIN d.records : TopicOK(d.records[i].body)

\* Its S3 records, from the inside out
InTopic(d) ==
    IF DirectOK(d) THEN d.records
    ELSE IF d.records = <<>> THEN d.body[1].records
    ELSE FlattenSeq([i \in DOMAIN d.records |-> d.records[i].body.records])

InQueue(d) ==
    IF TopicOK(d) THEN InTopic(d)
    ELSE IF d.records = <<>> THEN InTopic(d.body[1])
    ELSE FlattenSeq([i \in DOMAIN d.records |-> InTopic(d.records[i].body)])

-----------------------------------------------------------------------------
TypeOK ==
    /\ \A q \in {<<event>>, unsqs, unsns} : \A i \in DOMAIN q :
          q[i].form \in {"records", "message", "entity", "object", "text"}
    /\ \A i \in DOMAIN notifications : notifications[i].source \in {"aws:s3", "aws:sqs", "aws:sns"}
    /\ pc \in {"unwrap", "collect", "process", "nothing"}

\* Whatever way an S3 notification comes, and however the ways are nested and
\* batched, Process gets each of its records once, in the order of the batch;
\* what is no notification takes nothing away from the others
\* (app.go:188-195).
EveryNotificationOnce ==
    pc \in {"process", "nothing"} /\ QueueOK(event) => notifications = InQueue(event)
=============================================================================
