------------------------------- MODULE Command ------------------------------
(***************************************************************************)
(* The command (cmd/cflog2otel/main.go): load the configuration, then      *)
(* validate only, render it, or run, with a collector of its own in the    *)
(* place of the configured one if wanted.  Run locally it handles one      *)
(* event: what it is given, or one made up from --s3-url (or $S3_URL); on  *)
(* Lambda, what it is given, the URL notwithstanding: lamblocal (external) *)
(* reads its CLISrc only when it is not on Lambda.  Composes Config (in    *)
(* the same process) and Unwrap (called by the handler).                   *)
(***************************************************************************)
EXTENDS Config

CONSTANTS
    Starts,        \* the files, flags and events the command may be run with
    URLs,          \* arguments of --s3-url, NoURL the one that is not given
    NoURL,
    S3Part,        \* bucket and key of each that has the scheme s3
    CollectorURL   \* of otlptest's collector

ASSUME CommandAssumption ==
    /\ DOMAIN S3Part \subseteq URLs /\ NoURL \notin DOMAIN S3Part
    /\ CollectorURL \in HTTP
    /\ \A start \in Starts : IsFile(start.doc) /\ \A field \in FieldsIn(start.doc) : IsWritten(field)

VARIABLES
    flags,  \* validateOnly, render, local, s3URL; lambda: the process is on Lambda
    event, unsqs, unsns, notifications, hstep  \* Invoke, in module Unwrap

invokeVars == <<event, unsqs, unsns, notifications, hstep>>

vars == <<configVars, flags, invokeVars>>

Handler == INSTANCE Unwrap WITH pc <- hstep

ASSUME EventAssumption == \A start \in Starts : Handler!IsEvent(start.event)

-----------------------------------------------------------------------------
Init ==
    /\ \E start \in Starts : doc = start.doc /\ flags = start.flags /\ event = start.event
    /\ LoadInit
    /\ Handler!Init

Load == LoadNext /\ UNCHANGED <<flags, invokeVars>>

ValidateOnly ==
    /\ stage = "accepted" /\ flags.validateOnly
    /\ stage' = "valid"
    /\ UNCHANGED <<doc, json, cfg, i, rendered, flags, invokeVars>>

Render ==
    /\ stage = "accepted" /\ ~ flags.validateOnly /\ flags.render
    /\ stage' = "rendered"
    /\ UNCHANGED <<doc, json, cfg, i, rendered, flags, invokeVars>>

\* The next process runs, on the same event.
Reload == LoadRendered /\ flags' = [flags EXCEPT !.render = FALSE] /\ UNCHANGED invokeVars

\* As if the new endpoint were not validated
StartCollectorUnvalidated ==
    /\ stage = "accepted" /\ ~ flags.validateOnly /\ ~ flags.render
    /\ stage' = "new"
    /\ cfg' = IF flags.local THEN [cfg EXCEPT !.endpoint = CollectorURL, !.endpointURL = {}] ELSE cfg
    /\ UNCHANGED <<doc, json, i, rendered, flags, invokeVars>>

\* The whole of cfg.Otel is replaced and validated again.
StartCollector ==
    /\ stage = "accepted" /\ ~ flags.validateOnly /\ ~ flags.render
    /\ stage' = "new"
    /\ cfg' = IF flags.local THEN WithEndpoint([cfg EXCEPT !.endpoint = CollectorURL, !.endpointURL = {}])
              ELSE cfg
    /\ UNCHANGED <<doc, json, i, rendered, flags, invokeVars>>

\* New fails when the AWS configuration cannot be loaded.
New ==
    /\ stage = "new"
    /\ stage' \in {"source", "failed"}
    /\ UNCHANGED <<doc, json, cfg, i, rendered, flags, invokeVars>>

\* generateDummyS3Notification: one S3 record
DummyEvent(url) == Handler!Document(<<[source |-> "aws:s3", body |-> S3Part[url]]>>)

\* The URL does not parse, or its scheme is not s3.
RefuseURL ==
    /\ stage = "source" /\ flags.s3URL # NoURL /\ flags.s3URL \notin DOMAIN S3Part
    /\ stage' = "failed"
    /\ UNCHANGED <<doc, json, cfg, i, rendered, flags, invokeVars>>

\* lamblocal has the process handle an event made up from the URL.
FromURL(f) == f.s3URL # NoURL /\ ~ f.lambda

Invoke ==
    /\ stage = "source"
    /\ flags.s3URL = NoURL \/ flags.s3URL \in DOMAIN S3Part
    /\ stage' = "run"
    /\ event' = IF FromURL(flags) THEN DummyEvent(flags.s3URL) ELSE event
    /\ UNCHANGED <<doc, json, cfg, i, rendered, flags, unsqs, unsns, notifications, hstep>>

Handle ==
    /\ stage = "run"
    /\ Handler!Next
    /\ UNCHANGED <<configVars, flags>>

Exited ==
    /\ stage \in {"refused", "valid", "failed"} \/ hstep \in {"process", "nothing"}
    /\ UNCHANGED vars

Next ==
    \/ Load \/ ValidateOnly \/ Render \/ Reload
    \/ StartCollector \/ New \/ RefuseURL \/ Invoke
    \/ Handle \/ Exited

Spec == Init /\ [][Next]_vars

-----------------------------------------------------------------------------
TypeOK ==
    /\ json = {} <=> stage = "evaluate" \/ (stage = "refused" /\ EvaluationFails(doc))
    /\ i \in 1..(Len(cfg.metrics) + Len(cfg.resource) + 1)
    /\ stage \in {"evaluate", "decode", "otel", "resource", "metrics", "accepted", "refused",
                  "valid", "rendered", "new", "source", "failed", "run"}
    /\ hstep # "unwrap" => stage = "run"
    /\ Handler!TypeOK

\* Every S3 notification of the event reaches Process once and in order
\* (see Unwrap); with --s3-url, off Lambda, the event is what the URL names and
\* not the one the command was given, and with --local-collector nothing is sent to the
\* configured endpoint (main.go:69-99).
EveryNotificationOnce ==
    hstep \in {"process", "nothing"} =>
        /\ Handler!EveryNotificationOnce
        /\ FromURL(flags) =>
              notifications = <<[source |-> "aws:s3", body |-> S3Part[flags.s3URL]]>>
        /\ flags.local => cfg.endpointURL = {CollectorURL}
=============================================================================
