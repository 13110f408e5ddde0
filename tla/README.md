# cflog2otel in TLA+

cflog2otel is a Lambda function.  CloudFront puts gzipped access logs in an S3
bucket; S3 notifies the function, through SQS and SNS if wanted; the function
downloads the named object, parses it, folds its lines into OpenTelemetry metrics
as a configuration of CEL expressions says, and exports them over OTLP.  The same
program is a command that validates or renders a configuration, and can run the
function locally against a collector of its own.

These modules model that path, from the configuration file and the event to the metrics
backend.  TLC checks them on small instances.  TLAPS proves theorems about the
aggregation, for every configuration and every slice of log lines; about the delivery of
notifications, for any number of messages and concurrent invocations; about the
download, for every cut of an object into parts; about the lines a notification is made
from, for every bucket and page size; about the log parser, for every file; about the
test collector, for any number of clients; and about configurations, expressions and
events, for every file, every expression and every nesting of an event.  `PROJECT.json` lists the
components, runs, mutants, hazards, theorems, and the lines each definition stands for.

## The system

| component | code | state | operations | modules |
|---|---|---|---|---|
| envelopes | `app.go` 58-177 | two pulled iterators | `UnwrapEvent` | `Unwrap` |
| invocation | `app.go` 179-258, 283-303 | notifications, collected metrics, exporter, joined error | `Invoke`, `Process`, `generateMetrics` | `Pipeline`, `AtLeastOnce` |
| log source | `app.go` 305-371, 434-450 | lines, paginator | `GetVariablesAndLogs`, key parsing | `LogSource` |
| download | `app.go` 260-281, 373-397 | buffer | `NewS3ObjectReader`, `WriteAt` | `Download` |
| log parser | `cloudfront_std_log.go` | fields, record, records | `ParseCloudFrontLog`, the setters | `LogParser` |
| aggregation | `aggregation.go`, `app.go` 399-432 | three nested slices | `Aggregate` | `Aggregation` |
| expressions | `cel.go`, `jsonnet.go` | compiled programs | `cel`, `switch`, `UnmarshalJSON`, `Eval` | `CEL` |
| configuration | `config.go`, `jsonnet.go` | the decoded configuration | `Load`, `Validate`, rendering | `Config` |
| command line | `cmd/cflog2otel` | flags | `main` | `Command` |
| test collector | `otlptest` | server, listener, mutex, wait group | `Start`, `Close` | `Collector` |

An SQS message holds SNS entities or S3 events; `Invoke` collects the S3 records of
all of them and hands them to `Process`, which makes one exporter, calls
`generateMetrics` for each notification (`GetVariablesAndLogs`, then `Aggregate`)
and, when all have succeeded, exports the resource metrics one by one.  The
invocations share nothing but the bucket, the queue and the backend; only the
transfer manager runs goroutines inside one.  The configuration is loaded once, when
the process starts, and read by all of this; the command may replace its endpoint by
that of a collector it starts.

What is hard, and what should hold:

* *Aggregation* searches three nested slices linearly and appends what it does not
  find, for lines in any order and metrics that may share a name.  Points must be
  unique and stay where they are, no accepted line lost, and each value must agree with
  its lines.
* *Download*: parts arrive in any order, and are started again, at a buffer that can
  only append and has no lock.  Nothing may end in the wrong place.
* *Log source*: the bucket is listed page by page while it grows.  No line twice, none
  of the wanted ones missing, none of another hour.
* *Log parser*: a record's timestamp is set by whichever of two columns comes second,
  and a value that does not parse fails a whole file.
* *Envelopes*: every nesting and batching, mixed with other texts.
* *Pipeline*: redelivery, a visibility timeout as long as the function's, a kill between
  two exports, exports that fail after they arrived, arrive late or succeed in part, one bad
  object in a batch, and two backfills of one hour at a time.
* *Expressions* are compiled and tried on zero variables when the file is loaded, kept in
  slices that belong together by index, and may still fail on a log line.
* *Configuration*: defaults are filled in while it is validated, part by part, and the rest of
  the program takes the result for granted without asking again.  What is rendered
  should load and mean the same.
* *Collector*: `Close` takes a mutex for as long as `GracefulStop` waits for clients, may run
  before the goroutine of `Start` does, and may be called twice.

## Modules

Every module is one component: its variables, one action per handler, loop iteration
or external event, the specification, then the properties.  Some definitions are
preceded by a plausible wrong version of them, whose name begins with the same stem and
adds what is wrong (`BucketUpperInclusive` before `Bucket`), or whose comment begins with
"As if".  No specification uses these: each property is shown to notice one of them in the
place of the right definition (the `mutants` of `PROJECT.json`).  **Slices** has the two helpers several of them share:
the order of a finite set, and what a loop that filters a slice keeps of it.

**Aggregation** is `Aggregate`.  `StartLine` is the head of the outer loop (find or
append the resource), `AggregateMetric` one iteration of the inner loop (find or append
the entry, filter, find or append the point, add), `EndLine` its end, `Return` the
pruning; `ResourceAttributesFail` and `AggregateMetricFail` are the error returns.
`resources`, `li`, `mi`, `target` are `resourceMetrics`, the two loop indexes and the
resource of the line (a pointer into a slice of pointers, so that an index says the same).  A CEL expression is the function that gives its result
for each line, `EvalError` included; floats are integers, times are units since the
zero time, an undefined extremum is `{}`.  Description, unit, scope and temporality are
copied by the code and left out.  `AggregationAssumption` is what `Config` establishes
(`AcceptedIsUsable`): boundaries increase of a Histogram only, for `Validate` looks at no
others.  `ResponseComplete` describes what is returned by what was aggregated: the resources
and entries that have points, in their order, with the very points they had.

**Download** composes `WriteAtBuffer` with the transfer manager of the AWS SDK
(external, with the defaults `NewWithClient` uses): the caller downloads the first part,
then workers take the others in order.  A `WriteAt` is two steps, making room
(`WriteAtExtends`) and copying (`WriteAtCopies`), as in `bytes.Buffer.Write`, because
nothing orders it with another goroutine's; `Pending` is room nobody has filled yet and
`Lost` a piece whose copy went to an array the buffer has left behind.  The constant
`Start` says how many pieces come before each part.

**LogSource** is `GetVariablesAndLogs` for one notification, one object of a page per
step; `Deliver` is CloudFront adding objects meanwhile.  A key is the sequence of its
components between slashes, each the sequence of what is between its dots.  `Dir` is what
`filepath.Dir` makes of one (empty components, `.` and `..` are resolved), `Prefix` what the
code makes of that (the leading slash goes), and `Listed` the keys that begin with the prefix,
the distribution and the hour, deeper directories included.  `BackfillComplete` and
`WindowsWhole` speak of the log files beside an object whose directory is `Plain`, unchanged by
all this, as that of every key is which CloudFront makes.  `SentKey` is the key as the notification gives it, encoded as
S3 does; the code uses it as it comes, so that an object whose key changes in the
encoding is not found.  A page is the set of its objects, looked at in the order of their
keys, and a sorted or filtered slice is given by the order it is in (`InOrder`), which is
what a stable sort promises.  `InTimeOrder` says what comes of both: the order is by time, and at
one instant by `ReadBefore` (own object, then keys, then the lines of a file), which leaves
nothing to the paging.

**LogParser** is `ParseCloudFrontLog`, one line or one value per step.  The columns are
told apart by the six kinds of setter and the values by what setters do with them; the
category of a status and the unescaped agent are attributes of their own, which a dash leaves as
they are.  `RowsFaithful` says of every attribute what it is by the row alone; `ErrorHasCause`
goes both ways, an error has a cause and a cause is never accepted.

**Unwrap** is `UnwrapEvent` and the collecting loop of `Invoke`.  The iterators are
operators from a document to what they yield.  It runs inside `Command`.

**Pipeline** is `Invoke` and `Process` in several slots at a time, between the SQS queue,
Lambda and the backend (external, after `lambda/mackerel/example.tf`).  An object is
reduced to the resources its lines count in; the backend keeps, for each resource, how
often it counts each object.  Without backfill a payload is added, with backfill it
replaces, which is what `README.md:241` asks of the backend.  What one `Export` may do is
`ExportGives`, after the OTLP exporter (external): it sends up to `MaxSends` times; an error does
not tell whether the backend has the payload; a sending that timed out may be on a wire
(`Wires`) when its `Export` has returned an error, and `Arrive` at any later time or never; and
the backend may reject points (of `Rejectable` resources), a partial success for which `Export`
returns nil.  `rejected` remembers those, so that the properties can tell what the backend did not
want from what it was not sent.

**AtLeastOnce** is the abstract promise: a message is settled only when all it names has
reached the backend, or it is in the dead-letter queue.  `Pipeline!ImplementsAtLeastOnce` maps
"visible" and "inflight" to "open", forgets how often a pair is counted, and takes one whose
points the backend rejected for one it has had.

**CEL** takes an expression from what its author writes (a literal, `cel(e)`, or
`switch([...])`) through the native functions (`Native`, `NativeFails`) and
`CELCapable.UnmarshalJSON` with its trial on zero variables (`Unmarshals`) to its value on a
log line (`Eval`).  `SwitchEntry` is what the native function makes of an entry: one with a case
loses its default, one whose default is an expression loses its value, and one with a literal
default stays as it is, with a value that is decoded and may be refused.
Compiling and evaluating are cel-go's: an expression of the instance is the
function from variables to results.  `IsWritten` says what an author can write: inside the
entry of a `switch`, another `switch` is an object that is not a string, like any other.
`Meanings` is the reference: what the author meant, in terms of the cases and not of the
slices they are kept in.

**Config** is `Load`: `Evaluate`, `Decode`, then `Validate` with one action for each part and
each iteration, defaults included.  A member that may be missing and a pointer that may
be nil are sets of at most one value.  `Rendered` is the JSON that `--render-config`
prints, with what `omitempty` drops, and `LoadRendered` another process loading it.

**Command** is `main`: `Config`, then `ValidateOnly`, `Render` (and `Reload`), or
`StartCollector`, `New`, and `Invoke` on the event it is given or made up from `--s3-url`,
with `Unwrap` as its handler (`INSTANCE Unwrap WITH pc <- hstep`).  On Lambda (a flag of the
instance) the URL is parsed and refused as elsewhere, but the event stays that of the platform:
`lamblocal` reads its `CLISrc` only when it is not on Lambda (`FromURL`).

**Collector** is `MetricsCollector` with the goroutine of `goServe`, several callers of `Close`
and clients; a `Close` is seven steps, from taking the mutex to the return of `wg.Wait`.
`grpc.Server` is external: a stopped server's `Serve` returns at once, and
`GracefulStop` waits for `Serve` to stop accepting and for requests, not for idle connections.

`MC*` modules give the constants of each component their small values.

## Runs

| run | question | bound |
|---|---|---|
| `aggregation` | uniqueness, exactness of counts, sums, histograms, response, causes of failure, windows, stability of places | all slices of up to 3 of 7 lines and of 4 of 4 lines, 6 metrics |
| `aggregation_readme_buckets` | are buckets `(b1, b2]`? no | same |
| `download` | position, completeness, retry, termination | 3 parts of 2, 2 and 1 pieces, 2 workers, 2 retries |
| `download_race` | may two goroutines be in `WriteAt`? no | same |
| `logsource` | duplicates, completeness, order, termination | 8 objects, pages of 2, deliveries at any time, backfill on and off |
| `logsource_windows` | are the lines of one instant taken together? no | same |
| `command` | is what is accepted usable, as written, and the same when rendered; is each S3 record handled once | some 1,500 files; all flags, on Lambda or not; 700 events of every nesting with 1 or 2 records a level |
| `logparser` | rows, columns, timestamps, errors | all files of up to 3 of 18 lines, and of 4 that are header, row, header, row; a header names two columns twice |
| `pipeline_delta` | acknowledged means counted; overcount; poison; refinement; every message settles | 2 slots, 2 messages, 3 objects (one cannot be read), 2 receives, 1 send for each export and 1 that may come late, 1 of 2 resources rejectable |
| `pipeline_backfill` | complete and monotone one at a time | 1 slot, 3 messages (one with an object twice, one about none), 3 receives, 1 of 2 resources rejectable, nothing late |
| `pipeline_backfill_concurrent` | complete with two at a time? no | 2 slots, 2 messages of one object each |
| `collector` | quiet after `Close`, requests answered, `Close` returns | 3 callers of `Close`, 2 clients |

Why the bounds are enough to see the interesting cases: two lines make a search hit, a
third one makes it hit after a miss, the fourth brings back an earlier window; the
lines sit on both sides of and on window and bucket boundaries, and the six metrics
contain every pair that interacts (same name with the same type and different windows or
boundaries, same name with different types).  Three parts and two workers let one part
be early, on time, or started again while another is copying.  Eight objects in pages
of two give a listing of several pages with a delivery before, inside and after each; two
of them have keys that are sent encoded, two are in directories the code rewrites, and two share
instants, one of them with two lines.  Two invocations and two messages that share
an object are what it takes for an export to meet a concurrent one; two receives are a
redelivery, and the second of them is the last before the dead-letter queue.  `MaxSends` is 1
in the runs because a late sending (`Wires`) and a redelivery already count an object again; the
theorems are for every `MaxSends`.  The files of
`command` vary a good one in one place at a time, because `Validate` looks at one place
at a time; the switches have up to three cases over conditions that hold, do not hold,
fail or are no Boolean on each of two lines.  Three callers of `Close` are one that
closes, one that waits for the mutex, and one that comes when it is over.

The four violations are differences between what the repository says and does:

* `BucketsUpperInclusive`: `README.md:431` and the comment at `aggregation.go:320`
  close buckets above; `v < b` (line 324) closes them below.
* `ParallelWritesKeepBytes`: `WriteAtBuffer` is given to a downloader that writes from
  several goroutines and has no lock.
* `WindowsWhole`: `README.md:242` says backfill is there for the aggregation to be complete;
  the tolerance is applied to the objects found and to their lines but not to the lines of
  the notification's own object, so that a point may be made of some lines of its instant only.
* `CompleteAggregation` with two slots: an invocation that listed the bucket first may
  export last, and the point then lacks an object whose message has been deleted.

Smaller differences met on the way and not the subject of a run: `app.go:270` says
that `WriteAt` writes at the given offset, and line 272 refuses every offset but the end,
so that a part that comes early fails the download and a part whose connection breaks
can never be retried with success; `README.md:245` speaks of the age of objects where
`app.go:355` also drops lines; `README.md:430` leaves the 5 out of the default boundaries of
`config.go:161`; `cel('')` is taken for an absent expression; empty boundaries, which `Validate`
accepts as one bucket, come back as the default ones when the configuration has been rendered.

## Fairness

* `Aggregation`, `LogParser`, `Command`: loops over finite slices; no liveness is claimed
  beyond what the checks of deadlock show.
* `LogSource`: weak fairness of the invocation's own steps, since every S3 request ends and
  nothing is locked; none of `Deliver`.
* `Download`: weak fairness of each goroutine (the Go scheduler) and of the return.
* `Pipeline`: weak fairness of receiving a visible message, of the end of a visibility timeout,
  and of each running invocation including its being killed (the 600 second timeout).
  None of deliveries, of success, or of any particular outcome of a step.
* `Collector`: weak fairness of the serving goroutine, of each `Close` once called and of each
  request's handler.  Strong fairness of taking the mutex (Go's goes to the waiter that has
  starved) and of the stopping server's closing of a connection that is idle again and
  again.  None of `Start`, `CallClose` and the clients.

## Proofs

**`AggregationProofs`** proves, from `AggregationAssumption` alone, `TypeCorrect`
(`[]TypeOK`), `NoDuplicates` (`[]KeysUnique`), `NoLineLost` (`[]NothingLost`),
`CountExactness` (`[]CountsExact`), `ValueExactness` (`[]ValuesExact`),
`ResponseCompleteness` (`[]ResponseComplete`), `PointsStayInPlace` (`PointsKept`, a property
of steps), `EveryLineInWindow` (`[]LinesInWindow`) and `FailureHasCause`
(`[]FailsOnlyForCause`).

`TypeOK` is not inductive: that an update finds a point of the right kind depends on
every entry's type agreeing with its points, and `KeysUnique` depends on names and
attribute sets being unique at each level.  The inductive invariant is `WellFormed`:
`TypeOK`, `ResourcesOK` (resource attributes, entry names and point keys are pairwise
different, and points are of their entry's kind) and `TargetOK` (while the inner loop
runs, `target` is the resource of the current line).  Two places with one key are then
one place (`SameKeySamePlace`).

For exactness, `Exact` adds `NothingLost` and `PointsMadeOf`: each point is made (`MadeOf`)
of exactly the processed pairs of line and metric that have its key.  `ProcessedGrows` says
that a completed iteration adds one pair to the processed ones, `AggregateMetricEffect` that
one point, of this pair's key, is made or takes in one line, and that no other point
changes; a made point has a key no processed pair had, since none is lost.  What taking in
one line does to the count, the sum, the buckets and the extrema is then a
lemma about sets with one member more (`AddToMadeOf`, from `SumOfOneMore`,
`ExtremaOfOneMore`, and `OneBucket`: a value has one bucket, the one the search for the first
greater boundary returns).  The response is complete because the pruning keeps the entries
with points, in order, and each of its two loops keeps what it should (`PrunedProperties`,
`KeptIs`): the map from what is kept to where it was is the witness `ResponseComplete` asks for.

Where things come from is the invariant `Traced`, which adds to `WellFormed` that an entry
with a type has it from a metric of its name, and that a point's start is its end less the interval of one of the metrics of its name
(`Origins`).  A failure because of types then has two metrics to name, and the window of a
line holds it by the arithmetic of `%`.

**`PipelineProofs`** proves, from `PipelineAssumption`, `TypeCorrect` (`[]TypeOK`, with
backfill or without), and without backfill `NothingAcknowledgedIsLost` (`[]AckedIsCounted`),
`PoisonStaysOut` (`[]PoisonedIsKeptOut`), `OvercountIsRedelivery`
(`[]OvercountOnlyByRedelivery`) and `ImplementsPromise` (`Spec => Promise!Safety`, the
safety part of `AtLeastOnce`); and with backfill for one slot `BackfillsOnlyAdd`
(`BackfillNeverLoses`), `NothingReplacedIsLost` (`[]AckedIsCounted`) and
`BackfillsComplete` (`[]CompleteAggregation`).

`TypeOK` needs `Fresh`: a visible message may be received once more, and a slot starts
with nothing left of its last invocation.  `AckedIsCounted` speaks of the moment of deletion,
so the inductive invariant `Safe` follows each invocation (`InvocationOK`): the payloads it
has collected are of objects its message names; every notification before `next` has its
payloads among them; unless an export failed, every payload before `at` is in the
backend; and an invocation that is about to return without an error is past the last of
both.  Another invocation cannot disturb this because the backend only grows
(`StoreOnlyGrows`), which is where the absence of backfill is needed, or that of
concurrency.  In the backend is `Answered`: counted, or rejected by it.  `PoisonStaysOut` adds that the notifications before `next` can all be read, so that whoever exports has a message
without poison.

`OvercountOnlyByRedelivery` is not inductive either, because an invocation that has been
handed a message adds to the backend later.  `WithinHanded` counts that in: how often the
backend has an object, and `MaxSends` times what the running invocations may still export of
it (`Due`: the notifications still to come and the payloads not yet exported), is at most
`MaxSends` times how often it was handed out.  Receiving a message hands out what becomes
due (`HandedOut`), generating makes at most one payload for each resource of a
notification (`GeneratedIsDue`), exporting turns one payload into at most `MaxSends`
arrivals, those still on a wire (`Total`) included (`ExportedIsNotDue`), an arrival takes one
off the wires (`ArrivedWasLate`), and an invocation that ends or is killed owes nothing.  The sums
are over slots and messages, which `PipelineAssumption` says are finite.

With backfill an export replaces, and the backend only grows if no payload is older than what
it replaces.  `Backfilled` says so: of each resource the backend has objects of the bucket
once each, every payload not exported yet has all that the backend has (`Growing`), and
later payloads have all that earlier ones have.  It is inductive under three hypotheses:
`OneAtATime` (one slot: nothing in `lambda/` sees to that, and
`pipeline_backfill_concurrent` shows what two do to each other), `RelatedWhole`
(objects that count in one resource are read with each other, so that a payload has all
there is of its resource, `PayloadsAreWhole`), and `NoneArriveLate` (a sending that arrives
late would replace what came after it).  `BackfillsComplete` also needs that every object is
named by a message (`AllNotified`).  The constants of `pipeline_backfill` satisfy all four.

The code does not ensure `RelatedWhole`: an object older than the tolerance is not read with a
younger one, one of another hour never is, and `logsource_windows` shows a point that lacks
lines for the first reason.  What these three theorems say is that nothing else takes an
object back: no failure, kill, redelivery or order of payloads.

The refinement has one case per action: `Notify` is `Send`, the last
`Expire` is `Bury`, `Export` and `Arrive` are `Count`, an `Acknowledge` of an open message is `Finish`, and
nothing else is seen.

**`DownloadProofs`** proves, from `DownloadAssumption`, `TypeCorrect`, `PiecesInPlace`
(`[]InPlace`) and `SuccessIsWhole` (`[]WholeOnOk`).  The invariant `IInv` says of every
goroutine at work where it is (`AtWork`), of unfilled room that somebody is about to fill it
(`Filling`), of every part handed out that it is in the buffer or at work, or the download
has failed (`Covered`), and that nobody is at work after a success (`AtRest`).  A part that
starts where the buffer ends is the right one because parts are laid out one after the
other (`StartInObject`, by well-founded induction on the part).

**`LogSourceProofs`** proves, from `LogSourceAssumption`, `TypeCorrect`, `NoneTwice`
(`[]NoLineTwice`), `OwnLinesKept` (`[]OwnComplete`), `BackfillIsComplete`
(`[]BackfillComplete`) and `OrderedByTime` (`[]InTimeOrder`).  The invariant places the listing
on the line of keys: what has been read is before the rest of the page, and that before the
rest of the listing (`Onward`), so that nothing is read twice; an object that was there at
the event is on the page, or after the token, or has been read (`Swept`), whatever is
delivered meanwhile, since a page holds the first keys after the token (`PageIsFirst`).
`OwnRead` says that the notification's own lines are there, `InReadOrder` that all are collected
in the order of `ReadBefore`, and `SortedPermutes` that sorting is a stable permutation.

**`LogParserProofs`** proves, from `FilesAssumption` (a file is a sequence of the lines of
the model), `TypeCorrect`, `RecordsFaithful` (`[]RowsFaithful`), `TimestampFollowsColumns`
(`[]TimestampFollows`) and `ErrorsHaveCauses` (`[]ErrorHasCause`).  The invariant says of the
record being filled that it holds what the values read so far say and nothing else
(`Filled`), and of those finished that the k-th is so of the k-th row of the file (`Read`).
Setting a value keeps `Filled` (`SetFilled`) because each column is written by its own
setter only, and `Timestamp` by whichever of date and time comes second.

**`CollectorProofs`** proves, from `CollectorAssumption`, `TypeCorrect` (with mutual
exclusion), `Quiet` (`[]ClosedIsQuiet`) and `Answered` (`HandledIsAnswered`).  A `Close`
that returns may be a second one, which did nothing itself; its promise rests on what holds of
the server for whoever has passed the mutex: `ClosedOK`, `StoppingOK` and `StoppedOK`.

**`CommandProofs`** proves, from `CELAssumption`, `ConfigAssumption`, `CommandAssumption`
(files are made of lists and of what `IsWritten`) and `EventAssumption` (what an event is made
of has the form of a document, down to the three levels the code looks at):

* `TypeCorrect` (`[]TypeOK`): the index of `Validate` stays in bounds for every way its
  parts go on to the next (`Loading`).
* `AcceptedConfigUsable` (`[]AcceptedIsUsable`).  The invariant has `Validated`, how much of
  `AcceptedIsUsable` holds when `Validate` has come to a stage and an index, and `Shaped`,
  that the configuration has the form of one.  Increasing neighbours make increasing
  boundaries by well-founded induction (`IncreasingIsStrict`); that the configuration is still
  usable after `Render` and `Reload` is proved by its being validated again, and after
  `StartCollector` by `EndpointSet`.
* `ConfigurationMeansFile` (`[]EvaluatesAsWritten`).  For one expression, `FirstDecides` says
  that the loop over the compiled cases stops where the author's first case that holds or
  fails is, and `SwitchMeans` that the slices `UnmarshalJSON` fills have the cases and the
  default in their places.  For the whole file, `Written` follows every expression from the file to
  JSON, to the configuration, and to JSON and back when it is rendered, each in its place;
  no step of `Validate` touches one.
* `RenderingKeepsConfiguration` (`[]RenderedMeansSame`).  A configuration that was accepted
  is `Settled`: its defaults are filled in and would be filled in again the same.  Then what is
  printed is decoded to the same but for the boundaries `omitempty` drops (`RoundTrip`,
  `MetricRoundTrip`), `Validate` cannot refuse it (`RestoredIsValid`), and `Reloaded` follows it
  through the second `Load`.
* `NotificationsOnce` (`[]EveryNotificationOnce`).  The invariant is an equation
  (`Delivered`): the notifications collected, then what the pulled iterators have not been
  asked for yet, are in this order what the event holds.  `TopicMeaning` and
  `QueueMeaning` say what the iterators yield for a document; a document that goes through an
  iterator meant for another kind comes out as it went in.

**`DataLemmas`** has what several of these need: minima, sums over finite sets that gain a
member or change at one (`SumOneMore`, `SumOneChanged`), that `InOrder` lists a finite set once each
and in order (`InOrderEnumerates`, from the cardinalities of what is below), and that a loop that
filters keeps the right elements in their order (`KeptIs`, `Keeps`).  Recursive functions and folds
are reasoned about through functions that satisfy their equation: one exists, any two
agree, so that the one `CHOOSE` picks is it.  Inductions are the choice of a least
counterexample (`NatLessThanWellFounded`, `WFMin`), which needs no operator as a parameter.

What the proofs changed in the model: which events are deliveries AWS offers (`TopicOK` and
`QueueOK` of `Unwrap`, the hypotheses of `EveryNotificationOnce`, had let in some that are not);
`Meanings` of `CEL`, whose cases overlapped; and assumptions that had been silent
(`EventAssumption`, `IsWritten`, the finiteness of slots and messages).

Every invariant and action property of the runs is the statement of a theorem.  Liveness is
checked by TLC only, for it is out of the prover's reach: `AlwaysReturns` of `Download` and
of `LogSource`, `EveryMessageSettles`, the fair part of `ImplementsAtLeastOnce`, and
`CloseReturns`.

## Not modelled

* What libraries compute: the evaluation of CEL and jsonnet (an expression is its results),
  the OTLP wire format and JSON encoding, gzip, and the SDK beyond how it is used.  The
  choice of a gzip reader by the first two bytes of an object is left out.
* Conversions of text without a state: `json_escape`, `base64_encode` and the SSM lookup of
  `jsonnet.go`, the logger, and the generated methods of the enum beyond
  `AggregationTypeString`.
* The setters' mapping of three dozen columns beyond their kind, the fields of
  `CELVariables`, and settings that are copied (descriptions, units, headers, scope).
* Rounding of floats: values are integers.
* Infrastructure (`lambda/`) beyond the queue, its redrive policy and the timeouts.
* That handlers of the collector share one `json.Encoder`, and that an event made up from
  `--s3-url` has the present as its time: listed as hazards, with the reason.

## Plan

The order of the work was that of what can go wrong unseen: a wrong number in an exported
metric (`Aggregation`, `Download`, `LogSource`, `LogParser`), a lost message
(`Unwrap`, `Pipeline` over `AtLeastOnce`), their proofs, then what all of them take
for granted (`CEL`, `Config`, `Command`), the collector of the tests, and the remaining proofs.

What would come next: `RelatedWhole` as a consequence of what `LogSource` lists and
`Aggregation` makes of it, which are separate modules now.
