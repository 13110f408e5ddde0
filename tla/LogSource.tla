----------------------------- MODULE LogSource -----------------------------
(***************************************************************************)
(* GetVariablesAndLogs (app.go:305-371): the log lines one notification is *)
(* aggregated from.  They are the lines of the object the notification     *)
(* names and, with backfill enabled, those of the other objects of the     *)
(* same distribution and hour, found by listing the bucket page by page    *)
(* while CloudFront keeps delivering objects to it.                        *)
(*                                                                         *)
(* S3 is external: a page holds the first keys after the last one listed   *)
(* that are in the bucket when the page is asked for.  Reading an object   *)
(* (module Download, then ParseCloudFrontLog) succeeds or fails as a       *)
(* whole.                                                                  *)
(***************************************************************************)
EXTENDS Integers, Sequences, FiniteSets, Functions, SequencesExt, Slices

CONSTANTS
    Objects,         \* the objects that are or will be in the bucket
    Key,             \* the key of each object, taken apart
    SentKey,         \* the key as its notification gives it: encoded as in a URL
    Rank,            \* its place in the order of keys
    LastModified,    \* when it was put there
    Content,         \* its log lines, in file order: their timestamps
    EventTime,       \* the time its notification gives
    Configs,         \* settings: whether to backfill, and whether to skip
    TimeTolerance,   \* of the backfill
    PageSize

\* A key is what is between its slashes, each component what is between its
\* dots: "logs/D.20.x.gz" is <<<<"logs">>, <<"D", "20", "x", "gz">>>>.  A
\* leading slash makes the first component empty, <<"">>.
Keys == Seq(Seq(STRING) \ {<<>>}) \ {<<>>}

ASSUME LogSourceAssumption ==
    /\ IsFiniteSet(Objects)
    /\ Key \in [Objects -> Keys]
    /\ SentKey \in [Objects -> Keys]
    /\ \A o, p \in Objects : SentKey[o] = Key[p] => o = p
    /\ Rank \in [Objects -> Nat]
    /\ \A o, p \in Objects : Rank[o] = Rank[p] => o = p
    /\ LastModified \in [Objects -> Int]
    /\ Content \in [Objects -> Seq(Int)]
    /\ EventTime \in [Objects -> Int]
    /\ \A o \in Objects : LastModified[o] <= EventTime[o]
    /\ Configs \subseteq [backfill : BOOLEAN, noSkip : BOOLEAN]
    /\ TimeTolerance \in Int
    /\ PageSize \in Nat \ {0}

VARIABLES
    cfg,      \* the settings of app.cfg that matter here
    own,      \* the object the notification names
    bucket,   \* the objects in the bucket
    logs,     \* the lines collected, as <<object, index>> pairs
    page,     \* the objects of the current page not yet looked at
    token,    \* the rank of the last key listed
    more,     \* the paginator has more pages
    pc        \* "key", "own", "list", "ok", "skipped" or "error"

vars == <<cfg, own, bucket, logs, page, token, more, pc>>

-----------------------------------------------------------------------------
(* Keys *)

\* ParseCFStandardLogObjectKey succeeds: three parts and the suffix.
KeyValid(k) == Last(Last(k)) = "gz" /\ Len(Last(k)) >= 4

Rooted(k) == Len(k) > 1 /\ Head(k) = <<"">>

\* filepath.Dir: empty components and "." go, and ".." takes back the one
\* before it; there is none above the root.
Dir(k) ==
    LET Enter(path, component) ==
            CASE component \in {<<"">>, <<"", "">>} -> path
              [] component # <<"", "", "">> -> Append(path, component)
              [] path # <<>> /\ Last(path) # component -> Front(path)
              [] OTHER -> IF Rooted(k) THEN path ELSE Append(path, component)
    IN  FoldLeft(Enter, <<>>, Front(k))

\* What the listing asks for before "<distribution>.<datehour>.": the
\* directory without its leading slash, unless it is the root.
Prefix(k) ==
    LET dir == Dir(k)
    IN  IF Rooted(k) /\ dir = <<>> THEN <<<<"">>>> ELSE dir

\* The key begins so; what follows may go on in deeper directories.
Listed(k, mine) ==
    LET prefix == Prefix(mine)
        name == k[Len(prefix) + 1]
    IN  /\ IsStrictPrefix(prefix, k)
        /\ Len(name) >= 3 /\ SubSeq(name, 1, 2) = SubSeq(Last(mine), 1, 2)

-----------------------------------------------------------------------------
(* Lines *)

Lines(o) == [i \in DOMAIN Content[o] |-> <<o, i>>]

Time(line) == Content[line[1]][line[2]]

\* More than the tolerance before the event; what came after it never is.
TooOld(time) == EventTime[own] - time > TimeTolerance

\* The lines of an object that are not too old, as they are in the file
Tolerated(o) == Kept(Lines(o), {i \in DOMAIN Content[o] : ~ TooOld(Content[o][i])})

EarlierUnstable(lines) ==
    {pair \in (DOMAIN lines) \X (DOMAIN lines) :
        LET at == Time(lines[pair[1]])  then == Time(lines[pair[2]])
        IN  at < then \/ (at = then /\ pair[1] > pair[2])}

\* One line comes before another: by its time, or read before it
Earlier(lines) ==
    {pair \in (DOMAIN lines) \X (DOMAIN lines) :
        LET at == Time(lines[pair[1]])  then == Time(lines[pair[2]])
        IN  at < then \/ (at = then /\ pair[1] < pair[2])}

\* slices.SortStableFunc by timestamp
SortedByTime(lines) ==
    LET order == InOrder(DOMAIN lines, Earlier(lines))
    IN  [n \in DOMAIN lines |-> lines[order[n]]]

-----------------------------------------------------------------------------
Init ==
    /\ cfg \in Configs
    /\ own \in Objects
    /\ bucket \in {B \in SUBSET Objects :
                      /\ own \in B
                      /\ \A o \in B : LastModified[o] <= EventTime[own]}
    /\ logs = <<>>
    /\ page = {}
    /\ token = -1
    /\ more = TRUE
    /\ pc = "key"

\* CloudFront delivers another object, later than the event.
Deliver(o) ==
    /\ o \notin bucket
    /\ LastModified[o] > EventTime[own]
    /\ bucket' = bucket \cup {o}
    /\ UNCHANGED <<cfg, own, logs, page, token, more, pc>>

ParseKey ==
    /\ pc = "key"
    /\ pc' = IF KeyValid(SentKey[own]) THEN "own" ELSE IF cfg.noSkip THEN "error" ELSE "skipped"
    /\ UNCHANGED <<cfg, own, bucket, logs, page, token, more>>

\* The notification's key is used as it comes.
OwnExists == \E o \in bucket : Key[o] = SentKey[own]

\* As if the key were decoded for the download
ReadOwnDecoded ==
    /\ pc = "own"
    /\ logs' = Lines(own)
    /\ pc' = IF cfg.backfill THEN "list" ELSE "ok"
    /\ UNCHANGED <<cfg, own, bucket, page, token, more>>

\* As if the tolerance were for these lines too
ReadOwnTolerated ==
    /\ pc = "own" /\ OwnExists
    /\ logs' = Tolerated(own)
    /\ pc' = IF cfg.backfill THEN "list" ELSE "ok"
    /\ UNCHANGED <<cfg, own, bucket, page, token, more>>

ReadOwn ==
    /\ pc = "own" /\ OwnExists
    /\ logs' = Lines(own)
    /\ pc' = IF cfg.backfill THEN "list" ELSE "ok"
    /\ UNCHANGED <<cfg, own, bucket, page, token, more>>

ReadOwnFails ==
    /\ pc = "own"
    /\ pc' = "error"
    /\ UNCHANGED <<cfg, own, bucket, logs, page, token, more>>

RemainingUndelivered == {o \in Objects : Listed(Key[o], SentKey[own]) /\ Rank[o] > token}

\* The objects of the listing after the token
Remaining == {o \in bucket : Listed(Key[o], SentKey[own]) /\ Rank[o] > token}

\* The first of them, as many as a page has
FirstOf(objects) ==
    {o \in objects : Cardinality({p \in objects : Rank[p] < Rank[o]}) < PageSize}

IsFirst(o, objects) == o \in objects /\ \A p \in objects : Rank[o] <= Rank[p]

IsLast(o, objects) == o \in objects /\ \A p \in objects : Rank[p] <= Rank[o]

NextPage ==
    /\ pc = "list" /\ page = {} /\ more
    /\ page' = FirstOf(Remaining)
    /\ IF page' = {} THEN UNCHANGED token
       ELSE \E last \in page' : IsLast(last, page') /\ token' = Rank[last]
    /\ more' = (page' # Remaining)
    /\ UNCHANGED <<cfg, own, bucket, logs, pc>>

NextPageFails ==
    /\ pc = "list" /\ page = {} /\ more
    /\ pc' = "error"
    /\ UNCHANGED <<cfg, own, bucket, logs, page, token, more>>

WantedOwnToo(o) == ~ TooOld(LastModified[o])

\* The object of the notification has been read already.
Wanted(o) == Key[o] # SentKey[own] /\ ~ TooOld(LastModified[o])

SkipObjectAgain(o) ==
    /\ pc = "list" /\ IsFirst(o, page) /\ ~ Wanted(o)
    /\ UNCHANGED vars

\* The objects of a page are looked at in the order of their keys.
SkipObject(o) ==
    /\ pc = "list" /\ IsFirst(o, page) /\ ~ Wanted(o)
    /\ page' = page \ {o}
    /\ UNCHANGED <<cfg, own, bucket, logs, token, more, pc>>

ReadObject(o) ==
    /\ pc = "list" /\ IsFirst(o, page) /\ Wanted(o)
    /\ logs' = logs \o Tolerated(o)
    /\ page' = page \ {o}
    /\ UNCHANGED <<cfg, own, bucket, token, more, pc>>

ReadObjectFails(o) ==
    /\ pc = "list" /\ IsFirst(o, page) /\ Wanted(o)
    /\ pc' = "error"
    /\ UNCHANGED <<cfg, own, bucket, logs, page, token, more>>

Sort ==
    /\ pc = "list" /\ page = {} /\ ~ more
    /\ logs' = SortedByTime(logs)
    /\ pc' = "ok"
    /\ UNCHANGED <<cfg, own, bucket, page, token, more>>

Returned == pc \in {"ok", "skipped", "error"} /\ UNCHANGED vars

Step ==
    \/ ParseKey \/ ReadOwn \/ ReadOwnFails
    \/ NextPage \/ NextPageFails
    \/ \E o \in page : SkipObject(o) \/ ReadObject(o) \/ ReadObjectFails(o)
    \/ Sort

Next == Step \/ Returned \/ \E o \in Objects : Deliver(o)

\* The invocation makes progress: every request to S3 ends, and no lock is
\* waited for.  CloudFront need not deliver.
Spec == Init /\ [][Next]_vars /\ WF_vars(Step)

-----------------------------------------------------------------------------
TypeOK ==
    /\ cfg \in Configs
    /\ bucket \subseteq Objects /\ own \in bucket
    /\ \A n \in DOMAIN logs : logs[n][1] \in Objects /\ logs[n][2] \in DOMAIN Content[logs[n][1]]
    /\ page \subseteq bucket
    /\ token \in Int
    /\ more \in BOOLEAN
    /\ pc \in {"key", "own", "list", "ok", "skipped", "error"}

\* No line is aggregated twice, although the listing returns the object of
\* the notification too and pages may overlap deliveries (app.go:338-340).
NoLineTwice == IsInjective(logs)

\* The object of the notification is used whole, however old its lines are:
\* a notification that is acknowledged never drops its own lines.
OwnComplete ==
    pc = "ok" => Range(Lines(own)) \subseteq Range(logs)

\* A log file of the same distribution and hour, in the same directory
Beside(k, mine) ==
    /\ KeyValid(k) /\ Front(k) = Front(mine)
    /\ SubSeq(Last(k), 1, 2) = SubSeq(Last(mine), 1, 2)

\* The directory is written without a leading slash, "." or "..", as that of
\* every key is which CloudFront makes.
Plain(k) == Prefix(k) = Front(k)

\* Every log file of the hour that was in the bucket when the event was
\* handled and that is recent enough contributes all its recent lines: no
\* page is skipped, and an object that cannot be read fails the notification
\* instead of being left out (app.go:332-363).  The directory of the own key
\* must be plain: of another the listing asks for something else.
BackfillComplete ==
    pc = "ok" /\ cfg.backfill /\ Plain(Key[own]) =>
        \A o \in bucket :
            (LastModified[o] <= EventTime[own] /\ Beside(Key[o], Key[own]) /\ ~ TooOld(LastModified[o]))
                => \A i \in DOMAIN Content[o] : ~ TooOld(Content[o][i]) => <<o, i>> \in Range(logs)

\* The notification's object is read first, the others in the order of their
\* keys, each from its first line to its last.
ReadBefore(line, other) ==
    \/ line[1] = own /\ other[1] # own
    \/ line[1] # own /\ other[1] # own /\ Rank[line[1]] < Rank[other[1]]
    \/ line[1] = other[1] /\ line[2] < other[2]

\* The lines come out in the order of their timestamps, and those of one
\* instant in the order in which they were read, however the objects were
\* spread over pages and whatever was delivered meanwhile: which line is the
\* last of an instant does not change with the paging (app.go:318-366).
InTimeOrder ==
    pc = "ok" /\ cfg.backfill =>
        \A m, n \in DOMAIN logs : m < n =>
            \/ Time(logs[m]) < Time(logs[n])
            \/ Time(logs[m]) = Time(logs[n]) /\ ReadBefore(logs[m], logs[n])

\* A listing that grows while it is read still ends.
AlwaysReturns == <>(pc \in {"ok", "skipped", "error"})

-----------------------------------------------------------------------------
(* Claims of the documentation *)

\* README.md:242: with backfill the past logs of the bucket are read "to
\* include complete aggregation, including past logs".  A point is made anew
\* from the lines found; if it has one line of an instant it has all of them
\* that were in the bucket.
WindowsWhole ==
    pc = "ok" /\ cfg.backfill /\ Plain(Key[own]) =>
        \A n \in DOMAIN logs : \A o \in bucket :
            (LastModified[o] <= EventTime[own] /\ Beside(Key[o], Key[own]))
                => \A i \in DOMAIN Content[o] :
                      Content[o][i] = Time(logs[n]) => <<o, i>> \in Range(logs)
=============================================================================
