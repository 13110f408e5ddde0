---------------------------- MODULE MCLogSource ----------------------------
(***************************************************************************)
(* A bucket of eight objects, most of one distribution and hour: a recent  *)
(* one, one whose lines are older than the object, one under a leading     *)
(* slash, one in a directory that is not written plainly, two with keys    *)
(* that are not those of log files (one is deeper, yet listed, and soon    *)
(* stale), and two of the next hour in a directory whose name is encoded.  *)
(***************************************************************************)
EXTENDS LogSource

CONSTANTS recent, aged, nextHour, slash, deeper, notGz, spaced, dotted

MCObjects == {recent, aged, nextHour, slash, deeper, notGz, spaced, dotted}

In(dir, name) == <<<<dir>>, name>>

MCKey ==
    (recent   :> In("logs", <<"D", "20", "R", "gz">>)) @@
    (aged     :> In("logs", <<"D", "20", "A", "gz">>)) @@
    (notGz    :> In("logs", <<"D", "20", "T">>)) @@
    (deeper   :> In("logs", <<"D", "20", "gz">>) \o <<<<"E", "20", "gz">>>>) @@
    (slash    :> <<<<"">>>> \o In("logs", <<"D", "20", "L", "gz">>)) @@
    (dotted   :> <<<<"old">>, <<"", "", "">>, <<"", "">>>> \o In("logs", <<"D", "20", "O", "gz">>)) @@
    (nextHour :> In("my logs", <<"D", "21", "N", "gz">>)) @@
    (spaced   :> In("my logs", <<"D", "21", "P", "gz">>))

MCSentKey ==
    [o \in MCObjects |-> IF o \in {nextHour, spaced} THEN [MCKey[o] EXCEPT ![1] = <<"my+logs">>] ELSE MCKey[o]]

\* The leading slash sorts first, then A < R < T < gz.
MCRank ==
    (slash :> 0) @@ (aged :> 1) @@ (recent :> 2) @@ (notGz :> 3) @@
    (deeper :> 4) @@ (nextHour :> 5) @@ (spaced :> 6) @@ (dotted :> 7)

MCLastModified ==
    (slash :> 20) @@ (deeper :> 45) @@ (aged :> 70) @@ (notGz :> 75) @@
    (recent :> 90) @@ (dotted :> 91) @@ (nextHour :> 95) @@ (spaced :> 96)

MCEventTime == [o \in MCObjects |-> MCLastModified[o]]

\* The tolerance is 40: at 90, the lines at 40 are too old, that at 50
\* just is not.  Objects share the instants 40 and 65, one with two lines.
MCContent ==
    (slash :> <<15>>) @@ (deeper :> <<40, 35>>) @@
    (aged :> <<65, 40, 65, 50>>) @@ (notGz :> <<>>) @@ (recent :> <<40, 65>>) @@
    (dotted :> <<86>>) @@ (nextHour :> <<90>>) @@ (spaced :> <<85>>)

\* Backfill that skips nothing, and no backfill with foreign keys skipped
MCConfigs ==
    {[backfill |-> TRUE, noSkip |-> TRUE], [backfill |-> FALSE, noSkip |-> FALSE]}
=============================================================================
