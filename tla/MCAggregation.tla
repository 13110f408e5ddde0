--------------------------- MODULE MCAggregation ---------------------------
(***************************************************************************)
(* A small instance of Aggregation: seven log lines and six metrics.       *)
(* Lines la and lb share the window 0..9, lb at its last instant and with  *)
(* a value that equals a boundary; lc is on the boundary of two windows    *)
(* and has another resource; ld is rejected by filters that shield         *)
(* expressions failing on it; le is counted by a Sum that has the name of  *)
(* the Count the other lines are in; lf has a value that fails, lg a       *)
(* resource attribute.                                                     *)
(***************************************************************************)
EXTENDS Aggregation, SequencesExt

CONSTANTS la, lb, lc, ld, le, lf, lg,  \* lines
          key1, key2, red, blue          \* attribute keys and values

MCLines == {la, lb, lc, ld, le, lf, lg}
MCKeys == {key1, key2}
MCAttrValues == {red, blue}

MCTimestamp == (la :> 0) @@ (lb :> 9) @@ (lc :> 10) @@ (ld :> 9) @@ (le :> 12) @@ (lf :> 30) @@ (lg :> 30)

Always(v) == [l \in MCLines |-> v]

Attr(k, v) == [key |-> k, value |-> v]

MCResourceAttributes ==
    <<Attr(key1, (lg :> EvalError) @@ Always(red)),
      Attr(key1, (lc :> blue) @@ Always(Nil))>>

Colour == (la :> red) @@ (lb :> blue) @@ (lc :> red) @@ (ld :> EvalError) @@ Always(Nil)

Amount ==
    (la :> 0) @@ (lb :> 5) @@ (lc :> -3) @@ (ld :> EvalError) @@ (lf :> EvalError) @@ Always(7)

AmountOrThree == (lf :> 3) @@ Amount

NotD == (ld :> FALSE) @@ Always(TRUE)
NotDE == (ld :> FALSE) @@ (le :> FALSE) @@ Always(TRUE)
OnlyE == (le :> TRUE) @@ (lf :> EvalError) @@ Always(FALSE)

Metric(name, type, interval, filter, attributes, value, boundaries, noMinMax) ==
    [name |-> name, type |-> type, interval |-> interval, filter |-> filter,
     attributes |-> attributes, value |-> value, boundaries |-> boundaries,
     noMinMax |-> noMinMax]

\* One metric of each type by itself; then, as Config.Validate accepts them,
\* two more histograms of the same name that differ in window, boundaries and
\* extrema, and a Sum that has the name of the Count.
MCMetrics ==
    <<Metric("requests", "Count", 10, NotDE, <<Attr(key2, Colour)>>, Always(0), <<>>, FALSE),
      Metric("bytes", "Sum", 20, NotDE, <<>>, AmountOrThree, <<>>, FALSE),
      Metric("time", "Histogram", 10, NotD, <<>>, Amount, <<0, 5>>, FALSE),
      Metric("time", "Histogram", 20, NotD, <<>>, AmountOrThree, <<5>>, TRUE),
      Metric("time", "Histogram", 5, NotD, <<>>, AmountOrThree, <<>>, TRUE),
      Metric("requests", "Sum", 10, OnlyE, <<>>, Amount, <<>>, FALSE)>>

\* Up to three of all the lines, or four of those nothing fails on alone
MCLogInputs ==
    (BoundedSeq(MCLines, 3) \cup [1..4 -> {la, lb, lc, le}]) \ {<<>>}
=============================================================================
