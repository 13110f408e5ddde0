---------------------------- MODULE MCLogParser ----------------------------
(***************************************************************************)
(* Files of up to four lines: two headers that put the columns in          *)
(* different orders and name one twice or one nobody knows, a comment, a   *)
(* line that is too long, rows of every pattern the setters tell apart, a  *)
(* blank line among them.                                                  *)
(***************************************************************************)
EXTENDS LogParser, SequencesExt

Headers ==
    {Header(<<"date", "time", "sc-status", "string">>),
     Header(<<"time", "unknown", "date", "number", "cs(User-Agent)">>),
     Header(<<"sc-status", "date", "sc-status", "time", "date">>)}

D == "2019-12-01"
T == "22:42:31"

MCRows ==
    {Row(<<"">>), Row(<<D, T, "200", "text">>), Row(<<D, T, "-", "-">>), Row(<<D>>),
     Row(<<T, "text", D, "200", "esc%61pe">>), Row(<<T, "-", D, "-", "-">>),
     Row(<<T, "text", D, "text">>), Row(<<T, "-", D, "200", "%zz">>), Row(<<T, "-", "-">>),
     Row(<<"200", D, "404", T, D>>), Row(<<"404", D, "-", T>>), Row(<<"-", D, "-", T>>),
     Row(<<"-", "", "200", T, D>>)}

MCFiles == BoundedSeq(Headers \cup MCRows \cup {Comment, TooLong}, 3)
              \cup {<<h, r1, g, r2>> : h, g \in Headers, r1, r2 \in MCRows}
=============================================================================
