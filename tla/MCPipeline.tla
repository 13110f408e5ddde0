----------------------------- MODULE MCPipeline -----------------------------
(***************************************************************************)
(* Small instances of Pipeline: two log files of the same distribution and *)
(* hour in two messages that share one of them, a file that cannot be read *)
(* next to one that can, a message that is about no log file, a batch with *)
(* one notification twice.                                                 *)
(***************************************************************************)
EXTENDS Pipeline, TLC

CONSTANTS o1, o2, bad, m1, m2, m3, r1, r2, s1, s2, w1

SharedRecords == (m1 :> <<o1, o2>>) @@ (m2 :> <<o1, bad>>)
SingleRecords == (m1 :> <<o1>>) @@ (m2 :> <<o2>>)
BatchRecords == (m1 :> <<o1, o1>>) @@ (m2 :> <<o2, o1>>) @@ (m3 :> <<>>)

MCResourcesOf == [o \in Objects |-> IF o = o2 THEN {r1, r2} ELSE {r1}]
ApartResourcesOf == [o \in Objects |-> IF o = o2 THEN {r2} ELSE {r1}]

AllRelated == [o \in Objects |-> Objects]
NoneRelated == [o \in Objects |-> {}]
=============================================================================
