---------------------------- MODULE AtLeastOnce ----------------------------
(***************************************************************************)
(* What cflog2otel promises to whoever sends it notifications: a message   *)
(* it takes is either done, and then every line of every object it names   *)
(* has reached the metrics backend, or it ends where an operator finds it. *)
(* How often a line is counted, and when, is not promised, nor that the    *)
(* backend accepts what it is sent.                                        *)
(***************************************************************************)
CONSTANTS Objects, Resources, Messages, Records, ResourcesOf

VARIABLES
    status,   \* "unsent", "open", "deleted" or "dead"
    counted   \* the <<object, resource>> pairs that have reached the backend

vars == <<status, counted>>

\* What a message asks to be counted
Pairs(m) ==
    {p \in Objects \X Resources :
        /\ \E i \in DOMAIN Records[m] : Records[m][i] = p[1]
        /\ p[2] \in ResourcesOf[p[1]]}

Init ==
    /\ status = [m \in Messages |-> "unsent"]
    /\ counted = {}

Send(m) ==
    /\ status[m] = "unsent"
    /\ status' = [status EXCEPT ![m] = "open"]
    /\ UNCHANGED counted

\* Some of what a message asks for is counted, even after it is settled: an
\* invocation may outlive its hold on the message.
Count(m) ==
    /\ status[m] # "unsent"
    /\ counted \subseteq counted' /\ counted' \ counted \subseteq Pairs(m)
    /\ UNCHANGED status

Finish(m) ==
    /\ status[m] = "open" /\ Pairs(m) \subseteq counted
    /\ status' = [status EXCEPT ![m] = "deleted"]
    /\ UNCHANGED counted

Bury(m) ==
    /\ status[m] = "open"
    /\ status' = [status EXCEPT ![m] = "dead"]
    /\ UNCHANGED counted

Next == \E m \in Messages : Send(m) \/ Count(m) \/ Finish(m) \/ Bury(m)

\* The safety part of the promise: nothing is finished that is not counted.
Safety == Init /\ [][Next]_vars

Spec == Safety /\ \A m \in Messages : WF_vars(Finish(m) \/ Bury(m))
=============================================================================
