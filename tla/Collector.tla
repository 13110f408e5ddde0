----------------------------- MODULE Collector ------------------------------
(***************************************************************************)
(* MetricsCollector (otlptest/metrics.go): the collector of --local-       *)
(* collector and of the tests.  It listens from the start, serves in a     *)
(* goroutine from Start on, and Close may be called by several goroutines, *)
(* before the other goroutine has got anywhere, and while requests are     *)
(* being handled.                                                          *)
(*                                                                         *)
(* grpc.Server is external: Serve accepts connections until the listener   *)
(* is closed, and does not begin once the server is stopped; GracefulStop  *)
(* waits for Serve to stop accepting, closes the connections on which no   *)
(* request is being handled, and waits for the others.                     *)
(***************************************************************************)
EXTENDS Naturals, FiniteSets

CONSTANTS Clients, Closers, NoOne

ASSUME CollectorAssumption == NoOne \notin Closers

VARIABLES
    started,    \* mc.URL is set
    listening,  \* the listener is open
    serving,    \* the goroutine of goServe: "none", "spawned", "accepting", "leaving" or "returned"
    server,     \* "new", "stopping" or "stopped"
    closed,     \* mc.closed
    mu,         \* who holds mc.mu
    closer,     \* where each caller of Close is
    client      \* where each client is

vars == <<started, listening, serving, server, closed, mu, closer, client>>

collector == <<started, listening, serving, server, closed, mu>>

CloserStates == {"idle", "calling", "locked", "closing", "stopping", "waiting", "returned"}

\* A client that is refused or gone has no connection; one that is "dialled"
\* waits to be accepted, "connected" and "answered" are between requests.
ClientStates == {"idle", "dialled", "connected", "handled", "answered", "refused", "gone"}

Connected(k) == client[k] \in {"connected", "handled", "answered"}

-----------------------------------------------------------------------------
Init ==
    /\ started = FALSE
    /\ listening = TRUE
    /\ serving = "none"
    /\ server = "new"
    /\ closed = FALSE
    /\ mu = NoOne
    /\ closer = [c \in Closers |-> "idle"]
    /\ client = [k \in Clients |-> "idle"]

\* A second call would panic.
Start ==
    /\ ~ started
    /\ started' = TRUE
    /\ serving' = "spawned"
    /\ UNCHANGED <<listening, server, closed, mu, closer, client>>

\* A stopped server's Serve returns at once.
Serve ==
    /\ serving = "spawned"
    /\ IF server = "new" THEN serving' = "accepting" /\ UNCHANGED listening
       ELSE serving' = "returned" /\ listening' = FALSE
    /\ UNCHANGED <<started, server, closed, mu, closer, client>>

AcceptFails ==
    /\ serving = "accepting" /\ ~ listening
    /\ serving' = "leaving"
    /\ UNCHANGED <<started, listening, server, closed, mu, closer, client>>

\* While the server is stopping, Serve waits for it.
ServeReturns ==
    /\ serving = "leaving" /\ server # "stopping"
    /\ serving' = "returned"
    /\ UNCHANGED <<started, listening, server, closed, mu, closer, client>>

-----------------------------------------------------------------------------
CallClose(c) ==
    /\ closer[c] = "idle"
    /\ closer' = [closer EXCEPT ![c] = "calling"]
    /\ UNCHANGED <<collector, client>>

\* As if there were no mutex
LockNothing(c) ==
    /\ closer[c] = "calling"
    /\ closer' = [closer EXCEPT ![c] = "locked"]
    /\ UNCHANGED <<started, listening, serving, server, closed, mu, client>>

Lock(c) ==
    /\ closer[c] = "calling" /\ mu = NoOne
    /\ mu' = c
    /\ closer' = [closer EXCEPT ![c] = "locked"]
    /\ UNCHANGED <<started, listening, serving, server, closed, client>>

\* Somebody has closed it already.
AlreadyClosed(c) ==
    /\ closer[c] = "locked" /\ closed
    /\ mu' = NoOne
    /\ closer' = [closer EXCEPT ![c] = "waiting"]
    /\ UNCHANGED <<started, listening, serving, server, closed, client>>

\* Connections that were not accepted are reset.
CloseListener(c) ==
    /\ closer[c] = "locked" /\ ~ closed
    /\ closed' = TRUE
    /\ listening' = FALSE
    /\ client' = [k \in Clients |-> IF client[k] = "dialled" THEN "refused" ELSE client[k]]
    /\ closer' = [closer EXCEPT ![c] = "closing"]
    /\ UNCHANGED <<started, serving, server, mu>>

GracefulStop(c) ==
    /\ closer[c] = "closing"
    /\ server' = "stopping"
    /\ closer' = [closer EXCEPT ![c] = "stopping"]
    /\ UNCHANGED <<started, listening, serving, closed, mu, client>>

\* As if Stop had been called
StoppedHard(c) ==
    /\ closer[c] = "stopping" /\ serving # "accepting"
    /\ server' = "stopped"
    /\ mu' = NoOne
    /\ closer' = [closer EXCEPT ![c] = "waiting"]
    /\ client' = [k \in Clients |-> IF Connected(k) THEN "refused" ELSE client[k]]
    /\ UNCHANGED <<started, listening, serving, closed>>

\* As if the unlock were missing
StoppedLocked(c) ==
    /\ closer[c] = "stopping" /\ serving # "accepting"
    /\ \A k \in Clients : ~ Connected(k)
    /\ server' = "stopped"
    /\ closer' = [closer EXCEPT ![c] = "waiting"]
    /\ UNCHANGED <<started, listening, serving, closed, mu, client>>

\* GracefulStop returns, and the lock is released.
Stopped(c) ==
    /\ closer[c] = "stopping" /\ serving # "accepting"
    /\ \A k \in Clients : ~ Connected(k)
    /\ server' = "stopped"
    /\ mu' = NoOne
    /\ closer' = [closer EXCEPT ![c] = "waiting"]
    /\ UNCHANGED <<started, listening, serving, closed, client>>

\* mc.wg counts the goroutine of goServe.
CloseReturned(c) ==
    /\ closer[c] = "waiting" /\ serving \in {"none", "returned"}
    /\ closer' = [closer EXCEPT ![c] = "returned"]
    /\ UNCHANGED <<collector, client>>

Close(c) ==
    \/ CallClose(c) \/ Lock(c) \/ AlreadyClosed(c) \/ CloseListener(c)
    \/ GracefulStop(c) \/ Stopped(c) \/ CloseReturned(c)

-----------------------------------------------------------------------------
\* An open listener queues connections, served or not.
Dial(k) ==
    /\ client[k] = "idle"
    /\ client' = [client EXCEPT ![k] = IF listening THEN "dialled" ELSE "refused"]
    /\ UNCHANGED <<collector, closer>>

Accept(k) ==
    /\ client[k] = "dialled" /\ serving = "accepting"
    /\ client' = [client EXCEPT ![k] = "connected"]
    /\ UNCHANGED <<collector, closer>>

\* metricServiceServer.Export is called, for the first or another request.
Request(k) ==
    /\ client[k] \in {"connected", "answered"}
    /\ client' = [client EXCEPT ![k] = "handled"]
    /\ UNCHANGED <<collector, closer>>

Answer(k) ==
    /\ client[k] = "handled"
    /\ client' = [client EXCEPT ![k] = "answered"]
    /\ UNCHANGED <<collector, closer>>

\* The client ends its connection, or the stopping server does when it has
\* stopped accepting.
Disconnect(k) ==
    /\ client[k] \in {"connected", "answered"}
    /\ client' = [client EXCEPT ![k] = "gone"]
    /\ UNCHANGED <<collector, closer>>

Drain(k) == server = "stopping" /\ serving # "accepting" /\ Disconnect(k)

\* Everybody is done.
Finished ==
    /\ \A c \in Closers : closer[c] = "returned"
    /\ \A k \in Clients : client[k] \in {"refused", "gone"}
    /\ UNCHANGED vars

Next ==
    \/ Finished
    \/ Start \/ Serve \/ AcceptFails \/ ServeReturns
    \/ \E c \in Closers : Close(c)
    \/ \E k \in Clients : Dial(k) \/ Accept(k) \/ Request(k) \/ Answer(k) \/ Disconnect(k)

\* The Go scheduler runs every goroutine, Export returns, and a stopping server
\* ends idle connections although they might carry another request.
Fairness ==
    /\ WF_vars(Serve \/ AcceptFails \/ ServeReturns)
    /\ \A c \in Closers : WF_vars(AlreadyClosed(c) \/ CloseListener(c) \/ GracefulStop(c)
                                    \/ Stopped(c) \/ CloseReturned(c))
                          /\ SF_vars(Lock(c))
    /\ \A k \in Clients : WF_vars(Answer(k)) /\ SF_vars(Drain(k))

Spec == Init /\ [][Next]_vars /\ Fairness

-----------------------------------------------------------------------------
Inside(c) == closer[c] \in {"locked", "closing", "stopping"}

TypeOK ==
    /\ started \in BOOLEAN /\ listening \in BOOLEAN /\ closed \in BOOLEAN
    /\ serving \in {"none", "spawned", "accepting", "leaving", "returned"}
    /\ server \in {"new", "stopping", "stopped"}
    /\ mu \in Closers \cup {NoOne}
    /\ closer \in [Closers -> CloserStates]
    /\ client \in [Clients -> ClientStates]
    /\ \A c \in Closers : Inside(c) <=> mu = c

\* When any Close has returned, that of a second caller included, nobody is
\* connected or waits to be, no request is being handled, and nothing will be
\* accepted: a test may look at what was received (metrics.go:98-107).
ClosedIsQuiet ==
    (\E c \in Closers : closer[c] = "returned") =>
        /\ ~ listening
        /\ serving \notin {"accepting", "leaving"}
        /\ \A k \in Clients : ~ Connected(k) /\ client[k] # "dialled"

\* A request that is being handled is answered, whoever calls Close meanwhile.
HandledIsAnswered ==
    [][\A k \in Clients : client[k] = "handled" => client'[k] \in {"handled", "answered"}]_vars

\* Every Close returns: called before Start's goroutine runs, by two goroutines,
\* before any Start or while clients keep asking.
CloseReturns == \A c \in Closers : closer[c] = "calling" ~> closer[c] = "returned"
=============================================================================
