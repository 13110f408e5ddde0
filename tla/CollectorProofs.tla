--------------------------- MODULE CollectorProofs --------------------------
(***************************************************************************)
(* Collector is well typed, quiet once any Close has returned, and answers *)
(* what it handles, for any number of clients and callers of Close.        *)
(***************************************************************************)
EXTENDS Collector, TLAPS

\* Until somebody closes, nothing is being stopped; from then on nobody listens.
ClosedOK ==
    /\ ~ closed => server = "new" /\ \A c \in Closers : closer[c] \in {"idle", "calling", "locked"}
    /\ closed => ~ listening /\ \A k \in Clients : client[k] # "dialled"

\* While the server is not stopped one caller is stopping it, and holds the lock.
StoppingOK ==
    /\ \A c \in Closers : closer[c] = "closing" => server = "new"
    /\ \A c \in Closers : closer[c] = "stopping" => server = "stopping"
    /\ closed /\ server # "stopped" => \E c \in Closers : closer[c] \in {"closing", "stopping"}

\* A stopped server has no connections, and whoever is past the lock has seen it.
StoppedOK ==
    /\ server = "stopped" => closed /\ serving # "accepting" /\ \A k \in Clients : ~ Connected(k)
    /\ \A c \in Closers : closer[c] \in {"waiting", "returned"} => server = "stopped"
    /\ \A c \in Closers : closer[c] = "returned" => serving # "leaving"

IInv == TypeOK /\ ClosedOK /\ StoppingOK /\ StoppedOK

-----------------------------------------------------------------------------
LEMMA InitOK == ASSUME Init PROVE IInv
  BY CollectorAssumption
     DEF Init, IInv, TypeOK, ClosedOK, StoppingOK, StoppedOK, Inside, Connected, CloserStates, ClientStates

LEMMA ServingKeeps ==
  ASSUME IInv, Start \/ Serve \/ AcceptFails \/ ServeReturns
  PROVE  IInv'
  <1>1. CASE Start
    BY <1>1 DEF Start, IInv, TypeOK, ClosedOK, StoppingOK, StoppedOK, Inside, Connected
  <1>2. CASE Serve
    BY <1>2 DEF Serve, IInv, TypeOK, ClosedOK, StoppingOK, StoppedOK, Inside, Connected
  <1>3. CASE AcceptFails
    BY <1>3 DEF AcceptFails, IInv, TypeOK, ClosedOK, StoppingOK, StoppedOK, Inside, Connected
  <1>4. CASE ServeReturns
    BY <1>4 DEF ServeReturns, IInv, TypeOK, ClosedOK, StoppingOK, StoppedOK, Inside, Connected
  <1>. QED BY <1>1, <1>2, <1>3, <1>4

LEMMA CloseKeeps ==
  ASSUME IInv, NEW c \in Closers, Close(c)
  PROVE  IInv'
  <1>. USE DEF IInv
  <1>1. CASE CallClose(c)
    BY <1>1 DEF CallClose, collector, TypeOK, ClosedOK, StoppingOK, StoppedOK, Inside, Connected, CloserStates
  <1>2. CASE Lock(c)
    <2>t. closer' \in [Closers -> CloserStates]
      BY <1>2 DEF Lock, TypeOK, CloserStates
    <2>i. ASSUME NEW d \in Closers PROVE Inside(d)' <=> mu' = d
      <3>1. CASE d = c BY <1>2, <3>1 DEF Lock, TypeOK, Inside
      <3>2. CASE d # c
        <4>1. ~ Inside(d)
          BY <1>2, CollectorAssumption DEF Lock, TypeOK
        <4>2. closer'[d] = closer[d] /\ mu' # d BY <1>2, <3>2 DEF Lock, TypeOK
        <4>. QED BY <4>1, <4>2 DEF Inside
      <3>. QED BY <3>1, <3>2
    <2>1. TypeOK' BY <1>2, <2>t, <2>i DEF Lock, TypeOK
    <2>2. ClosedOK' BY <1>2 DEF Lock, TypeOK, ClosedOK, CloserStates
    <2>3. StoppingOK' BY <1>2 DEF Lock, TypeOK, StoppingOK, CloserStates
    <2>4. StoppedOK' BY <1>2 DEF Lock, TypeOK, StoppedOK, CloserStates, Connected
    <2>. QED BY <2>1, <2>2, <2>3, <2>4
  <1>3. CASE AlreadyClosed(c)
    <2>1. server = "stopped"
      BY <1>3 DEF AlreadyClosed, TypeOK, StoppingOK, Inside
    <2>t. closer' \in [Closers -> CloserStates]
      BY <1>3 DEF AlreadyClosed, TypeOK, CloserStates
    <2>i. ASSUME NEW d \in Closers PROVE Inside(d)' <=> mu' = d
      <3>1. mu' # d BY <1>3, CollectorAssumption DEF AlreadyClosed
      <3>2. CASE d = c BY <1>3, <3>1, <3>2 DEF AlreadyClosed, TypeOK, Inside
      <3>3. CASE d # c
        <4>1. mu = c BY <1>3 DEF AlreadyClosed, TypeOK, Inside
        <4>2. closer'[d] = closer[d] BY <1>3, <3>3 DEF AlreadyClosed, TypeOK
        <4>. QED BY <3>1, <3>3, <4>1, <4>2 DEF TypeOK, Inside
      <3>. QED BY <3>2, <3>3
    <2>2. TypeOK' BY <1>3, <2>t, <2>i DEF AlreadyClosed, TypeOK
    <2>3. ClosedOK' BY <1>3 DEF AlreadyClosed, TypeOK, ClosedOK, CloserStates
    <2>4. StoppingOK' BY <1>3, <2>1 DEF AlreadyClosed, TypeOK, StoppingOK, CloserStates
    <2>5. StoppedOK' BY <1>3, <2>1 DEF AlreadyClosed, TypeOK, StoppedOK, CloserStates, Connected
    <2>. QED BY <2>2, <2>3, <2>4, <2>5
  <1>4. CASE CloseListener(c)
    <2>1. server = "new" /\ \A d \in Closers : closer[d] \in {"idle", "calling", "locked"}
      BY <1>4 DEF CloseListener, ClosedOK
    <2>2. client' \in [Clients -> ClientStates] /\ \A k \in Clients : client'[k] # "dialled"
      BY <1>4 DEF CloseListener, TypeOK, ClientStates
    <2>3. TypeOK' BY <1>4, <2>2 DEF CloseListener, TypeOK, Inside, CloserStates
    <2>4. ClosedOK' BY <1>4, <2>2 DEF CloseListener, TypeOK, ClosedOK, CloserStates
    <2>5. StoppingOK' BY <1>4, <2>1 DEF CloseListener, TypeOK, StoppingOK, CloserStates
    <2>6. StoppedOK' BY <1>4, <2>1 DEF CloseListener, TypeOK, StoppedOK, CloserStates
    <2>. QED BY <2>3, <2>4, <2>5, <2>6
  <1>5. CASE GracefulStop(c)
    <2>1. server = "new" BY <1>5 DEF GracefulStop, StoppingOK
    <2>2. \A d \in Closers : closer[d] \in {"closing", "stopping"} => d = c
      BY <1>5 DEF GracefulStop, TypeOK, Inside
    <2>3. TypeOK' BY <1>5 DEF GracefulStop, TypeOK, Inside, CloserStates
    <2>4. closed BY <1>5 DEF GracefulStop, ClosedOK
    <2>5. ClosedOK' BY <1>5, <2>4 DEF GracefulStop, TypeOK, ClosedOK, CloserStates
    <2>6. StoppingOK' BY <1>5, <2>2 DEF GracefulStop, TypeOK, StoppingOK, CloserStates
    <2>7. StoppedOK' BY <1>5, <2>1 DEF GracefulStop, TypeOK, StoppedOK, CloserStates
    <2>. QED BY <2>3, <2>5, <2>6, <2>7
  <1>6. CASE Stopped(c)
    <2>1. closed BY <1>6 DEF Stopped, ClosedOK
    <2>2. \A d \in Closers : closer[d] \in {"closing", "stopping"} => d = c
      BY <1>6 DEF Stopped, TypeOK, Inside
    <2>t. closer' \in [Closers -> CloserStates]
      BY <1>6 DEF Stopped, TypeOK, CloserStates
    <2>i. ASSUME NEW d \in Closers PROVE Inside(d)' <=> mu' = d
      <3>1. mu' # d BY <1>6, CollectorAssumption DEF Stopped
      <3>2. CASE d = c BY <1>6, <3>1, <3>2 DEF Stopped, TypeOK, Inside
      <3>3. CASE d # c
        <4>1. mu = c BY <1>6 DEF Stopped, TypeOK, Inside
        <4>2. closer'[d] = closer[d] BY <1>6, <3>3 DEF Stopped, TypeOK
        <4>. QED BY <3>1, <3>3, <4>1, <4>2 DEF TypeOK, Inside
      <3>. QED BY <3>2, <3>3
    <2>3. TypeOK' BY <1>6, <2>t, <2>i DEF Stopped, TypeOK
    <2>4. ClosedOK' BY <1>6, <2>1 DEF Stopped, TypeOK, ClosedOK, CloserStates
    <2>5. StoppingOK' BY <1>6, <2>2 DEF Stopped, TypeOK, StoppingOK, CloserStates
    <2>6. StoppedOK' BY <1>6, <2>1 DEF Stopped, TypeOK, StoppedOK, CloserStates, Connected
    <2>. QED BY <2>3, <2>4, <2>5, <2>6
  <1>7. CASE CloseReturned(c)
    <2>1. TypeOK' BY <1>7 DEF CloseReturned, collector, TypeOK, Inside, CloserStates
    <2>2. ClosedOK' BY <1>7 DEF CloseReturned, collector, TypeOK, ClosedOK, CloserStates
    <2>3. StoppingOK' BY <1>7 DEF CloseReturned, collector, TypeOK, StoppingOK, CloserStates
    <2>4. StoppedOK' BY <1>7 DEF CloseReturned, collector, TypeOK, StoppedOK, CloserStates, Connected
    <2>. QED BY <2>1, <2>2, <2>3, <2>4
  <1>. QED BY <1>1, <1>2, <1>3, <1>4, <1>5, <1>6, <1>7 DEF Close

LEMMA ClientKeeps ==
  ASSUME IInv, NEW k \in Clients,
         Dial(k) \/ Accept(k) \/ Request(k) \/ Answer(k) \/ Disconnect(k)
  PROVE  IInv'
  <1>. USE DEF IInv, collector
  <1>1. client' \in [Clients -> ClientStates] /\ \A j \in Clients \ {k} : client'[j] = client[j]
    BY DEF Dial, Accept, Request, Answer, Disconnect, TypeOK, ClientStates
  <1>2. client'[k] = "dialled" => listening
    BY DEF Dial, Accept, Request, Answer, Disconnect, TypeOK, ClientStates
  <1>3. Connected(k)' => Connected(k) \/ serving = "accepting"
    BY DEF Dial, Accept, Request, Answer, Disconnect, TypeOK, ClientStates, Connected
  <1>4. UNCHANGED <<collector, closer>>
    BY DEF Dial, Accept, Request, Answer, Disconnect
  <1>5. TypeOK' BY <1>1, <1>4 DEF TypeOK, Inside
  <1>6. ClosedOK' BY <1>1, <1>2, <1>4 DEF ClosedOK
  <1>7. StoppingOK' BY <1>4 DEF StoppingOK
  <1>8. StoppedOK' BY <1>1, <1>3, <1>4 DEF StoppedOK, Connected
  <1>. QED BY <1>5, <1>6, <1>7, <1>8

LEMMA StepKeeps == ASSUME IInv, [Next]_vars PROVE IInv'
  <1>1. CASE UNCHANGED vars
    BY <1>1 DEF vars, IInv, TypeOK, ClosedOK, StoppingOK, StoppedOK, Inside, Connected
  <1>2. CASE Next
    BY <1>1, <1>2, ServingKeeps, CloseKeeps, ClientKeeps DEF Next, Finished
  <1>. QED BY <1>1, <1>2

LEMMA Invariant == Spec => []IInv
  <1>1. Init => IInv BY InitOK
  <1>2. IInv /\ [Next]_vars => IInv' BY StepKeeps
  <1>. QED BY <1>1, <1>2, PTL DEF Spec

\* Every reachable state is well typed, and at most one caller of Close is
\* between its Lock and its Unlock.
THEOREM TypeCorrect == Spec => []TypeOK
  <1>1. IInv => TypeOK BY DEF IInv
  <1>. QED BY <1>1, Invariant, PTL

\* When any Close has returned nothing is served, for any number of clients
\* and of goroutines that call Close, whether Start's goroutine runs before,
\* between or after their steps.
THEOREM Quiet == Spec => []ClosedIsQuiet
  <1>1. IInv => ClosedIsQuiet
    BY DEF IInv, ClosedIsQuiet, ClosedOK, StoppedOK
  <1>. QED BY <1>1, Invariant, PTL

\* No step of anybody takes a request away from its handler.
THEOREM Answered == Spec => HandledIsAnswered
  <1>1. ASSUME IInv, [Next]_vars, NEW k \in Clients, client[k] = "handled"
        PROVE  client'[k] \in {"handled", "answered"}
    <2>1. CASE UNCHANGED client BY <2>1, <1>1
    <2>2. CASE \E c \in Closers : CloseListener(c)
      BY <2>2, <1>1 DEF CloseListener, IInv, TypeOK
    <2>3. CASE \E j \in Clients : Dial(j) \/ Accept(j) \/ Request(j) \/ Answer(j) \/ Disconnect(j)
      BY <2>3, <1>1 DEF Dial, Accept, Request, Answer, Disconnect, IInv, TypeOK
    <2>. QED
      BY <1>1, <2>1, <2>2, <2>3
         DEF Next, vars, collector, Finished, Start, Serve, AcceptFails, ServeReturns, Close, CallClose,
             Lock, AlreadyClosed, GracefulStop, Stopped, CloseReturned
  <1>2. IInv /\ [Next]_vars
            => [\A k \in Clients : client[k] = "handled" => client'[k] \in {"handled", "answered"}]_vars
    BY <1>1
  <1>. QED BY <1>2, Invariant, PTL DEF Spec, HandledIsAnswered
=============================================================================
