--------------------------- MODULE DownloadProofs ---------------------------
(***************************************************************************)
(* A download puts every piece in its place and succeeds only with the     *)
(* whole object, for any number of parts, pieces, workers and retries.     *)
(***************************************************************************)
EXTENDS Download, DataLemmas

\* What a goroutine is at belongs to a part that was handed out; what it has
\* written of it is in the buffer, and the room it has made is that of its piece.
AtWork ==
    \A g \in Goroutines : step[g] # "idle" =>
        /\ part[g] \in 1..(nextPart - 1)
        /\ step[g] = "get" => cur[g] = 0
        /\ step[g] = "write" => cur[g] = 0 \/ Start[part[g]] + cur[g] <= Len(buf)
        /\ step[g] = "copy" =>
              cur[g] < Pieces[part[g]] /\ room[g] = Piece(g) /\ room[g] <= Len(buf)

\* Room that is not filled is being filled.
Filling ==
    /\ InPlace
    /\ Len(buf) <= Size
    /\ \A i \in Orphans : \E g \in Goroutines : step[g] = "copy" /\ room[g] = i

\* Without an error every part that was handed out is in the buffer or at work.
Covered ==
    ~ failed =>
        \A p \in 1..(nextPart - 1) :
            \/ Start[p + 1] <= Len(buf)
            \/ \E g \in Goroutines : step[g] # "idle" /\ part[g] = p

\* After a success nobody is at work.
AtRest ==
    result = "ok" => nextPart \notin Parts /\ \A g \in Goroutines : step[g] = "idle"

Typed == TypeOK /\ cur \in [Goroutines -> Nat]

IInv == Typed /\ AtWork /\ Filling /\ Covered /\ AtRest /\ WholeOnOk

-----------------------------------------------------------------------------
(* The places of parts and pieces *)

LEMMA PiecesType ==
  /\ Len(Pieces) \in Nat /\ Len(Pieces) >= 1
  /\ Parts = 1..Len(Pieces)
  /\ \A p \in Parts : Pieces[p] \in Nat /\ Pieces[p] >= 1
  /\ \A p \in 1..(Len(Pieces) + 1) : Start[p] \in Nat
  /\ \A p \in Parts : Start[p + 1] = Start[p] + Pieces[p]
  /\ Size \in Nat /\ MaxRetries \in Nat
  <1>1. Pieces \in Seq(Nat \ {0}) /\ Pieces # <<>>
    BY DownloadAssumption
  <1>2. Len(Pieces) \in Nat /\ Parts = 1..Len(Pieces)
    BY <1>1, LenProperties DEF Parts
  <1>3. Len(Pieces) # 0
    BY <1>1, EmptySeq
  <1>4. \A p \in Parts : Pieces[p] \in Nat \ {0}
    BY <1>1, <1>2, ElementOfSeq
  <1>5. \A p \in 1..(Len(Pieces) + 1) : Start[p] \in Nat
    BY <1>2, DownloadAssumption
  <1>6. Size \in Nat
    BY <1>2, <1>5 DEF Size
  <1>. QED BY <1>2, <1>3, <1>4, <1>5, <1>6, DownloadAssumption DEF Parts

\* No part starts after the end of the object: the last that did would be
\* followed by another.
LEMMA StartInObject == \A p \in 1..(Len(Pieces) + 1) : Start[p] <= Size
  <1>. DEFINE n == Len(Pieces) + 1
              T == {k \in Nat : k < n /\ Start[n - k] > Size}
  <1>1. n \in Nat /\ \A p \in 1..n : Start[p] \in Nat
    BY PiecesType
  <1>2. T = {}
    <2>. SUFFICES ASSUME T # {} PROVE FALSE
      OBVIOUS
    <2>1. Min(T) \in T /\ \A y \in T : Min(T) <= y
      BY MinOfNats
    <2>. DEFINE x == Min(T)
                p == n - x
    <2>2. x \in Nat /\ x < n /\ Start[p] > Size
      BY <2>1
    <2>. HIDE DEF x
    <2>3. x # 0
      BY <2>2, PiecesType DEF Size
    <2>4. p \in Parts /\ p + 1 = n - (x - 1) /\ p + 1 \in 1..n /\ p \in 1..n
      BY <1>1, <2>2, <2>3, PiecesType
    <2>. HIDE DEF p
    <2>5. Start[p + 1] = Start[p] + Pieces[p] /\ Pieces[p] \in Nat
      BY <2>4, PiecesType
    <2>6. Start[p] \in Nat /\ Start[p + 1] \in Nat /\ Size \in Nat
      BY <1>1, <2>4, PiecesType
    <2>7. Start[p + 1] > Size
      BY <2>2, <2>5, <2>6
    <2>8. Start[n - (x - 1)] > Size
      BY <2>4, <2>7
    <2>9. x - 1 \in T
      BY <1>1, <2>2, <2>3, <2>8
    <2>. QED BY <2>1, <2>2, <2>9 DEF x
  <1>. QED
    <2>. SUFFICES ASSUME NEW p \in 1..n PROVE Start[p] <= Size
      OBVIOUS
    <2>1. n - p \in Nat /\ n - p < n /\ n - (n - p) = p
      BY <1>1
    <2>2. n - p \notin T
      BY <1>2
    <2>3. ~ (Start[p] > Size)
      BY <2>1, <2>2
    <2>. QED BY <1>1, <2>3, PiecesType

\* The piece a goroutine is about to write is one of its part and of the object.
LEMMA PieceInObject ==
  ASSUME Typed, NEW g \in Goroutines, part[g] \in Parts, cur[g] < Pieces[part[g]]
  PROVE  /\ Piece(g) \in 1..Size
         /\ Piece(g) = Start[part[g]] + cur[g] + 1
  <1>1. cur[g] \in Nat /\ Start[part[g]] \in Nat /\ Pieces[part[g]] \in Nat
    BY PiecesType DEF Typed
  <1>2. part[g] + 1 \in 1..(Len(Pieces) + 1)
    BY PiecesType
  <1>3. Start[part[g] + 1] <= Size
    BY <1>2, StartInObject
  <1>4. Start[part[g] + 1] = Start[part[g]] + Pieces[part[g]]
    BY PiecesType
  <1>. QED BY <1>1, <1>3, <1>4, PiecesType, SMTT(40) DEF Piece

-----------------------------------------------------------------------------
LEMMA InitOK == ASSUME Init PROVE IInv
  <1>1. Typed
    <2>1. buf \in Seq((1..Size) \cup {Pending, Lost})
      BY EmptySeq DEF Init
    <2>2. part \in [Goroutines -> 0..Len(Pieces)] /\ nextPart \in 2..(Len(Pieces) + 1)
      BY PiecesType DEF Init
    <2>3. \A g \in Goroutines : part[g] # 0 => cur[g] \in 0..Pieces[part[g]]
      BY PiecesType DEF Init
    <2>4. tries \in [Goroutines -> 0..MaxRetries] /\ room \in [Goroutines -> 0..Size]
      BY PiecesType DEF Init
    <2>5. /\ step \in [Goroutines -> {"idle", "get", "write", "copy"}]
          /\ cur \in [Goroutines -> Nat]
      BY DEF Init
    <2>. QED BY <2>1, <2>2, <2>3, <2>4, <2>5 DEF Init, Typed, TypeOK
  <1>2. Len(buf) = 0 /\ DOMAIN buf = {}
    BY DEF Init
  <1>3. AtWork
    BY DEF Init, AtWork, Goroutines
  <1>4. Filling
    BY <1>2, PiecesType DEF Filling, InPlace, Orphans
  <1>5. Covered
    <2>1. Caller \in Goroutines /\ step[Caller] # "idle" /\ part[Caller] = 1
      BY DEF Init, Goroutines
    <2>2. nextPart - 1 = 1
      BY DEF Init
    <2>. QED BY <2>1, <2>2 DEF Covered
  <1>. QED BY <1>1, <1>3, <1>4, <1>5 DEF Init, IInv, AtRest, WholeOnOk

\* A step of one goroutine that leaves the buffer alone and neither begins nor
\* ends a copy disturbs no copy.
LEMMA StepBesideBuffer ==
  ASSUME IInv, NEW g \in Goroutines, step[g] # "copy",
         UNCHANGED <<buf, room>>,
         \A h \in Goroutines \ {g} : step'[h] = step[h]
  PROVE  Filling'
  <1>1. \A h \in Goroutines : step[h] = "copy" => step'[h] = "copy"
    OBVIOUS
  <1>. QED BY <1>1 DEF IInv, Filling, InPlace, Orphans

LEMMA TakePartKeeps ==
  ASSUME IInv, NEW w \in Workers, TakePart(w)
  PROVE  IInv'
  <1>. USE DEF IInv
  <1>1. w \in Goroutines /\ nextPart \in 1..Len(Pieces) /\ result # "ok"
    BY PiecesType DEF TakePart, Goroutines, AtRest
  <1>2. /\ part' \in [Goroutines -> 0..Len(Pieces)] /\ part'[w] = nextPart
        /\ cur' \in [Goroutines -> Nat] /\ cur'[w] = 0
        /\ step' \in [Goroutines -> {"idle", "get", "write", "copy"}] /\ step'[w] = "get"
        /\ tries' \in [Goroutines -> 0..MaxRetries]
    BY <1>1, PiecesType, SMTT(40) DEF TakePart, Typed, TypeOK
  <1>3. \A h \in Goroutines \ {w} :
            step'[h] = step[h] /\ part'[h] = part[h] /\ cur'[h] = cur[h] /\ Piece(h)' = Piece(h)
    BY <1>1 DEF TakePart, Typed, TypeOK, Piece
  <1>4. Typed'
    <2>1. \A h \in Goroutines : part'[h] # 0 => cur'[h] \in 0..Pieces[part'[h]]
      <3>1. cur'[w] \in 0..Pieces[part'[w]]
        BY <1>1, <1>2, PiecesType
      <3>2. \A h \in Goroutines : part[h] # 0 => cur[h] \in 0..Pieces[part[h]]
        BY DEF Typed, TypeOK
      <3>. QED BY <1>3, <3>1, <3>2
    <2>2. nextPart' \in 2..(Len(Pieces) + 1)
      BY <1>1, PiecesType DEF TakePart, Typed, TypeOK
    <2>. QED BY <1>2, <2>1, <2>2 DEF TakePart, Typed, TypeOK
  <1>5. AtWork'
    <2>. SUFFICES ASSUME NEW h \in Goroutines, step'[h] # "idle"
                  PROVE  /\ part'[h] \in 1..(nextPart' - 1)
                         /\ step'[h] = "get" => cur'[h] = 0
                         /\ step'[h] = "write" =>
                               cur'[h] = 0 \/ Start[part'[h]] + cur'[h] <= Len(buf')
                         /\ step'[h] = "copy" =>
                               /\ cur'[h] < Pieces[part'[h]]
                               /\ room'[h] = Piece(h)' /\ room'[h] <= Len(buf')
      BY DEF AtWork
    <2>1. nextPart' = nextPart + 1 /\ nextPart \in Nat /\ UNCHANGED <<buf, room>>
      BY <1>1 DEF TakePart
    <2>2. CASE h = w
      BY <1>1, <1>2, <2>1, <2>2
    <2>3. CASE h # w
      BY <1>3, <2>1, <2>3 DEF AtWork
    <2>. QED BY <2>2, <2>3
  <1>6. Filling'
    BY <1>1, <1>3, StepBesideBuffer DEF TakePart
  <1>7. Covered'
    <2>. SUFFICES ASSUME ~ failed, NEW p \in 1..nextPart
                  PROVE  \/ Start[p + 1] <= Len(buf)
                         \/ \E h \in Goroutines : step'[h] # "idle" /\ part'[h] = p
      BY <1>1 DEF TakePart, Covered
    <2>1. CASE p = nextPart
      BY <1>1, <1>2, <2>1
    <2>2. CASE p # nextPart
      <3>1. p \in 1..(nextPart - 1)
        BY <1>1, <2>2
      <3>2. \A h \in Goroutines : step[h] # "idle" => h # w
        BY DEF TakePart
      <3>. QED BY <1>3, <3>1, <3>2 DEF Covered
    <2>. QED BY <2>1, <2>2
  <1>. QED BY <1>1, <1>4, <1>5, <1>6, <1>7 DEF TakePart, AtRest, WholeOnOk

\* A goroutine that starts a part again, ends it or gives it up: it is "get"
\* with nothing written, or "idle" and the part in the buffer or an error set.
LEMMA PartEndsOrRestarts ==
  ASSUME IInv, NEW g \in Goroutines, step[g] \in {"get", "write"},
         UNCHANGED <<buf, part, room, nextPart, result>>,
         tries' \in [Goroutines -> 0..MaxRetries],
         cur' \in [Goroutines -> Nat], cur'[g] \in {0, cur[g]},
         NEW s \in {"idle", "get", "write"}, step' = [step EXCEPT ![g] = s],
         \A h \in Goroutines \ {g} : cur'[h] = cur[h],
         s # "idle" => cur'[g] = 0 /\ failed' = failed,
         s = "idle" => failed' \/ (failed' = failed /\ Start[part[g] + 1] <= Len(buf)),
         failed' \in BOOLEAN, failed => failed'
  PROVE  IInv'
  <1>. USE DEF IInv
  <1>1. /\ step' \in [Goroutines -> {"idle", "get", "write", "copy"}] /\ step'[g] = s
        /\ \A h \in Goroutines \ {g} : step'[h] = step[h]
    BY DEF Typed, TypeOK
  <1>2. part[g] \in 1..(nextPart - 1) /\ result # "ok"
    BY DEF AtWork, AtRest
  <1>3. Typed'
    <2>1. \A h \in Goroutines : part'[h] # 0 => cur'[h] \in 0..Pieces[part'[h]]
      <3>. SUFFICES ASSUME NEW h \in Goroutines, part[h] # 0
                    PROVE  cur'[h] \in 0..Pieces[part[h]]
        OBVIOUS
      <3>1. cur[h] \in 0..Pieces[part[h]] /\ part[h] \in 0..Len(Pieces)
        BY DEF Typed, TypeOK
      <3>2. cur'[h] \in {0, cur[h]}
        OBVIOUS
      <3>. QED BY <3>1, <3>2, PiecesType
    <2>. QED BY <1>1, <2>1 DEF Typed, TypeOK
  <1>4. AtWork'
    <2>1. \A h \in Goroutines \ {g} : Piece(h)' = Piece(h)
      BY DEF Piece
    <2>. QED BY <1>1, <1>2, <2>1 DEF AtWork
  <1>5. Filling'
    BY <1>1, StepBesideBuffer
  <1>6. Covered'
    <2>. SUFFICES ASSUME ~ failed', NEW p \in 1..(nextPart - 1)
                  PROVE  \/ Start[p + 1] <= Len(buf)
                         \/ \E h \in Goroutines : step'[h] # "idle" /\ part[h] = p
      BY DEF Covered
    <2>1. \/ Start[p + 1] <= Len(buf)
          \/ \E h \in Goroutines : step[h] # "idle" /\ part[h] = p
      BY DEF Covered
    <2>. QED BY <1>1, <2>1
  <1>. QED BY <1>2, <1>3, <1>4, <1>5, <1>6 DEF AtRest, WholeOnOk

LEMMA RetryKeeps ==
  ASSUME IInv, NEW g \in Goroutines, step[g] = "write", Retry(g),
         UNCHANGED <<buf, part, room, nextPart, result>>
  PROVE  IInv'
  <1>1. CASE tries[g] < MaxRetries
    <2>1. tries' \in [Goroutines -> 0..MaxRetries]
      <3>1. tries \in [Goroutines -> 0..MaxRetries] /\ MaxRetries \in Nat
        BY PiecesType DEF IInv, Typed, TypeOK
      <3>2. tries' = [tries EXCEPT ![g] = @ + 1]
        BY <1>1 DEF Retry
      <3>3. tries[g] + 1 \in 0..MaxRetries
        BY <1>1, <3>1
      <3>. QED BY <3>1, <3>2, <3>3
    <2>2. /\ cur' \in [Goroutines -> Nat] /\ cur'[g] = 0
          /\ \A h \in Goroutines \ {g} : cur'[h] = cur[h]
      BY <1>1 DEF Retry, IInv, Typed
    <2>3. step' = [step EXCEPT ![g] = "get"] /\ failed' = failed /\ failed \in BOOLEAN
      BY <1>1 DEF Retry, IInv, Typed, TypeOK
    <2>. QED BY <2>1, <2>2, <2>3, PartEndsOrRestarts
  <1>2. CASE ~ (tries[g] < MaxRetries)
    <2>1. step' = [step EXCEPT ![g] = "idle"] /\ failed' = TRUE /\ UNCHANGED <<tries, cur>>
      BY <1>2 DEF Retry
    <2>2. tries' \in [Goroutines -> 0..MaxRetries] /\ cur' \in [Goroutines -> Nat]
      BY <2>1 DEF IInv, Typed, TypeOK
    <2>. QED BY <2>1, <2>2, PartEndsOrRestarts
  <1>. QED BY <1>1, <1>2

LEMMA PartKeeps ==
  ASSUME IInv, NEW g \in Goroutines,
         GetObject(g) \/ GetObjectFails(g) \/ EndPart(g)
  PROVE  IInv'
  <1>1. tries \in [Goroutines -> 0..MaxRetries] /\ cur \in [Goroutines -> Nat] /\ failed \in BOOLEAN
    BY DEF IInv, Typed, TypeOK
  <1>2. CASE GetObject(g)
    <2>1. cur[g] = 0
      BY <1>2 DEF GetObject, IInv, AtWork
    <2>2. /\ step' = [step EXCEPT ![g] = "write"] /\ step[g] = "get"
          /\ UNCHANGED <<buf, part, cur, tries, room, nextPart, failed, result>>
      BY <1>2 DEF GetObject
    <2>. QED BY <1>1, <2>1, <2>2, PartEndsOrRestarts
  <1>3. CASE GetObjectFails(g)
    <2>1. /\ step' = [step EXCEPT ![g] = "idle"] /\ step[g] = "get" /\ failed' = TRUE
          /\ UNCHANGED <<buf, part, cur, tries, room, nextPart, result>>
      BY <1>3 DEF GetObjectFails
    <2>. QED BY <1>1, <2>1, PartEndsOrRestarts
  <1>4. CASE EndPart(g)
    <2>1. /\ step' = [step EXCEPT ![g] = "idle"] /\ step[g] = "write" /\ cur[g] = Pieces[part[g]]
          /\ UNCHANGED <<buf, part, cur, tries, room, nextPart, failed, result>>
      BY <1>4 DEF EndPart
    <2>2. part[g] \in Parts /\ (cur[g] = 0 \/ Start[part[g]] + cur[g] <= Len(buf))
      BY <2>1, PiecesType, SMTT(40) DEF IInv, AtWork, Typed, TypeOK
    <2>3. Start[part[g] + 1] <= Len(buf)
      BY <2>1, <2>2, PiecesType
    <2>. QED BY <1>1, <2>1, <2>3, PartEndsOrRestarts
  <1>. QED BY <1>2, <1>3, <1>4

-----------------------------------------------------------------------------
(* The buffer *)

\* Making room appends one unfilled piece, and loses at most unfilled ones.
LEMMA ExtendsBuffer ==
  ASSUME IInv, NEW g \in Goroutines, WriteAtExtends(g)
  PROVE  /\ buf' \in Seq((1..Size) \cup {Pending, Lost})
         /\ Len(buf) \in Nat /\ Len(buf') = Len(buf) + 1
         /\ DOMAIN buf = 1..Len(buf) /\ DOMAIN buf' = 1..(Len(buf) + 1)
         /\ buf'[Len(buf) + 1] = Pending
         /\ \A i \in DOMAIN buf : buf'[i] = buf[i] \/ buf'[i] = Lost
  <1>. DEFINE P == (1..Size) \cup {Pending, Lost}
  <1>1. buf \in Seq(P)
    BY DEF IInv, Typed, TypeOK
  <1>2. DOMAIN buf = 1..Len(buf) /\ Len(buf) \in Nat /\ \A i \in DOMAIN buf : buf[i] \in P
    BY <1>1, LenProperties, ElementOfSeq
  <1>3. PICK torn \in SUBSET Orphans :
            buf' = Append([i \in DOMAIN buf |-> IF i \in torn THEN Lost ELSE buf[i]], Pending)
    BY DEF WriteAtExtends
  <1>. DEFINE old == [i \in 1..Len(buf) |-> IF i \in torn THEN Lost ELSE buf[i]]
  <1>4. old \in [1..Len(buf) -> P] /\ buf' = Append(old, Pending)
    BY <1>2, <1>3
  <1>5. old \in Seq(P) /\ Len(old) = Len(buf)
    BY <1>2, <1>4
  <1>6. \A i \in DOMAIN buf : old[i] = buf[i] \/ old[i] = Lost
    BY <1>2
  <1>. HIDE DEF old, P
  <1>7. Pending \in P
    BY DEF P
  <1>8. /\ Append(old, Pending) \in Seq(P)
        /\ Len(Append(old, Pending)) = Len(old) + 1
        /\ \A i \in 1..Len(old) : Append(old, Pending)[i] = old[i]
        /\ Append(old, Pending)[Len(old) + 1] = Pending
    BY <1>5, <1>7, AppendProperties
  <1>9. DOMAIN buf' = 1..(Len(buf) + 1)
    BY <1>2, <1>4, <1>5, <1>8, LenProperties
  <1>. QED BY <1>2, <1>4, <1>5, <1>6, <1>8, <1>9 DEF P

LEMMA ExtendsKeeps ==
  ASSUME IInv, NEW g \in Goroutines, WriteAtExtends(g)
  PROVE  IInv'
  <1>. USE DEF IInv
  <1>1. /\ step[g] = "write" /\ cur[g] < Pieces[part[g]] /\ OffsetOK(g)
        /\ room' = [room EXCEPT ![g] = Len(buf) + 1]
        /\ step' = [step EXCEPT ![g] = "copy"]
        /\ UNCHANGED <<part, cur, tries, nextPart, failed, result>>
    BY DEF WriteAtExtends
  <1>2. part[g] \in Parts /\ result # "ok"
    BY <1>1, PiecesType DEF AtWork, AtRest, Typed, TypeOK
  <1>3. Piece(g) \in 1..Size /\ Piece(g) = Len(buf) + 1
    BY <1>1, <1>2, PieceInObject, ExtendsBuffer, PiecesType DEF OffsetOK
  <1>4. /\ \A h \in Goroutines : Piece(h)' = Piece(h)
        /\ step'[g] = "copy" /\ room'[g] = Len(buf) + 1
        /\ \A h \in Goroutines \ {g} : step'[h] = step[h] /\ room'[h] = room[h]
    BY <1>1 DEF Typed, TypeOK, Piece
  <1>5. Typed'
    <2>1. room' \in [Goroutines -> 0..Size]
      BY <1>1, <1>3 DEF Typed, TypeOK
    <2>2. step' \in [Goroutines -> {"idle", "get", "write", "copy"}]
      BY <1>1 DEF Typed, TypeOK
    <2>. QED BY <1>1, <2>1, <2>2, ExtendsBuffer DEF Typed, TypeOK
  <1>6. AtWork'
    <2>. SUFFICES ASSUME NEW h \in Goroutines, step'[h] # "idle"
                  PROVE  /\ part[h] \in 1..(nextPart - 1)
                         /\ step'[h] = "get" => cur[h] = 0
                         /\ step'[h] = "write" =>
                               cur[h] = 0 \/ Start[part[h]] + cur[h] <= Len(buf')
                         /\ step'[h] = "copy" =>
                               /\ cur[h] < Pieces[part[h]]
                               /\ room'[h] = Piece(h) /\ room'[h] <= Len(buf')
      BY <1>1, <1>4 DEF AtWork
    <2>1. Len(buf') = Len(buf) + 1 /\ Len(buf) \in Nat
      BY ExtendsBuffer
    <2>2. CASE h = g
      BY <1>1, <1>3, <1>4, <2>1, <2>2 DEF AtWork
    <2>3. CASE h # g
      <3>1. step[h] # "idle" /\ step'[h] = step[h] /\ room'[h] = room[h]
        BY <1>4, <2>3
      <3>2. cur[h] \in Nat /\ room[h] \in Nat /\ part[h] \in 1..Len(Pieces)
        BY <3>1, PiecesType DEF AtWork, Typed, TypeOK
      <3>3. Start[part[h]] \in Nat
        BY <3>2, PiecesType
      <3>. QED BY <2>1, <3>1, <3>2, <3>3 DEF AtWork
    <2>. QED BY <2>2, <2>3
  <1>7. Filling'
    <2>1. InPlace'
      BY ExtendsBuffer DEF Filling, InPlace
    <2>2. Len(buf') <= Size
      BY <1>3, ExtendsBuffer, PiecesType
    <2>3. ASSUME NEW i \in DOMAIN buf', buf'[i] = Pending
          PROVE  \E h \in Goroutines : step'[h] = "copy" /\ room'[h] = i
      <3>1. CASE i = Len(buf) + 1
        BY <1>4, <3>1
      <3>2. CASE i # Len(buf) + 1
        <4>1. i \in Orphans
          BY <2>3, <3>2, ExtendsBuffer, DownloadAssumption DEF Orphans
        <4>2. PICK h \in Goroutines : step[h] = "copy" /\ room[h] = i
          BY <4>1 DEF Filling
        <4>. QED BY <1>1, <1>4, <4>2
      <3>. QED BY <3>1, <3>2
    <2>. QED BY <2>1, <2>2, <2>3 DEF Filling, Orphans
  <1>8. Covered'
    <2>. SUFFICES ASSUME ~ failed, NEW p \in 1..(nextPart - 1)
                  PROVE  \/ Start[p + 1] <= Len(buf')
                         \/ \E h \in Goroutines : step'[h] # "idle" /\ part[h] = p
      BY <1>1 DEF Covered
    <2>1. Len(buf') = Len(buf) + 1 /\ Len(buf) \in Nat
      BY ExtendsBuffer
    <2>2. Start[p + 1] \in Nat
      <3>1. p + 1 \in 1..(Len(Pieces) + 1)
        BY PiecesType DEF Typed, TypeOK
      <3>. QED BY <3>1, PiecesType
    <2>3. \A h \in Goroutines : step[h] # "idle" => step'[h] # "idle"
      BY <1>1, <1>4
    <2>. QED BY <2>1, <2>2, <2>3 DEF Covered
  <1>. QED BY <1>1, <1>2, <1>5, <1>6, <1>7, <1>8 DEF AtRest, WholeOnOk

LEMMA CopiesKeeps ==
  ASSUME IInv, NEW g \in Goroutines, WriteAtCopies(g)
  PROVE  IInv'
  <1>. USE DEF IInv
  <1>. DEFINE P == (1..Size) \cup {Pending, Lost}
              r == room[g]
  <1>1. /\ step[g] = "copy"
        /\ buf' = [buf EXCEPT ![r] = IF @ = Pending THEN Piece(g) ELSE @]
        /\ cur' = [cur EXCEPT ![g] = @ + 1]
        /\ step' = [step EXCEPT ![g] = "write"]
        /\ UNCHANGED <<part, tries, room, nextPart, failed, result>>
    BY DEF WriteAtCopies
  <1>2. /\ part[g] \in 1..(nextPart - 1) /\ part[g] \in Parts
        /\ cur[g] \in Nat /\ cur[g] < Pieces[part[g]]
        /\ r = Piece(g) /\ r <= Len(buf) /\ result # "ok"
    BY <1>1, PiecesType DEF AtWork, AtRest, Typed, TypeOK
  <1>3. Piece(g) \in 1..Size /\ Piece(g) = Start[part[g]] + cur[g] + 1
    BY <1>2, PieceInObject
  <1>4. buf \in Seq(P) /\ DOMAIN buf = 1..Len(buf) /\ Len(buf) \in Nat
    BY LenProperties DEF Typed, TypeOK
  <1>5. r \in DOMAIN buf /\ r \in 1..Len(buf) /\ buf[r] \in {r, Pending, Lost}
    BY <1>2, <1>3, <1>4, PiecesType DEF Filling, InPlace
  <1>. DEFINE new == IF buf[r] = Pending THEN Piece(g) ELSE buf[r]
  <1>6. new \in P /\ new # Pending /\ new \in {r, Lost}
    BY <1>2, <1>3, <1>5, PiecesType, DownloadAssumption
  <1>7. /\ buf' \in Seq(P) /\ Len(buf') = Len(buf) /\ DOMAIN buf' = DOMAIN buf
        /\ \A i \in DOMAIN buf : buf'[i] = IF i = r THEN new ELSE buf[i]
    <2>1. buf' = [buf EXCEPT ![r] = new]
      BY <1>1, <1>5
    <2>. HIDE DEF new, r, P
    <2>. QED BY <1>4, <1>5, <1>6, <2>1, ExceptSeq, LenProperties
  <1>. HIDE DEF new, r, P
  <1>8. /\ step'[g] = "write" /\ cur'[g] = cur[g] + 1
        /\ \A h \in Goroutines \ {g} :
              step'[h] = step[h] /\ cur'[h] = cur[h] /\ Piece(h)' = Piece(h)
    BY <1>1 DEF Typed, TypeOK, Piece
  <1>9. Typed'
    <2>1. cur' \in [Goroutines -> Nat]
      BY <1>1, <1>2 DEF Typed
    <2>2. step' \in [Goroutines -> {"idle", "get", "write", "copy"}]
      BY <1>1 DEF Typed, TypeOK
    <2>3. ASSUME NEW h \in Goroutines, part'[h] # 0
          PROVE  cur'[h] \in 0..Pieces[part'[h]]
      <3>1. cur'[g] \in 0..Pieces[part[g]]
        BY <1>2, <1>8, PiecesType
      <3>2. part'[h] = part[h] /\ cur[h] \in 0..Pieces[part[h]]
        BY <1>1, <2>3 DEF Typed, TypeOK
      <3>. QED BY <1>8, <3>1, <3>2
    <2>. QED BY <1>1, <1>7, <2>1, <2>2, <2>3 DEF Typed, TypeOK, P
  <1>10. AtWork'
    <2>. SUFFICES ASSUME NEW h \in Goroutines, step'[h] # "idle"
                  PROVE  /\ part[h] \in 1..(nextPart - 1)
                         /\ step'[h] = "get" => cur'[h] = 0
                         /\ step'[h] = "write" =>
                               cur'[h] = 0 \/ Start[part[h]] + cur'[h] <= Len(buf)
                         /\ step'[h] = "copy" =>
                               /\ cur'[h] < Pieces[part[h]]
                               /\ room[h] = Piece(h)' /\ room[h] <= Len(buf)
      BY <1>1, <1>7 DEF AtWork
    <2>1. CASE h = g
      <3>1. Start[part[g]] \in Nat
        BY <1>2, PiecesType
      <3>2. Start[part[g]] + cur'[g] <= Len(buf)
        BY <1>2, <1>3, <1>4, <1>8, <3>1
      <3>. QED BY <1>2, <1>8, <2>1, <3>2
    <2>2. CASE h # g
      BY <1>8, <2>2 DEF AtWork
    <2>. QED BY <2>1, <2>2
  <1>11. Filling'
    <2>1. InPlace'
      BY <1>6, <1>7 DEF Filling, InPlace
    <2>2. ASSUME NEW i \in DOMAIN buf', buf'[i] = Pending
          PROVE  \E h \in Goroutines : step'[h] = "copy" /\ room'[h] = i
      <3>1. i # r /\ i \in Orphans
        BY <1>6, <1>7, <2>2 DEF Orphans
      <3>2. PICK h \in Goroutines : step[h] = "copy" /\ room[h] = i
        BY <3>1 DEF Filling
      <3>3. h # g
        BY <3>1, <3>2 DEF r
      <3>. QED BY <1>1, <1>8, <3>2, <3>3
    <2>. QED BY <1>7, <2>1, <2>2 DEF Filling, Orphans
  <1>12. Covered'
    <2>1. \A h \in Goroutines : step[h] # "idle" => step'[h] # "idle"
      BY <1>8
    <2>. QED BY <1>1, <1>7, <2>1 DEF Covered
  <1>. QED BY <1>1, <1>2, <1>9, <1>10, <1>11, <1>12 DEF AtRest, WholeOnOk

LEMMA ReturnKeeps == ASSUME IInv, Return PROVE IInv'
  <1>. USE DEF IInv
  <1>1. /\ \A g \in Goroutines : step[g] = "idle"
        /\ UNCHANGED <<buf, part, cur, tries, step, room, nextPart, failed>>
        /\ result' = IF failed THEN "error" ELSE "ok"
        /\ failed \/ nextPart \notin Parts
    BY DEF Return
  <1>2. Typed'
    BY <1>1 DEF Typed, TypeOK
  <1>3. AtWork' /\ Filling' /\ Covered'
    BY <1>1 DEF AtWork, Filling, InPlace, Orphans, Covered, Piece
  <1>4. CASE failed
    BY <1>1, <1>2, <1>3, <1>4 DEF AtRest, WholeOnOk
  <1>5. CASE ~ failed
    <2>1. nextPart = Len(Pieces) + 1 /\ Len(Pieces) \in 1..(nextPart - 1)
      BY <1>1, <1>5, PiecesType DEF Typed, TypeOK
    <2>2. Size <= Len(buf)
      BY <1>1, <1>5, <2>1 DEF Covered, Size
    <2>3. Len(buf) = Size
      BY <2>2, LenProperties, PiecesType DEF Filling, Typed, TypeOK
    <2>4. Orphans = {}
      BY <1>1 DEF Filling
    <2>. QED BY <1>1, <1>2, <1>3, <1>5, <2>3, <2>4 DEF AtRest, WholeOnOk, Orphans
  <1>. QED BY <1>4, <1>5

-----------------------------------------------------------------------------
LEMMA StepKeeps == ASSUME IInv, [Next]_vars PROVE IInv'
  <1>1. CASE UNCHANGED vars
    BY <1>1 DEF vars, IInv, Typed, TypeOK, AtWork, Filling, InPlace, Orphans, Covered,
                AtRest, WholeOnOk, Piece
  <1>2. CASE \E w \in Workers : TakePart(w)
    BY <1>2, TakePartKeeps
  <1>3. CASE \E g \in Goroutines : Work(g)
    <2>1. PICK g \in Goroutines : Work(g)
      BY <1>3
    <2>2. CASE BodyFails(g) \/ WriteAtRefuses(g)
      BY <2>2, RetryKeeps DEF BodyFails, WriteAtRefuses
    <2>. QED BY <2>1, <2>2, PartKeeps, ExtendsKeeps, CopiesKeeps DEF Work
  <1>4. CASE Return
    BY <1>4, ReturnKeeps
  <1>. QED BY <1>1, <1>2, <1>3, <1>4 DEF Next, Returned

LEMMA Invariant == Spec => []IInv
  <1>1. Init => IInv BY InitOK
  <1>2. IInv /\ [Next]_vars => IInv' BY StepKeeps
  <1>. QED BY <1>1, <1>2, PTL DEF Spec

\* Every reachable state is well typed: no offset leaves the object, no part
\* is retried more often than allowed and the buffer never outgrows the object.
THEOREM TypeCorrect == Spec => []TypeOK
  <1>1. IInv => TypeOK BY DEF IInv, Typed
  <1>. QED BY <1>1, Invariant, PTL

\* Whatever the number and size of the parts, the order in which they arrive
\* and the retries, no piece is ever in the place of another.
THEOREM PiecesInPlace == Spec => []InPlace
  <1>1. IInv => InPlace BY DEF IInv, Filling
  <1>. QED BY <1>1, Invariant, PTL

\* A download succeeds only when every part is in the buffer and no copy is
\* under way, so that its bytes may be read.
THEOREM SuccessIsWhole == Spec => []WholeOnOk
  <1>1. IInv => WholeOnOk BY DEF IInv
  <1>. QED BY <1>1, Invariant, PTL
=============================================================================
