---------------------------- MODULE LogSourceProofs ---------------------------
(***************************************************************************)
(* Theorems about LogSource: for every bucket, every page size and every   *)
(* delivery between two pages, the lines a notification is aggregated from *)
(* are all there, once each, and in order.                                 *)
(***************************************************************************)
EXTENDS LogSource, DataLemmas

AllLines == {line \in Objects \X Nat : line[2] \in DOMAIN Content[line[1]]}

Recent(o) == {i \in DOMAIN Content[o] : ~ TooOld(Content[o][i])}

Typed ==
    /\ TypeOK
    /\ logs \in Seq(AllLines)
    /\ pc = "list" => cfg.backfill
    /\ pc \in {"list", "ok"} => Key[own] = SentKey[own]

\* Nothing has been read or listed yet.
AtStart == pc \in {"key", "own"} => logs = <<>> /\ page = {} /\ token = -1 /\ more

\* What has been read of the listing is before the rest of the page, and what
\* is on the page before the rest of the listing.
Onward ==
    /\ \A o \in page : Rank[o] <= token
    /\ pc = "list" =>
          \A n \in DOMAIN logs :
              \/ logs[n][1] = own
              \/ /\ logs[n][1] # own /\ Rank[logs[n][1]] <= token
                 /\ \A p \in page : Rank[logs[n][1]] < Rank[p]

\* All lines of an object that are not too old have been read, if they are
\* wanted.
HasRead(o) == Wanted(o) => \A i \in Recent(o) : <<o, i>> \in Range(logs)

\* An object that was there from the start is on the page, or after it, or
\* has been read.
Swept ==
    pc = "list" =>
        \A o \in bucket :
            LastModified[o] <= EventTime[own] /\ Listed(Key[o], SentKey[own]) =>
                \/ o \in page
                \/ more /\ Rank[o] > token
                \/ HasRead(o)

OwnRead == pc \in {"list", "ok"} => \A i \in DOMAIN Content[own] : <<own, i>> \in Range(logs)

\* Until they are sorted, the lines are in the order they were read in.
InReadOrder ==
    pc = "list" => \A m, n \in DOMAIN logs : m < n => ReadBefore(logs[m], logs[n])

IInv ==
    /\ Typed /\ AtStart /\ Onward /\ Swept /\ OwnRead /\ InReadOrder
    /\ NoLineTwice /\ BackfillComplete /\ InTimeOrder

-----------------------------------------------------------------------------
(* Lines *)

LEMMA LineTypes ==
    /\ \A o \in Objects : /\ Content[o] \in Seq(Int)
                          /\ DOMAIN Content[o] = 1..Len(Content[o]) /\ Len(Content[o]) \in Nat
                          /\ \A i \in DOMAIN Content[o] : Content[o][i] \in Int
    /\ \A line \in AllLines : Time(line) \in Int /\ line[1] \in Objects
    /\ \A o \in Objects : \A i \in DOMAIN Content[o] : <<o, i>> \in AllLines
<1>1. \A o \in Objects : Content[o] \in Seq(Int)
  BY LogSourceAssumption
<1>2. \A o \in Objects : /\ DOMAIN Content[o] = 1..Len(Content[o]) /\ Len(Content[o]) \in Nat
                         /\ \A i \in DOMAIN Content[o] : Content[o][i] \in Int
  BY <1>1, LenProperties, ElementOfSeq
<1>3. ASSUME NEW o \in Objects, NEW i \in DOMAIN Content[o]
      PROVE  <<o, i>> \in AllLines
  <2>1. i \in Nat
    BY <1>2
  <2> QED
    BY <2>1 DEF AllLines
<1> QED
  BY <1>1, <1>2, <1>3 DEF AllLines, Time

\* Sorting by time is a permutation, in order and stable.
LEMMA SortedPermutes ==
    ASSUME NEW lines \in Seq(AllLines)
    PROVE  \E f \in [DOMAIN lines -> DOMAIN lines] :
              /\ SortedByTime(lines) = [n \in DOMAIN lines |-> lines[f[n]]]
              /\ \A m, n \in DOMAIN lines : f[m] = f[n] => m = n
              /\ \A i \in DOMAIN lines : \E n \in DOMAIN lines : f[n] = i
              /\ \A m, n \in DOMAIN lines : m < n =>
                    \/ Time(lines[f[m]]) < Time(lines[f[n]])
                    \/ Time(lines[f[m]]) = Time(lines[f[n]]) /\ f[m] < f[n]
<1> DEFINE S == DOMAIN lines
           R == Earlier(lines)
           f == InOrder(S, R)
           T(n) == Time(lines[n])
<1>1. S = 1..Len(lines) /\ Len(lines) \in Nat
  BY LenProperties
<1>2. IsFiniteSet(S) /\ Cardinality(S) = Len(lines)
  BY <1>1, FS_Interval
<1>3. \A n \in S : T(n) \in Int
  BY ElementOfSeq, LineTypes, <1>1
<1>4. \A i, j \in S : <<i, j>> \in R <=> T(i) < T(j) \/ (T(i) = T(j) /\ i < j)
  BY DEF Earlier
<1> HIDE DEF R, T
<1>5. \A i \in S : <<i, i>> \notin R
  BY <1>1, <1>3, <1>4
<1>6. \A i, j \in S : i # j => <<i, j>> \in R \/ <<j, i>> \in R
  BY <1>1, <1>3, <1>4
<1>7. \A i, j, k \in S : <<i, j>> \in R /\ <<j, k>> \in R => <<i, k>> \in R
  BY <1>1, <1>3, <1>4
<1> HIDE DEF S
<1>8. /\ f \in [S -> S]
      /\ \A m, n \in S : f[m] = f[n] => m = n
      /\ \A i \in S : \E n \in S : f[n] = i
      /\ \A m, n \in S : m < n => <<f[m], f[n]>> \in R
  BY <1>1, <1>2, <1>5, <1>6, <1>7, InOrderEnumerates
<1>9. SortedByTime(lines) = [n \in DOMAIN lines |-> lines[f[n]]]
  BY DEF SortedByTime, S, R
<1> HIDE DEF f
<1>10. \A m, n \in S : m < n =>
          T(f[m]) < T(f[n]) \/ (T(f[m]) = T(f[n]) /\ f[m] < f[n])
  BY <1>4, <1>8
<1> QED
  BY <1>8, <1>9, <1>10 DEF S, T

\* What is appended are the lines of an object that are recent, once each.
LEMMA ToleratedLines ==
    ASSUME NEW o \in Objects
    PROVE  /\ Tolerated(o) \in Seq(AllLines)
           /\ \A n \in DOMAIN Tolerated(o) : Tolerated(o)[n][1] = o
           /\ \A m, n \in DOMAIN Tolerated(o) : m < n => Tolerated(o)[m][2] < Tolerated(o)[n][2]
           /\ \A m, n \in DOMAIN Tolerated(o) : Tolerated(o)[m] = Tolerated(o)[n] => m = n
           /\ \A i \in Recent(o) : <<o, i>> \in Range(Tolerated(o))
<1> DEFINE lines == Lines(o)
           kept == Kept(lines, Recent(o))
<1>1. /\ DOMAIN Content[o] = 1..Len(Content[o]) /\ Len(Content[o]) \in Nat
      /\ Tolerated(o) = kept
  BY LineTypes DEF Tolerated, Recent
<1>2. DOMAIN lines = DOMAIN Content[o] /\ \A i \in DOMAIN lines : lines[i] = <<o, i>> /\ lines[i] \in AllLines
  BY LineTypes DEF Lines
<1>3. lines \in Seq(AllLines)
  <2>1. lines \in [1..Len(Content[o]) -> AllLines]
    BY <1>1, <1>2 DEF Lines
  <2> QED
    BY <1>1, <2>1, SeqDef
<1>4. Recent(o) \in SUBSET (DOMAIN lines)
  BY <1>2 DEF Recent
<1> HIDE DEF lines
<1>5. kept \in Seq(AllLines)
  BY <1>3, <1>4, KeptIs
<1>6. PICK f \in [DOMAIN kept -> Recent(o)] :
         /\ \A n \in DOMAIN kept : kept[n] = lines[f[n]]
         /\ \A m, n \in DOMAIN kept : m < n => f[m] < f[n]
         /\ \A i \in Recent(o) : \E n \in DOMAIN kept : f[n] = i
  <2>1. \E f : Keeps(f, kept, lines, Recent(o))
    BY <1>3, <1>4, KeptIs
  <2> QED
    BY <2>1 DEF Keeps
<1>7. DOMAIN kept = 1..Len(kept) /\ Len(kept) \in Nat
  BY <1>5, LenProperties
<1> HIDE DEF kept
<1>8. \A n \in DOMAIN kept : f[n] \in Int /\ kept[n] = <<o, f[n]>>
  <2>1. \A n \in DOMAIN kept : f[n] \in DOMAIN lines /\ kept[n] = lines[f[n]]
    BY <1>4, <1>6
  <2>2. \A i \in DOMAIN lines : i \in Int
    BY <1>1, <1>2
  <2> QED
    BY <1>2, <2>1, <2>2
<1>9. \A m, n \in DOMAIN kept : kept[m] = kept[n] => m = n
  <2> SUFFICES ASSUME NEW m \in DOMAIN kept, NEW n \in DOMAIN kept, kept[m] = kept[n], m < n
               PROVE  FALSE
    BY <1>7
  <2> QED
    BY <1>6, <1>8
<1>10. \A i \in Recent(o) : <<o, i>> \in Range(kept)
  BY <1>6, <1>8 DEF Range
<1>11. \A m, n \in DOMAIN kept : m < n => kept[m][2] < kept[n][2]
  BY <1>6, <1>8
<1> QED
  BY <1>1, <1>5, <1>8, <1>9, <1>10, <1>11

\* The listing of a plain directory has every log file of the hour in it.
LEMMA BesideIsListed ==
    ASSUME NEW o \in Objects, NEW p \in Objects, Plain(Key[p]), Beside(Key[o], Key[p])
    PROVE  Listed(Key[o], Key[p])
<1> DEFINE k == Key[o]
           mine == Key[p]
           n == Len(k) - 1
<1>1. k \in Seq(Seq(STRING) \ {<<>>}) /\ mine \in Seq(Seq(STRING) \ {<<>>}) /\ k # <<>> /\ mine # <<>>
  BY LogSourceAssumption DEF Keys
<1> HIDE DEF k, mine
<1>2. Len(k) \in Nat /\ Len(mine) \in Nat /\ Len(k) > 0 /\ Len(mine) > 0
  BY <1>1, EmptySeq, LenProperties
<1>3. Front(k) = SubSeq(k, 1, n) /\ Len(Front(k)) = n /\ n \in Nat
  <2>1. n \in Nat /\ n \in Int /\ 1 \in Int
    BY <1>2
  <2>2. \A i \in 1..n : k[i] \in Seq(STRING) \ {<<>>}
    BY <1>1, <1>2, ElementOfSeq
  <2>3. Len(SubSeq(k, 1, n)) = IF 1 <= n THEN n - 1 + 1 ELSE 0
    BY <2>1, <2>2, SubSeqProperties
  <2>4. Front(k) = SubSeq(k, 1, n)
    BY DEF Front
  <2> HIDE DEF n
  <2> QED
    BY <2>1, <2>3, <2>4
<1>4. Prefix(mine) = Front(k)
  BY DEF Plain, Beside, k, mine
<1>5. k[Len(Prefix(mine)) + 1] = Last(k)
  BY <1>2, <1>3, <1>4 DEF Last
<1>6. IsStrictPrefix(Prefix(mine), k)
  <2>1. SubSeq(Front(k), 1, n) = SubSeq(k, 1, n)
    BY <1>1, <1>2, <1>3 DEF Front
  <2>2. Front(k) # k
    BY <1>2, <1>3
  <2> QED
    BY <1>2, <1>3, <1>4, <2>1, <2>2 DEF IsStrictPrefix, IsPrefix
<1>7. Len(Last(k)) >= 3 /\ SubSeq(Last(k), 1, 2) = SubSeq(Last(mine), 1, 2)
  <2>1. Last(k) \in Seq(STRING)
    BY <1>1, <1>2, ElementOfSeq DEF Last
  <2>2. Len(Last(k)) \in Nat
    BY <2>1, LenProperties
  <2> QED
    BY <2>2 DEF Beside, KeyValid, k, mine
<1> QED
  BY <1>5, <1>6, <1>7 DEF Listed, k, mine

\* What does not fit on a page comes after it.
LEMMA PageIsFirst ==
    ASSUME TypeOK, NEW o \in Remaining, o \notin FirstOf(Remaining), NEW p \in FirstOf(Remaining)
    PROVE  Rank[p] < Rank[o]
<1> DEFINE Below(q) == {r \in Remaining : Rank[r] < Rank[q]}
<1>1. Remaining \subseteq Objects /\ IsFiniteSet(Objects) /\ PageSize \in Nat
  BY LogSourceAssumption DEF Remaining, TypeOK
<1>2. \A q \in Objects : Rank[q] \in Nat
  BY LogSourceAssumption
<1>3. p \in Remaining /\ Cardinality(Below(p)) < PageSize /\ ~ (Cardinality(Below(o)) < PageSize)
  BY DEF FirstOf
<1>4. ASSUME Rank[o] <= Rank[p] PROVE FALSE
  <2>1. Below(o) \in SUBSET Below(p)
    BY <1>1, <1>2, <1>3, <1>4
  <2>2. IsFiniteSet(Below(p)) /\ IsFiniteSet(Below(o))
    BY <1>1, <2>1, FS_Subset
  <2>3. /\ Cardinality(Below(o)) <= Cardinality(Below(p))
        /\ Cardinality(Below(o)) \in Nat /\ Cardinality(Below(p)) \in Nat
    BY <2>1, <2>2, FS_Subset, FS_CardinalityType
  <2> HIDE DEF Below
  <2> QED
    BY <1>1, <1>3, <2>3
<1> QED
  BY <1>1, <1>2, <1>3, <1>4

-----------------------------------------------------------------------------
(* The steps *)

LEMMA InitInv ==
    ASSUME Init
    PROVE  IInv
<1>1. /\ own \in Objects /\ bucket \subseteq Objects /\ own \in bucket /\ cfg \in Configs
      /\ logs = <<>> /\ page = {} /\ token = -1 /\ more = TRUE /\ pc = "key"
  BY DEF Init
<1>2. logs \in Seq(AllLines) /\ DOMAIN logs = {}
  BY <1>1
<1>3. Typed
  BY <1>1, <1>2 DEF Typed, TypeOK
<1> QED
  BY <1>1, <1>2, <1>3
     DEF IInv, AtStart, Onward, Swept, OwnRead, InReadOrder, NoLineTwice, IsInjective,
         BackfillComplete, InTimeOrder

\* An end without a result promises nothing.
LEMMA EndsWithout ==
    ASSUME IInv, pc' \in {"error", "skipped"}, UNCHANGED <<cfg, own, bucket, logs, page, token, more>>
    PROVE  IInv'
<1>1. Typed'
  BY DEF IInv, Typed, TypeOK, AllLines
<1>2. Onward' /\ NoLineTwice'
  BY DEF IInv, Onward, NoLineTwice
<1> QED
  BY <1>1, <1>2 DEF IInv, AtStart, Swept, OwnRead, InReadOrder, BackfillComplete, InTimeOrder

LEMMA DeliverStep ==
    ASSUME IInv, NEW o \in Objects, Deliver(o)
    PROVE  IInv'
<1>1. /\ bucket' = bucket \cup {o} /\ LastModified[o] > EventTime[own]
      /\ UNCHANGED <<cfg, own, logs, page, token, more, pc>>
  BY DEF Deliver
<1>2. LastModified[o] \in Int /\ EventTime[own] \in Int
  BY LogSourceAssumption DEF IInv, Typed, TypeOK
<1>3. ~ (LastModified[o] <= EventTime[own])
  BY <1>1, <1>2
<1>4. Typed'
  BY <1>1 DEF IInv, Typed, TypeOK, AllLines
<1>5. AtStart' /\ Onward' /\ OwnRead' /\ InReadOrder' /\ NoLineTwice' /\ InTimeOrder'
  BY <1>1 DEF IInv, AtStart, Onward, OwnRead, InReadOrder, ReadBefore, NoLineTwice, InTimeOrder, Time
<1>6. Swept' /\ BackfillComplete'
  BY <1>1, <1>3 DEF IInv, Swept, HasRead, Wanted, Recent, TooOld, BackfillComplete
<1> QED
  BY <1>4, <1>5, <1>6 DEF IInv

LEMMA ParseKeyStep ==
    ASSUME IInv, ParseKey
    PROVE  IInv'
<1>1. UNCHANGED <<cfg, own, bucket, logs, page, token, more>> /\ pc = "key"
  BY DEF ParseKey
<1>2. CASE pc' \in {"error", "skipped"}
  BY <1>1, <1>2, EndsWithout
<1>3. CASE pc' = "own"
  <2>1. Typed'
    BY <1>1, <1>3 DEF IInv, Typed, TypeOK, AllLines
  <2> QED
    BY <1>1, <1>3, <2>1
       DEF IInv, AtStart, Onward, Swept, OwnRead, InReadOrder, NoLineTwice, BackfillComplete, InTimeOrder
<1> QED
  BY <1>2, <1>3 DEF ParseKey

LEMMA ReadOwnStep ==
    ASSUME IInv, ReadOwn
    PROVE  IInv'
<1>1. /\ UNCHANGED <<cfg, own, bucket, page, token, more>> /\ logs' = Lines(own)
      /\ pc = "own" /\ pc' = (IF cfg.backfill THEN "list" ELSE "ok") /\ OwnExists
  BY DEF ReadOwn
<1>2. own \in Objects /\ bucket \subseteq Objects /\ page = {} /\ token = -1 /\ more
  BY <1>1 DEF IInv, Typed, TypeOK, AtStart
<1>3. Key[own] = SentKey[own]
  <2>1. PICK o \in bucket : Key[o] = SentKey[own]
    BY <1>1 DEF OwnExists
  <2> QED
    BY <1>2, <2>1, LogSourceAssumption
<1>4. /\ DOMAIN logs' = DOMAIN Content[own]
      /\ \A n \in DOMAIN logs' : logs'[n] = <<own, n>> /\ logs'[n] \in AllLines
  BY <1>1, <1>2, LineTypes DEF Lines
<1>5. logs' \in Seq(AllLines)
  <2>1. DOMAIN logs' = 1..Len(Content[own]) /\ Len(Content[own]) \in Nat
    BY <1>2, <1>4, LineTypes
  <2>2. logs' \in [1..Len(Content[own]) -> AllLines]
    BY <1>1, <1>4, <2>1 DEF Lines
  <2> QED
    BY <2>1, <2>2, SeqDef
<1>6. Typed'
  BY <1>1, <1>2, <1>3, <1>4, <1>5 DEF IInv, Typed, TypeOK, AllLines
<1>7. AtStart' /\ Onward' /\ InReadOrder' /\ NoLineTwice'
  BY <1>1, <1>2, <1>4 DEF AtStart, Onward, InReadOrder, ReadBefore, NoLineTwice, IsInjective
<1>8. OwnRead'
  BY <1>1, <1>4 DEF OwnRead, Range
<1>9. Swept'
  <2>1. \A o \in Objects : Rank[o] \in Nat
    BY LogSourceAssumption
  <2>2. \A o \in Objects : Rank[o] > -1
    BY <2>1
  <2> QED
    BY <1>1, <1>2, <2>2 DEF Swept
<1>10. BackfillComplete' /\ InTimeOrder'
  BY <1>1 DEF BackfillComplete, InTimeOrder
<1> QED
  BY <1>6, <1>7, <1>8, <1>9, <1>10 DEF IInv

LEMMA NextPageStep ==
    ASSUME IInv, NextPage
    PROVE  IInv'
<1>1. /\ pc = "list" /\ page = {} /\ more
      /\ page' = FirstOf(Remaining) /\ more' = (page' # Remaining)
      /\ UNCHANGED <<cfg, own, bucket, logs, pc>>
  BY DEF NextPage
<1>2. /\ TypeOK /\ own \in Objects /\ bucket \subseteq Objects /\ token \in Int
      /\ \A o \in Objects : Rank[o] \in Nat
  BY LogSourceAssumption DEF IInv, Typed, TypeOK
<1>3. /\ page' \subseteq Remaining /\ Remaining \subseteq bucket
      /\ \A o \in Remaining : Rank[o] > token
  BY <1>1 DEF FirstOf, Remaining
<1>4. /\ token' \in Int /\ token <= token'
      /\ \A o \in page' : Rank[o] <= token'
      /\ \A o \in Remaining : o \notin page' => Rank[o] > token'
  <2>1. CASE page' = {}
    <3>1. token' = token
      BY <2>1 DEF NextPage
    <3> QED
      BY <1>2, <1>3, <2>1, <3>1
  <2>2. CASE page' # {}
    <3>1. PICK last \in page' : IsLast(last, page') /\ token' = Rank[last]
      BY <2>2 DEF NextPage
    <3>2. last \in Objects /\ \A o \in page' : Rank[o] <= Rank[last]
      BY <1>2, <1>3, <3>1 DEF IsLast
    <3>3. \A o \in Remaining : o \notin page' => Rank[last] < Rank[o]
      BY <1>1, <1>2, <3>1, PageIsFirst
    <3>4. Rank[last] > token /\ Rank[last] \in Nat
      BY <1>2, <1>3, <3>1, <3>2
    <3>5. token <= token' /\ token' \in Int
      BY <1>2, <3>1, <3>4
    <3>6. \A o \in Remaining : o \notin page' => Rank[o] > token'
      BY <1>2, <1>3, <3>1, <3>3
    <3> QED
      BY <3>1, <3>2, <3>5, <3>6
  <2> QED
    BY <2>1, <2>2
<1>5. Typed'
  BY <1>1, <1>2, <1>3, <1>4 DEF IInv, Typed, TypeOK, AllLines
<1>6. Onward'
  <2>1. ASSUME NEW n \in DOMAIN logs, logs[n][1] # own
        PROVE  Rank[logs[n][1]] <= token' /\ \A p \in page' : Rank[logs[n][1]] < Rank[p]
    <3>1. Rank[logs[n][1]] <= token
      BY <1>1, <2>1 DEF IInv, Onward
    <3>2. Rank[logs[n][1]] \in Nat
      BY <1>2 DEF TypeOK
    <3>3. \A p \in page' : Rank[p] \in Nat /\ token < Rank[p]
      BY <1>2, <1>3
    <3> QED
      BY <1>2, <1>4, <3>1, <3>2, <3>3
  <2> QED
    BY <1>1, <1>4, <2>1 DEF Onward
<1>7. Swept'
  <2> SUFFICES ASSUME NEW o \in bucket, LastModified[o] <= EventTime[own],
                      Listed(Key[o], SentKey[own])
               PROVE  o \in page' \/ (more' /\ Rank[o] > token') \/ HasRead(o)
    BY <1>1 DEF Swept, HasRead, Wanted, Recent, TooOld
  <2>1. (more /\ Rank[o] > token) \/ HasRead(o)
    BY <1>1 DEF IInv, Swept
  <2>2. CASE Rank[o] > token
    <3>1. o \in Remaining
      BY <2>2 DEF Remaining
    <3> QED
      BY <1>1, <1>4, <3>1
  <2> QED
    BY <2>1, <2>2
<1>8. AtStart' /\ OwnRead' /\ InReadOrder' /\ NoLineTwice' /\ BackfillComplete' /\ InTimeOrder'
  BY <1>1 DEF IInv, AtStart, OwnRead, InReadOrder, ReadBefore, NoLineTwice, BackfillComplete, InTimeOrder
<1> QED
  BY <1>5, <1>6, <1>7, <1>8 DEF IInv

LEMMA SkipObjectStep ==
    ASSUME IInv, NEW o \in page, SkipObject(o)
    PROVE  IInv'
<1>1. /\ pc = "list" /\ ~ Wanted(o) /\ page' = page \ {o}
      /\ UNCHANGED <<cfg, own, bucket, logs, token, more, pc>>
  BY DEF SkipObject
<1>2. Typed'
  BY <1>1 DEF IInv, Typed, TypeOK, AllLines
<1>3. Onward'
  BY <1>1 DEF IInv, Onward
<1>4. Swept'
  <2> SUFFICES ASSUME NEW q \in bucket, LastModified[q] <= EventTime[own],
                      Listed(Key[q], SentKey[own])
               PROVE  q \in page' \/ (more /\ Rank[q] > token) \/ HasRead(q)
    BY <1>1 DEF Swept, HasRead, Wanted, Recent, TooOld
  <2>1. q \in page \/ (more /\ Rank[q] > token) \/ HasRead(q)
    BY <1>1 DEF IInv, Swept
  <2>2. HasRead(o)
    BY <1>1 DEF HasRead
  <2> QED
    BY <1>1, <2>1, <2>2
<1>5. AtStart' /\ OwnRead' /\ InReadOrder' /\ NoLineTwice' /\ BackfillComplete' /\ InTimeOrder'
  BY <1>1 DEF IInv, AtStart, OwnRead, InReadOrder, ReadBefore, NoLineTwice, BackfillComplete, InTimeOrder
<1> QED
  BY <1>2, <1>3, <1>4, <1>5 DEF IInv

LEMMA ReadObjectStep ==
    ASSUME IInv, NEW o \in page, ReadObject(o)
    PROVE  IInv'
<1> DEFINE new == Tolerated(o)
           L == Len(logs)
<1>1. /\ pc = "list" /\ Wanted(o) /\ page' = page \ {o} /\ logs' = logs \o new
      /\ \A p \in page : Rank[o] <= Rank[p]
      /\ UNCHANGED <<cfg, own, bucket, token, more, pc>>
  BY DEF ReadObject, IsFirst
<1>2. /\ TypeOK /\ own \in Objects /\ o \in Objects /\ token \in Int /\ page \subseteq Objects
      /\ logs \in Seq(AllLines)
      /\ \A q \in Objects : Rank[q] \in Nat
      /\ \A q, r \in Objects : Rank[q] = Rank[r] => q = r
  BY LogSourceAssumption DEF IInv, Typed, TypeOK
<1>3. o # own
  BY <1>1 DEF IInv, Typed, Wanted
<1>4. /\ new \in Seq(AllLines)
      /\ \A n \in DOMAIN new : new[n][1] = o
      /\ \A m, n \in DOMAIN new : m < n => new[m][2] < new[n][2]
      /\ \A m, n \in DOMAIN new : new[m] = new[n] => m = n
      /\ \A i \in Recent(o) : <<o, i>> \in Range(new)
  BY <1>2, ToleratedLines
<1> HIDE DEF new
<1>5. /\ L \in Nat /\ Len(new) \in Nat
      /\ DOMAIN logs = 1..L /\ DOMAIN new = 1..Len(new)
      /\ DOMAIN logs' = 1..(L + Len(new)) /\ logs' \in Seq(AllLines)
      /\ \A n \in 1..L : logs'[n] = logs[n]
      /\ \A n \in 1..(L + Len(new)) : n > L => n - L \in DOMAIN new /\ logs'[n] = new[n - L]
  <2>1. L \in Nat /\ Len(new) \in Nat /\ DOMAIN logs = 1..L /\ DOMAIN new = 1..Len(new)
    BY <1>2, <1>4, LenProperties
  <2>2. /\ logs' \in Seq(AllLines) /\ Len(logs') = L + Len(new)
        /\ \A n \in 1..(L + Len(new)) : logs'[n] = IF n <= L THEN logs[n] ELSE new[n - L]
    BY <1>1, <1>2, <1>4, ConcatProperties
  <2>3. DOMAIN logs' = 1..(L + Len(new))
    BY <2>2, LenProperties
  <2> HIDE DEF L
  <2> QED
    BY <2>1, <2>2, <2>3
<1> HIDE DEF L
<1>6. /\ Range(logs) \subseteq Range(logs') /\ Range(new) \subseteq Range(logs')
  <2>1. \A n \in DOMAIN logs : n \in DOMAIN logs' /\ logs'[n] = logs[n]
    BY <1>5
  <2>2. ASSUME NEW n \in DOMAIN new
        PROVE  new[n] \in Range(logs')
    <3>1. L + n \in 1..(L + Len(new)) /\ L + n > L /\ (L + n) - L = n
      BY <1>5
    <3>2. L + n \in DOMAIN logs' /\ logs'[L + n] = new[n]
      BY <1>5, <3>1
    <3> QED
      BY <3>2 DEF Range
  <2> QED
    BY <2>1, <2>2 DEF Range
<1>7. Typed'
  <2>1. \A n \in DOMAIN logs' : logs'[n] \in AllLines
    BY <1>5, ElementOfSeq
  <2>2. TypeOK'
    BY <1>1, <1>2, <2>1 DEF TypeOK, AllLines
  <2> QED
    BY <1>1, <1>5, <2>2 DEF IInv, Typed, AllLines
<1>8. ASSUME NEW n \in DOMAIN logs', logs'[n][1] # own
      PROVE  Rank[logs'[n][1]] <= token /\ \A p \in page' : Rank[logs'[n][1]] < Rank[p]
  <2>1. CASE n <= L
    <3>1. n \in DOMAIN logs /\ logs'[n] = logs[n]
      BY <1>5, <2>1
    <3> QED
      BY <1>1, <1>8, <3>1 DEF IInv, Onward
  <2>2. CASE n > L
    <3>1. logs'[n][1] = o
      BY <1>4, <1>5, <2>2
    <3>2. Rank[o] <= token
      BY DEF IInv, Onward
    <3>3. ASSUME NEW p \in page' PROVE Rank[o] < Rank[p]
      <4>1. p \in page /\ p # o /\ p \in Objects
        BY <1>1, <1>2
      <4>2. Rank[o] <= Rank[p] /\ Rank[o] # Rank[p] /\ Rank[o] \in Nat /\ Rank[p] \in Nat
        BY <1>1, <1>2, <4>1
      <4> QED
        BY <4>2
    <3> QED
      BY <3>1, <3>2, <3>3
  <2>3. n \in Int /\ L \in Int
    BY <1>5
  <2> QED
    BY <2>1, <2>2, <2>3
<1>9. Onward'
  BY <1>1, <1>8 DEF IInv, Onward
<1>10. \A n \in DOMAIN logs : logs[n][1] # o
  <2> SUFFICES ASSUME NEW n \in DOMAIN logs, logs[n][1] = o PROVE FALSE
    OBVIOUS
  <2>1. Rank[o] < Rank[o]
    BY <1>1, <1>3 DEF IInv, Onward
  <2> QED
    BY <1>2, <2>1
<1>11. NoLineTwice'
  <2> SUFFICES ASSUME NEW m \in DOMAIN logs', NEW n \in DOMAIN logs', logs'[m] = logs'[n]
               PROVE  m = n
    BY DEF NoLineTwice, IsInjective
  <2>1. CASE m <= L /\ n <= L
    <3>1. m \in DOMAIN logs /\ n \in DOMAIN logs /\ logs[m] = logs[n]
      BY <1>5, <2>1
    <3> QED
      BY <3>1 DEF IInv, NoLineTwice, IsInjective
  <2>2. CASE m > L /\ n > L
    <3>1. m - L \in DOMAIN new /\ n - L \in DOMAIN new /\ new[m - L] = new[n - L]
      BY <1>5, <2>2
    <3>2. m - L = n - L
      BY <1>4, <3>1
    <3> QED
      BY <1>5, <3>2
  <2>3. ASSUME NEW j \in DOMAIN logs', NEW k \in DOMAIN logs', j <= L, k > L
        PROVE  logs'[j] # logs'[k]
    <3>1. j \in DOMAIN logs /\ logs'[j] = logs[j] /\ logs'[k][1] = o
      BY <1>4, <1>5, <2>3, SMTT(40)
    <3> QED
      BY <1>10, <3>1
  <2>4. m \in Int /\ n \in Int /\ L \in Int
    BY <1>5
  <2> QED
    BY <2>1, <2>2, <2>3, <2>4
<1>12. Swept'
  <2> SUFFICES ASSUME NEW q \in bucket, LastModified[q] <= EventTime[own],
                      Listed(Key[q], SentKey[own])
               PROVE  q \in page' \/ (more /\ Rank[q] > token) \/ HasRead(q)'
    BY <1>1 DEF Swept
  <2>1. q \in page \/ (more /\ Rank[q] > token) \/ HasRead(q)
    BY <1>1 DEF IInv, Swept
  <2>2. HasRead(o)'
    BY <1>1, <1>4, <1>6 DEF HasRead, Recent, TooOld
  <2>3. HasRead(q) => HasRead(q)'
    BY <1>1, <1>6 DEF HasRead, Wanted, Recent, TooOld
  <2> QED
    BY <1>1, <2>1, <2>2, <2>3
<1>13. OwnRead'
  BY <1>1, <1>6 DEF IInv, OwnRead
<1>14. InReadOrder'
  <2> SUFFICES ASSUME NEW m \in DOMAIN logs', NEW n \in DOMAIN logs', m < n
               PROVE  ReadBefore(logs'[m], logs'[n])
    BY <1>1 DEF InReadOrder, ReadBefore
  <2>1. CASE n <= L
    <3>1. m \in DOMAIN logs /\ n \in DOMAIN logs /\ logs'[m] = logs[m] /\ logs'[n] = logs[n]
      BY <1>5, <2>1
    <3> QED
      BY <1>1, <3>1 DEF IInv, InReadOrder
  <2>2. CASE m <= L /\ n > L
    <3>1. m \in DOMAIN logs /\ logs'[m] = logs[m] /\ n - L \in DOMAIN new /\ logs'[n] = new[n - L]
      BY <1>5, <2>2
    <3>2. logs'[n][1] = o
      BY <1>4, <3>1
    <3>3. logs[m][1] = own \/ (logs[m][1] # own /\ Rank[logs[m][1]] < Rank[o])
      BY <1>1, <3>1 DEF IInv, Onward
    <3> QED
      BY <1>3, <3>1, <3>2, <3>3 DEF ReadBefore
  <2>3. CASE m > L
    <3>1. /\ m - L \in DOMAIN new /\ n - L \in DOMAIN new /\ m - L < n - L
          /\ logs'[m] = new[m - L] /\ logs'[n] = new[n - L]
      BY <1>5, <2>3
    <3>2. logs'[m][1] = o /\ logs'[n][1] = o /\ logs'[m][2] < logs'[n][2]
      BY <1>4, <3>1
    <3> QED
      BY <3>2 DEF ReadBefore
  <2>4. m \in Int /\ n \in Int /\ L \in Int
    BY <1>5
  <2> QED
    BY <2>1, <2>2, <2>3, <2>4
<1>15. AtStart' /\ BackfillComplete' /\ InTimeOrder'
  BY <1>1 DEF AtStart, BackfillComplete, InTimeOrder
<1> QED
  BY <1>7, <1>9, <1>11, <1>12, <1>13, <1>14, <1>15 DEF IInv

LEMMA SortStep ==
    ASSUME IInv, Sort
    PROVE  IInv'
<1>1. /\ pc = "list" /\ page = {} /\ ~ more /\ logs' = SortedByTime(logs) /\ pc' = "ok"
      /\ UNCHANGED <<cfg, own, bucket, page, token, more>>
  BY DEF Sort
<1>2. TypeOK /\ own \in Objects /\ bucket \subseteq Objects /\ logs \in Seq(AllLines) /\ Key[own] = SentKey[own]
  BY <1>1 DEF IInv, Typed, TypeOK
<1> DEFINE S == DOMAIN logs
<1>3. PICK f \in [S -> S] :
         /\ SortedByTime(logs) = [n \in S |-> logs[f[n]]]
         /\ \A m, n \in S : f[m] = f[n] => m = n
         /\ \A i \in S : \E n \in S : f[n] = i
         /\ \A m, n \in S : m < n =>
               \/ Time(logs[f[m]]) < Time(logs[f[n]])
               \/ Time(logs[f[m]]) = Time(logs[f[n]]) /\ f[m] < f[n]
  BY <1>2, SortedPermutes
<1>4. DOMAIN logs' = S /\ \A n \in S : f[n] \in S /\ logs'[n] = logs[f[n]]
  BY <1>1, <1>3
<1>5. S = 1..Len(logs) /\ Len(logs) \in Nat /\ \A n \in S : logs[n] \in AllLines
  BY <1>2, LenProperties, ElementOfSeq
<1>6. logs' \in Seq(AllLines) /\ \A n \in S : logs'[n] \in AllLines
  <2>1. logs' \in [1..Len(logs) -> AllLines]
    BY <1>1, <1>3, <1>4, <1>5
  <2> QED
    BY <1>4, <1>5, <2>1, SeqDef
<1>7. Range(logs') = Range(logs)
  BY <1>3, <1>4 DEF Range
<1>8. Typed'
  <2>1. TypeOK'
    BY <1>1, <1>2, <1>4, <1>6 DEF TypeOK, AllLines
  <2> QED
    BY <1>1, <1>2, <1>6, <2>1 DEF Typed, AllLines
<1>9. NoLineTwice'
  <2> SUFFICES ASSUME NEW m \in S, NEW n \in S, logs'[m] = logs'[n]
               PROVE  m = n
    BY <1>4 DEF NoLineTwice, IsInjective
  <2>1. logs[f[m]] = logs[f[n]] /\ f[m] \in S /\ f[n] \in S
    BY <1>4
  <2>2. f[m] = f[n]
    BY <2>1 DEF IInv, NoLineTwice, IsInjective
  <2> QED
    BY <1>3, <2>2
<1>10. OwnRead'
  BY <1>1, <1>7 DEF IInv, OwnRead
<1>11. BackfillComplete'
  <2> SUFFICES ASSUME NEW o \in bucket, LastModified[o] <= EventTime[own],
                      Plain(Key[own]), Beside(Key[o], Key[own]), ~ TooOld(LastModified[o]),
                      NEW i \in DOMAIN Content[o], ~ TooOld(Content[o][i])
               PROVE  <<o, i>> \in Range(logs)
    BY <1>1, <1>7 DEF BackfillComplete, TooOld
  <2>1. CASE o = own
    BY <1>1, <2>1 DEF IInv, OwnRead
  <2>2. CASE o # own
    <3>1. HasRead(o)
      BY <1>1, <1>2, BesideIsListed DEF IInv, Swept
    <3>2. Key[o] # SentKey[own]
      BY <1>2, <2>2, LogSourceAssumption
    <3> QED
      BY <3>1, <3>2 DEF HasRead, Wanted, Recent
  <2> QED
    BY <2>1, <2>2
<1>12. InTimeOrder'
  <2> SUFFICES ASSUME NEW m \in S, NEW n \in S, m < n
               PROVE  \/ Time(logs'[m]) < Time(logs'[n])
                      \/ Time(logs'[m]) = Time(logs'[n]) /\ ReadBefore(logs'[m], logs'[n])
    BY <1>1, <1>4 DEF InTimeOrder, Time, ReadBefore
  <2>1. f[m] \in S /\ f[n] \in S /\ logs'[m] = logs[f[m]] /\ logs'[n] = logs[f[n]]
    BY <1>4
  <2>2. \/ Time(logs[f[m]]) < Time(logs[f[n]])
        \/ Time(logs[f[m]]) = Time(logs[f[n]]) /\ f[m] < f[n]
    BY <1>3
  <2>3. f[m] < f[n] => ReadBefore(logs[f[m]], logs[f[n]])
    BY <1>1, <2>1 DEF IInv, InReadOrder
  <2> QED
    BY <2>1, <2>2, <2>3
<1>13. AtStart' /\ Onward' /\ Swept' /\ InReadOrder'
  BY <1>1 DEF AtStart, Onward, Swept, InReadOrder
<1> QED
  BY <1>8, <1>9, <1>10, <1>11, <1>12, <1>13 DEF IInv

LEMMA NextStep ==
    ASSUME IInv, [Next]_vars
    PROVE  IInv'
<1>1. CASE ParseKey
  BY <1>1, ParseKeyStep
<1>2. CASE ReadOwn
  BY <1>2, ReadOwnStep
<1>3. CASE ReadOwnFails
  BY <1>3, EndsWithout DEF ReadOwnFails
<1>4. CASE NextPage
  BY <1>4, NextPageStep
<1>5. CASE NextPageFails
  BY <1>5, EndsWithout DEF NextPageFails
<1>6. ASSUME NEW o \in page, SkipObject(o)
      PROVE  IInv'
  BY <1>6, SkipObjectStep
<1>7. ASSUME NEW o \in page, ReadObject(o)
      PROVE  IInv'
  BY <1>7, ReadObjectStep
<1>8. ASSUME NEW o \in page, ReadObjectFails(o)
      PROVE  IInv'
  BY <1>8, EndsWithout DEF ReadObjectFails
<1>9. CASE Sort
  BY <1>9, SortStep
<1>10. ASSUME NEW o \in Objects, Deliver(o)
       PROVE  IInv'
  BY <1>10, DeliverStep
<1>11. CASE UNCHANGED vars
  <2>1. UNCHANGED <<cfg, own, bucket, logs, page, token, more, pc>>
    BY <1>11 DEF vars
  <2>2. Typed'
    BY <2>1 DEF IInv, Typed, TypeOK, AllLines
  <2>3. AtStart' /\ Onward' /\ OwnRead' /\ InReadOrder' /\ NoLineTwice'
    BY <2>1 DEF IInv, AtStart, Onward, OwnRead, InReadOrder, ReadBefore, NoLineTwice
  <2>4. Swept' /\ BackfillComplete' /\ InTimeOrder'
    BY <2>1 DEF IInv, Swept, HasRead, Wanted, Recent, TooOld, BackfillComplete, InTimeOrder, ReadBefore, Time
  <2> QED
    BY <2>2, <2>3, <2>4 DEF IInv
<1> QED
  BY <1>1, <1>2, <1>3, <1>4, <1>5, <1>6, <1>7, <1>8, <1>9, <1>10, <1>11 DEF Next, Step, Returned

LEMMA Invariant == Spec => []IInv
<1>1. Init => IInv
  BY InitInv
<1>2. IInv /\ [Next]_vars => IInv'
  BY NextStep
<1> QED
  BY <1>1, <1>2, PTL DEF Spec

-----------------------------------------------------------------------------
(* The theorems *)

\* The variables keep their types, and every line collected is a line of an
\* object: GetVariablesAndLogs (app.go:305-371).
THEOREM TypeCorrect == Spec => []TypeOK
<1>1. IInv => TypeOK
  BY DEF IInv, Typed
<1> QED
  BY <1>1, Invariant, PTL

\* However the listing is cut into pages, and whatever is delivered between
\* them, no line is aggregated twice: the listing goes on after the last key
\* it gave, and skips the notification's own (app.go:327-340).
THEOREM NoneTwice == Spec => []NoLineTwice
<1>1. IInv => NoLineTwice
  BY DEF IInv
<1> QED
  BY <1>1, Invariant, PTL

\* A notification that succeeds has all lines of its own object, whatever
\* else was read and sorted (app.go:318-321, 364-366).
THEOREM OwnLinesKept == Spec => []OwnComplete
<1>1. IInv => OwnComplete
  <2> SUFFICES ASSUME IInv, pc = "ok", NEW n \in DOMAIN Lines(own)
               PROVE  Lines(own)[n] \in Range(logs)
    BY DEF OwnComplete, Range
  <2>1. n \in DOMAIN Content[own] /\ Lines(own)[n] = <<own, n>>
    BY DEF Lines
  <2> QED
    BY <2>1 DEF IInv, OwnRead
<1> QED
  BY <1>1, Invariant, PTL

\* With backfill, every log file of the hour beside the notification's that
\* was there when the event came, and is recent enough, gives all its recent
\* lines: no page boundary loses one (app.go:322-363).  The directory must be
\* one that the listing's prefix repeats (Plain).
THEOREM BackfillIsComplete == Spec => []BackfillComplete
<1>1. IInv => BackfillComplete
  BY DEF IInv
<1> QED
  BY <1>1, Invariant, PTL

\* With backfill the lines come out by their timestamps, those of one instant
\* in the order in which they were read: the notification's own first, then
\* object by object in the order of their keys, each as it is in the file
\* (app.go:318-366).
THEOREM OrderedByTime == Spec => []InTimeOrder
<1>1. IInv => InTimeOrder
  BY DEF IInv
<1> QED
  BY <1>1, Invariant, PTL
=============================================================================
