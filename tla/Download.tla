------------------------------ MODULE Download ------------------------------
(***************************************************************************)
(* NewS3ObjectReader (app.go:373-393): one object downloaded into a        *)
(* WriteAtBuffer (app.go:260-281) by the S3 transfer manager.              *)
(*                                                                         *)
(* The buffer is the repository's code: WriteAt refuses every offset but   *)
(* the current length and appends to a bytes.Buffer without a lock.  The   *)
(* transfer manager (aws-sdk-go-v2/feature/s3/manager) is external and     *)
(* modelled from the way NewWithClient and NewS3ObjectReader use it: with  *)
(* its defaults, the calling goroutine downloads the first part alone and  *)
(* learns the size from it, then workers take the other parts in order.  A *)
(* part is copied piece by piece; an error while it is copied, an error of *)
(* WriteAt included, starts the part again from its first piece, a bounded *)
(* number of times.                                                        *)
(***************************************************************************)
EXTENDS Integers, Sequences, FiniteSets

CONSTANTS
    Caller,      \* the goroutine that calls Download
    Workers,     \* the goroutines the transfer manager starts
    Pieces,      \* how many pieces each part of the object has
    Start,       \* how many come before each part, and in the whole object
    MaxRetries,  \* PartBodyMaxRetries
    Pending,     \* a piece the buffer has room for and nobody has copied yet
    Lost         \* a piece whose bytes went to an abandoned array

ASSUME DownloadAssumption ==
    /\ Caller \notin Workers
    /\ Workers # {}
    /\ Pieces \in Seq(Nat \ {0}) /\ Pieces # <<>>
    /\ Start \in [1..(Len(Pieces) + 1) -> Nat]
    /\ Start[1] = 0
    /\ \A p \in DOMAIN Pieces : Start[p + 1] = Start[p] + Pieces[p]
    /\ MaxRetries \in Nat
    /\ Pending # Lost /\ {Pending, Lost} \cap Nat = {}

VARIABLES
    buf,      \* the bytes.Buffer: the piece at each place
    part,     \* the part each goroutine is downloading, 0 for none
    cur,      \* pieces of it written (chunk.cur)
    tries,    \* retries of it spent
    step,     \* "idle", "get", "write" or "copy"
    room,     \* the place its WriteAt has made room at
    nextPart, \* the next part to hand out
    failed,   \* the downloader's error is set
    result    \* "none" until Download returns "ok" or "error"

vars == <<buf, part, cur, tries, step, room, nextPart, failed, result>>

Goroutines == Workers \cup {Caller}
Parts == DOMAIN Pieces

Size == Start[Len(Pieces) + 1]

\* The piece a goroutine is at, the offset of its next WriteAt being one less
Piece(g) == Start[part[g]] + cur[g] + 1

Init ==
    /\ buf = <<>>
    /\ part = [g \in Goroutines |-> IF g = Caller THEN 1 ELSE 0]
    /\ cur = [g \in Goroutines |-> 0]
    /\ tries = [g \in Goroutines |-> 0]
    /\ step = [g \in Goroutines |-> IF g = Caller THEN "get" ELSE "idle"]
    /\ room = [g \in Goroutines |-> 0]
    /\ nextPart = 2
    /\ failed = FALSE
    /\ result = "none"

-----------------------------------------------------------------------------
(* The transfer manager (external) *)

\* A worker takes the next part; the first part must be there, and no error.
TakePart(w) ==
    /\ step[w] = "idle" /\ step[Caller] = "idle" /\ ~ failed
    /\ nextPart \in Parts
    /\ part' = [part EXCEPT ![w] = nextPart]
    /\ cur' = [cur EXCEPT ![w] = 0]
    /\ tries' = [tries EXCEPT ![w] = 0]
    /\ step' = [step EXCEPT ![w] = "get"]
    /\ nextPart' = nextPart + 1
    /\ UNCHANGED <<buf, room, failed, result>>

GetObject(g) ==
    /\ step[g] = "get"
    /\ step' = [step EXCEPT ![g] = "write"]
    /\ UNCHANGED <<buf, part, cur, tries, room, nextPart, failed, result>>

\* GetObject itself fails: the part is given up at once.
GetObjectFails(g) ==
    /\ step[g] = "get"
    /\ step' = [step EXCEPT ![g] = "idle"]
    /\ failed' = TRUE
    /\ UNCHANGED <<buf, part, cur, tries, room, nextPart, result>>

RetryUncounted(g) ==
    /\ cur' = [cur EXCEPT ![g] = 0]
    /\ step' = [step EXCEPT ![g] = "get"]
    /\ UNCHANGED <<tries, failed>>

\* Copying the body ended with an error: again from the first piece, or,
\* after the last retry, the error of the download.
Retry(g) ==
    IF tries[g] < MaxRetries
    THEN /\ tries' = [tries EXCEPT ![g] = @ + 1]
         /\ cur' = [cur EXCEPT ![g] = 0]
         /\ step' = [step EXCEPT ![g] = "get"]
         /\ UNCHANGED failed
    ELSE /\ step' = [step EXCEPT ![g] = "idle"]
         /\ failed' = TRUE
         /\ UNCHANGED <<tries, cur>>

\* The connection breaks while the body is read.
BodyFails(g) ==
    /\ step[g] = "write" /\ cur[g] < Pieces[part[g]]
    /\ Retry(g)
    /\ UNCHANGED <<buf, part, room, nextPart, result>>

EndPart(g) ==
    /\ step[g] = "write" /\ cur[g] = Pieces[part[g]]
    /\ step' = [step EXCEPT ![g] = "idle"]
    /\ UNCHANGED <<buf, part, cur, tries, room, nextPart, failed, result>>

ReturnIgnoresError ==
    /\ result = "none"
    /\ \A g \in Goroutines : step[g] = "idle"
    /\ failed \/ nextPart \notin Parts
    /\ result' = IF nextPart \in Parts THEN "error" ELSE "ok"
    /\ UNCHANGED <<buf, part, cur, tries, step, room, nextPart, failed>>

\* Download returns when no goroutine is at work and no part is left to take.
Return ==
    /\ result = "none"
    /\ \A g \in Goroutines : step[g] = "idle"
    /\ failed \/ nextPart \notin Parts
    /\ result' = IF failed THEN "error" ELSE "ok"
    /\ UNCHANGED <<buf, part, cur, tries, step, room, nextPart, failed>>

-----------------------------------------------------------------------------
(* WriteAtBuffer *)

OffsetOKAnywhere(g) == Piece(g) \in Nat

OffsetOKAfterEnd(g) == Piece(g) - 1 >= Len(buf)

\* The check of WriteAt: the offset is the length of the buffer.
OffsetOK(g) == Piece(g) - 1 = Len(buf)

WriteAtRefuses(g) ==
    /\ step[g] = "write" /\ cur[g] < Pieces[part[g]]
    /\ ~ OffsetOK(g)
    /\ Retry(g)
    /\ UNCHANGED <<buf, part, room, nextPart, result>>

Orphans == {i \in DOMAIN buf : buf[i] = Pending}

\* bytes.Buffer.Write makes room: the length grows, and with it, sometimes,
\* the array.  Nothing orders this with the copy of another goroutine that
\* still runs: the bytes of such a copy may go to the old array.
WriteAtExtends(g) ==
    /\ step[g] = "write" /\ cur[g] < Pieces[part[g]]
    /\ OffsetOK(g)
    /\ \E torn \in SUBSET Orphans :
          buf' = Append([i \in DOMAIN buf |-> IF i \in torn THEN Lost ELSE buf[i]],
                        Pending)
    /\ room' = [room EXCEPT ![g] = Len(buf) + 1]
    /\ step' = [step EXCEPT ![g] = "copy"]
    /\ UNCHANGED <<part, cur, tries, nextPart, failed, result>>

\* Then it copies the piece into the room it made.
WriteAtCopies(g) ==
    /\ step[g] = "copy"
    /\ buf' = [buf EXCEPT ![room[g]] = IF @ = Pending THEN Piece(g) ELSE @]
    /\ cur' = [cur EXCEPT ![g] = @ + 1]
    /\ step' = [step EXCEPT ![g] = "write"]
    /\ UNCHANGED <<part, tries, room, nextPart, failed, result>>

-----------------------------------------------------------------------------
Work(g) ==
    \/ GetObject(g) \/ GetObjectFails(g) \/ BodyFails(g) \/ EndPart(g)
    \/ WriteAtRefuses(g) \/ WriteAtExtends(g) \/ WriteAtCopies(g)

Returned == result # "none" /\ UNCHANGED vars

Next ==
    \/ \E w \in Workers : TakePart(w)
    \/ \E g \in Goroutines : Work(g)
    \/ Return
    \/ Returned

\* The Go scheduler runs every goroutine that can run, and every request ends.
Fairness ==
    /\ \A w \in Workers : WF_vars(TakePart(w))
    /\ \A g \in Goroutines : WF_vars(Work(g))
    /\ WF_vars(Return)

Spec == Init /\ [][Next]_vars /\ Fairness

-----------------------------------------------------------------------------
TypeOK ==
    /\ buf \in Seq((1..Size) \cup {Pending, Lost})
    /\ part \in [Goroutines -> 0..Len(Pieces)]
    /\ \A g \in Goroutines : part[g] # 0 => cur[g] \in 0..Pieces[part[g]]
    /\ tries \in [Goroutines -> 0..MaxRetries]
    /\ step \in [Goroutines -> {"idle", "get", "write", "copy"}]
    /\ room \in [Goroutines -> 0..Size]
    /\ nextPart \in 2..(Len(Pieces) + 1)
    /\ failed \in BOOLEAN
    /\ result \in {"none", "ok", "error"}

\* Every piece that is in the buffer is where it belongs, whatever the order
\* in which the parts arrive and however often they are retried: the refusal
\* of other offsets (app.go:272) is what keeps parts from being appended out
\* of order or twice.
InPlace == \A i \in DOMAIN buf : buf[i] \in {i, Pending, Lost}

\* A download that succeeds has filled the whole length of the object, and no
\* goroutine is still copying (app.go:375-383 reads the buffer at once).
WholeOnOk ==
    result = "ok" => Len(buf) = Size /\ Orphans = {}

\* Download returns: parts that wait for their offset by failing do not do so
\* for ever.
AlwaysReturns == <>(result # "none")

-----------------------------------------------------------------------------
(* Claims of comments *)

\* app.go:260: the buffer implements io.WriterAt, whose clients may write
\* disjoint ranges in parallel: a download that succeeds has every byte.
ParallelWritesKeepBytes == result = "ok" => buf = [i \in 1..Size |-> i]
=============================================================================
