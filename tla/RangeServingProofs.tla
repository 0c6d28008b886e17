------------------------- MODULE RangeServingProofs -------------------------
(***************************************************************************)
(* Proofs about RangeServing for any chunk size, any size of the object    *)
(* and any numbers in the header.  Which bytes are selected is a matter of *)
(* resolveByteRange alone (Resolves).  What is sent rests on Edge(i), where *)
(* the slices of i whole chunks end: the next slice begins there (NextSlice), *)
(* no body gets further, and one that gets there is all of the range so far *)
(* (PutExtends).                                                           *)
(***************************************************************************)
EXTENDS RangeServing, SequenceTheorems, TLAPS

----------------------------------------------------------------------------
(* resolveByteRange. *)

\* A range that resolves is what the header asks of the object and not empty; of
\* one that does not, the object has nothing.
LEMMA Resolves ==
    ASSUME NEW h \in Headers, NEW s \in Nat
    PROVE  LET r == resolveByteRange(h, s) IN
           /\ r.ok \in BOOLEAN
           /\ r.ok => /\ r.start \in Nat /\ r.end \in Nat /\ r.start <= r.end
                      /\ r.start .. r.end = Wanted(h, s)
           /\ ~r.ok => Wanted(h, s) = {}
<1> USE RangeServingAssumption
<1>1. CASE h = Malformed
  BY <1>1 DEF resolveByteRange, parseByteRange, NotOk, Unsatisfiable, Wanted
<1>2. CASE h # Malformed
  <2>1. h.first \in Int \union {Empty, Junk} /\ h.last \in Int \union {Empty, Junk}
    BY <1>2 DEF Headers, SplitHeaders, Text
  <2>2. CASE s = 0
    BY <1>2, <2>1, <2>2 DEF resolveByteRange, Unsatisfiable, Wanted
  <2>3. CASE s > 0 /\ h.first = Empty /\ h.last \in Nat
    BY <1>2, <2>1, <2>3 DEF resolveByteRange, parseByteRange, NotOk, Unsatisfiable, Wanted
  <2>4. CASE s > 0 /\ h.first = Empty /\ h.last \notin Nat
    BY <1>2, <2>1, <2>4 DEF resolveByteRange, parseByteRange, NotOk, Unsatisfiable, Wanted
  <2>5. CASE s > 0 /\ h.first # Empty /\ h.first \notin Nat
    BY <1>2, <2>1, <2>5 DEF resolveByteRange, parseByteRange, NotOk, Unsatisfiable, Wanted
  <2>6. CASE s > 0 /\ h.first \in Nat /\ h.last = Empty
    BY <1>2, <2>1, <2>6 DEF resolveByteRange, parseByteRange, NotOk, Unsatisfiable, Wanted
  <2>7. CASE s > 0 /\ h.first \in Nat /\ h.last = Junk
    BY <1>2, <2>1, <2>7 DEF resolveByteRange, parseByteRange, NotOk, Unsatisfiable, Wanted
  <2>8. CASE s > 0 /\ h.first \in Nat /\ h.last \in Int
    BY <1>2, <2>1, <2>8 DEF resolveByteRange, parseByteRange, NotOk, Unsatisfiable, Wanted
  <2> QED
    BY <2>1, <2>2, <2>3, <2>4, <2>5, <2>6, <2>7, <2>8
<1> QED
  BY <1>1, <1>2

----------------------------------------------------------------------------
(* The inductive invariant, in parts. *)

\* What has not happened yet.
NotYet ==
    /\ pc \in {"start", "resolve"} => status = 0 /\ body = << >> /\ i = 0
    /\ pc = "start" => chunks = << >>
    /\ pc = "write" => status = 206
    /\ status = 206 => pc \in {"write", "done"}

\* The chunks from the first to the last one of the range are resolved in turn.
InTurn ==
    /\ pc = "resolve" => chunkStart + Len(chunks) <= chunkEnd
    /\ pc = "write" => chunkStart + Len(chunks) = chunkEnd + 1

\* Where the slices of the first k chunks end if the chunks are whole.
Edge(k) ==
    IF k = 0 THEN from
    ELSE IF to + 1 < (chunkStart + k) * ChunkSize THEN to + 1 ELSE (chunkStart + k) * ChunkSize

\* What has been sent ends there, or before; if there, it is the range so far,
\* and it is there if all those chunks were whole.
UpToEdge ==
    /\ from + Len(body) <= Edge(i)
    /\ from + Len(body) = Edge(i) => body = Offsets(from, Edge(i))
    /\ \A j \in 1 .. i : Reached(j)
    /\ (\A j \in 1 .. i : Complete(j)) => from + Len(body) = Edge(i)

SendsInOrder == (pc = "write" => UpToEdge) /\ NeverMoreThanDeclared /\ BodyIsTheRange

Inv == TypeOK /\ NotYet /\ RangeIsWhatWasAsked /\ InTurn /\ SendsInOrder

\* A handler starts with nothing sent.
LEMMA InitInv == Init => Inv
<1> SUFFICES ASSUME Init PROVE Inv
  OBVIOUS
<1>1. TypeOK
  <2>1. size \in 0 .. MaxSize /\ i \in 0 .. Len(chunks)
    BY RangeServingAssumption DEF Init
  <2>2. chunks \in Seq(0 .. ChunkSize) /\ recorded \in Seq(Nat) /\ body \in Seq(Nat)
    BY DEF Init
  <2>3. gone \in BOOLEAN
    BY DEF Init
  <2> QED
    BY <2>1, <2>2, <2>3 DEF Init, TypeOK, Tiers
<1>2. pc = "start" /\ status = 0
  BY DEF Init
<1>3. NotYet /\ RangeIsWhatWasAsked /\ InTurn
  BY DEF Init, NotYet, RangeIsWhatWasAsked, InTurn
<1>4. SendsInOrder
  BY <1>2 DEF SendsInOrder, NeverMoreThanDeclared, BodyIsTheRange, BrokenIsShort, BodyIsAPrefix,
              WholeRangeArrives
<1> QED
  BY <1>1, <1>3, <1>4 DEF Inv

----------------------------------------------------------------------------
(* Sequences of offsets, and chunks as quotients. *)

\* The offsets from a on, m of them, as a sequence.
LEMMA OffsetsType ==
    ASSUME NEW a \in Nat, NEW m \in Nat
    PROVE  Offsets(a, a + m) \in Seq(Nat) /\ Len(Offsets(a, a + m)) = m
  BY DEF Offsets

\* Two runs of offsets, the second from where the first ends, are one.
LEMMA OffsetsJoin ==
    ASSUME NEW a \in Nat, NEW m \in Nat, NEW n \in Nat
    PROVE  Offsets(a, a + m) \o Offsets(a + m, a + m + n) = Offsets(a, a + m + n)
<1> DEFINE first  == Offsets(a, a + m)
           second == Offsets(a + m, a + m + n)
           both   == Offsets(a, a + (m + n))
<1>1. first \in Seq(Nat) /\ Len(first) = m
  BY OffsetsType
<1>2. second \in Seq(Nat) /\ Len(second) = n
  <2>1. a + m \in Nat
    OBVIOUS
  <2> QED
    BY <2>1, OffsetsType
<1>3. both \in Seq(Nat) /\ Len(both) = m + n
  BY OffsetsType
<1>4. \A k \in 1 .. m : first[k] = a + k - 1
  BY DEF Offsets
<1>5. \A k \in 1 .. n : second[k] = a + m + k - 1
  BY DEF Offsets
<1>6. \A k \in 1 .. m + n : both[k] = a + k - 1
  BY DEF Offsets
<1> HIDE DEF first, second, both
<1>7. /\ first \o second \in Seq(Nat) /\ Len(first \o second) = m + n
      /\ \A k \in 1 .. m + n : (first \o second)[k] = IF k <= m THEN first[k] ELSE second[k - m]
  BY <1>1, <1>2, ConcatProperties
<1>8. ASSUME NEW k \in 1 .. m + n PROVE (first \o second)[k] = both[k]
  <2>1. CASE k <= m
    <3>1. k \in 1 .. m /\ (first \o second)[k] = first[k]
      BY <1>7, <2>1
    <3> QED
      BY <1>4, <1>6, <3>1
  <2>2. CASE k > m
    <3>1. k - m \in 1 .. n
      BY <2>2
    <3>2. (first \o second)[k] = second[k - m]
      BY <1>7, <2>2
    <3>3. second[k - m] = a + m + (k - m) - 1
      BY <1>5, <3>1
    <3> QED
      BY <1>6, <3>2, <3>3
  <2>3. k <= m \/ k > m
    OBVIOUS
  <2> QED
    BY <2>1, <2>2, <2>3, Zenon
<1>9. first \o second = both
  BY <1>3, <1>7, <1>8, SeqEqual
<1> QED
  BY <1>9 DEF first, second, both

\* A product is a natural, and grows with its factors.
LEMMA Products ==
    /\ \A a, b \in Nat : a * b \in Nat
    /\ \A a, b, c \in Nat : a <= b => a * c <= b * c
    /\ \A a, c \in Nat : (a + 1) * c = a * c + c
  OBVIOUS

\* A number lies in the chunk that its quotient names.
LEMMA Quotients ==
    \A a \in Nat, b \in Nat \ {0} :
        a \div b \in Nat /\ (a \div b) * b <= a /\ a < (a \div b) * b + b
  OBVIOUS

\* A later byte is in no earlier chunk.
LEMMA ChunksInOrder ==
    ASSUME NEW a \in Nat, NEW b \in Nat, NEW c \in Nat \ {0}, a <= b
    PROVE  a \div c <= b \div c
<1> DEFINE x == a \div c
           y == b \div c
<1>1. x \in Nat /\ y \in Nat /\ x * c <= a /\ b < y * c + c
  BY Quotients
<1> HIDE DEF x, y
<1>2. x * c \in Nat /\ y * c \in Nat /\ (y + 1) * c = y * c + c
  BY <1>1, Products
<1>3. y + 1 <= x => (y + 1) * c <= x * c
  <2>1. y + 1 \in Nat
    BY <1>1
  <2> QED
    BY <1>1, <2>1, Products
<1>4. ~(y + 1 <= x)
  BY <1>1, <1>2, <1>3
<1>5. x <= y
  BY <1>1, <1>4
<1> QED
  BY <1>5 DEF x, y

\* Where the range begins and ends, in chunks.
LEMMA ChunksOfRange ==
    ASSUME TypeOK
    PROVE  /\ chunkStart \in Nat /\ chunkEnd \in Nat
           /\ chunkStart * ChunkSize <= from /\ from < chunkStart * ChunkSize + ChunkSize
           /\ chunkEnd * ChunkSize <= to /\ to < chunkEnd * ChunkSize + ChunkSize
<1>1. from \in Nat /\ to \in Nat /\ ChunkSize \in Nat \ {0}
  BY RangeServingAssumption DEF TypeOK
<1> QED
  BY <1>1, Quotients DEF chunkStart, chunkEnd

----------------------------------------------------------------------------
(* Slices. *)

\* Where the next slice begins, how far it can go, and how far it goes if the
\* chunk is whole.
LEMMA NextSlice ==
    ASSUME Inv, Writing
    PROVE  /\ chunkByteBase \in Nat /\ sliceStart \in Nat /\ sliceEnd \in Int
           /\ Edge(i) \in Nat /\ Edge(i + 1) \in Nat
           /\ chunkByteBase + sliceStart = Edge(i)
           /\ chunkByteBase + sliceEnd <= Edge(i + 1)
           /\ Edge(i) < Edge(i + 1) /\ Edge(i + 1) <= to + 1
           /\ sliceStart < sliceEnd => Reached(i + 1)
           /\ Complete(i + 1) => chunkByteBase + sliceEnd = Edge(i + 1)
<1> DEFINE base == chunkByteBase
           c == chunks[i + 1]
<1>1. /\ i \in Nat /\ from \in Nat /\ to \in Nat /\ ChunkSize \in Nat \ {0}
      /\ from <= to /\ c \in 0 .. ChunkSize
  BY RangeServingAssumption DEF Inv, TypeOK, RangeIsWhatWasAsked, Writing
<1>2. /\ chunkStart \in Nat /\ chunkEnd \in Nat
      /\ chunkStart * ChunkSize <= from /\ from < chunkStart * ChunkSize + ChunkSize
      /\ chunkEnd * ChunkSize <= to
  BY ChunksOfRange DEF Inv
<1>3. chunkStart + i \in Nat /\ chunkStart <= chunkStart + i /\ chunkStart + i <= chunkEnd
  BY <1>1, <1>2 DEF Inv, InTurn, TypeOK, Writing
<1>4. base \in Nat /\ chunkStart * ChunkSize <= base /\ base <= chunkEnd * ChunkSize
  BY <1>1, <1>2, <1>3, Products DEF chunkByteBase
<1>5. (chunkStart + (i + 1)) * ChunkSize = base + ChunkSize
  <2>1. chunkStart + (i + 1) = (chunkStart + i) + 1
    BY <1>1, <1>2
  <2> QED
    BY <1>1, <1>3, <2>1, Products DEF chunkByteBase
<1>6. i > 0 => from < base
  <2> SUFFICES ASSUME i > 0 PROVE from < base
    OBVIOUS
  <2>1. chunkStart + 1 \in Nat /\ chunkStart + 1 <= chunkStart + i
    BY <1>1, <1>2
  <2>2. (chunkStart + 1) * ChunkSize <= base
    BY <1>1, <1>3, <2>1, Products DEF chunkByteBase
  <2> QED
    BY <1>1, <1>2, <1>4, <2>2, Products
<1>7. i = 0 => base <= from
  BY <1>1, <1>2 DEF chunkByteBase
<1>8. (chunkStart + i) * ChunkSize = base
  BY DEF chunkByteBase
<1>9. chunkStart + (i + 1) - 1 = chunkStart + i
  BY <1>1, <1>2
<1>10. Edge(i) = (IF i = 0 THEN from ELSE IF to + 1 < base THEN to + 1 ELSE base)
  BY <1>8 DEF Edge
<1>11. Edge(i + 1) = IF to + 1 < base + ChunkSize THEN to + 1 ELSE base + ChunkSize
  BY <1>1, <1>5 DEF Edge
<1>12. sliceStart = (IF from > base THEN from - base ELSE 0)
  BY DEF sliceStart
<1>13. sliceEnd = IF to - base + 1 < c THEN to - base + 1 ELSE c
  BY DEF sliceEnd
<1>14. Reached(i + 1) <=> (c > 0 /\ base + c > from)
  BY <1>8, <1>9 DEF Reached
<1>15. Complete(i + 1) <=>
          c >= (IF to < base + ChunkSize THEN to + 1 ELSE base + ChunkSize) - base
  BY <1>8, <1>9 DEF Complete, Due
<1> HIDE DEF base, c
<1>16. /\ Edge(i) \in Nat /\ Edge(i + 1) \in Nat /\ sliceStart \in Nat /\ sliceEnd \in Int
       /\ base + sliceStart = Edge(i)
       /\ base + sliceEnd <= Edge(i + 1)
       /\ Edge(i) < Edge(i + 1) /\ Edge(i + 1) <= to + 1
  BY <1>1, <1>2, <1>4, <1>6, <1>7, <1>10, <1>11, <1>12, <1>13
<1>17. sliceStart < sliceEnd => Reached(i + 1)
  BY <1>1, <1>4, <1>12, <1>13, <1>14
<1>18. Complete(i + 1) => base + sliceEnd = Edge(i + 1)
  BY <1>1, <1>4, <1>11, <1>13, <1>15
<1> QED
  BY <1>4, <1>16, <1>17, <1>18 DEF base

\* The first m bytes of the next slice go on where the whole range so far ends.
LEMMA PutExtends ==
    ASSUME Inv, Writing, sliceStart < sliceEnd,
           NEW m \in 0 .. (sliceEnd - sliceStart), Put(m)
    PROVE  /\ body' \in Seq(Nat)
           /\ m \in Nat
           /\ Edge(i) + m <= Edge(i + 1)
           /\ from + Len(body') <= Edge(i) + m
           /\ from + Len(body') = Edge(i) + m => body' = Offsets(from, Edge(i) + m)
           /\ (\A j \in 1 .. i : Complete(j)) => from + Len(body') = Edge(i) + m
<1> DEFINE more == Offsets(Edge(i), Edge(i) + m)
<1>1. /\ chunkByteBase \in Nat /\ sliceStart \in Nat /\ sliceEnd \in Int
      /\ Edge(i) \in Nat /\ Edge(i + 1) \in Nat
      /\ chunkByteBase + sliceStart = Edge(i)
      /\ chunkByteBase + sliceEnd <= Edge(i + 1)
  BY NextSlice
<1>2. m \in Nat /\ m <= sliceEnd - sliceStart
  BY <1>1
<1>3. more \in Seq(Nat) /\ Len(more) = m
  BY <1>1, <1>2, OffsetsType
<1>4. body \in Seq(Nat) /\ body' = body \o more
  BY <1>1 DEF Inv, TypeOK, Put
<1>5. body' \in Seq(Nat) /\ Len(body') = Len(body) + m
  <2> HIDE DEF more
  <2> QED
    BY <1>3, <1>4, ConcatProperties
<1>6. from \in Nat /\ Len(body) \in Nat
  BY <1>4 DEF Inv, TypeOK
<1>7. /\ from + Len(body) <= Edge(i)
      /\ from + Len(body) = Edge(i) => body = Offsets(from, Edge(i))
      /\ (\A j \in 1 .. i : Complete(j)) => from + Len(body) = Edge(i)
  BY DEF Inv, SendsInOrder, UpToEdge, Writing
<1>8. ASSUME from + Len(body') = Edge(i) + m PROVE body' = Offsets(from, Edge(i) + m)
  <2>1. from + Len(body) = Edge(i)
    BY <1>1, <1>2, <1>5, <1>6, <1>8
  <2>2. body = Offsets(from, from + Len(body))
    BY <1>7, <2>1
  <2>3. body' = Offsets(from, from + Len(body)) \o Offsets(from + Len(body), from + Len(body) + m)
    BY <1>4, <2>1, <2>2
  <2>4. body' = Offsets(from, from + Len(body) + m)
    BY <1>2, <1>6, <2>3, OffsetsJoin
  <2> QED
    BY <2>1, <2>4
<1> QED
  BY <1>1, <1>2, <1>5, <1>6, <1>7, <1>8

\* What follows for the body, whether or not it is the whole slice.
LEMMA PutKeepsOrder ==
    ASSUME Inv, Writing, sliceStart < sliceEnd,
           NEW m \in 0 .. (sliceEnd - sliceStart), Put(m),
           UNCHANGED <<from, to, chunks, status>>
    PROVE  NeverMoreThanDeclared' /\ BrokenIsShort' /\ BodyIsAPrefix'
<1>1. /\ body' \in Seq(Nat) /\ m \in Nat
      /\ Edge(i) + m <= Edge(i + 1)
      /\ from + Len(body') <= Edge(i) + m
      /\ from + Len(body') = Edge(i) + m => body' = Offsets(from, Edge(i) + m)
      /\ (\A j \in 1 .. i : Complete(j)) => from + Len(body') = Edge(i) + m
  BY PutExtends
<1>2. Edge(i) \in Nat /\ Edge(i + 1) \in Nat /\ Edge(i + 1) <= to + 1
  BY NextSlice
<1>3. /\ from \in Nat /\ to \in Nat /\ Len(body') \in Nat
      /\ i \in Nat /\ i <= Len(chunks) - 1 /\ Len(chunks) \in Nat
  BY <1>1 DEF Inv, TypeOK, Writing
<1>4. from + Len(body') <= to + 1
  BY <1>1, <1>2, <1>3
<1>5. NeverMoreThanDeclared'
  BY <1>3, <1>4 DEF NeverMoreThanDeclared
<1>6. BrokenIsShort'
  <2> SUFFICES ASSUME Len(body') = to - from + 1 PROVE body' = Offsets(from, to + 1)
    BY DEF BrokenIsShort, Offsets
  <2>1. from + Len(body') = Edge(i) + m /\ Edge(i) + m = to + 1
    BY <1>1, <1>2, <1>3
  <2> QED
    BY <1>1, <2>1
<1>7. BodyIsAPrefix'
  <2>1. \A j \in 1 .. Len(chunks) - 1 : (Reached(j)' <=> Reached(j)) /\ (Complete(j)' <=> Complete(j))
    BY DEF Reached, Complete, Due, chunkStart
  <2> SUFFICES ASSUME \A j \in 1 .. Len(chunks) - 1 : Reached(j) => Complete(j)
               PROVE  body' = Offsets(from, from + Len(body'))
    BY <2>1 DEF BodyIsAPrefix, Offsets
  <2>2. \A j \in 1 .. i : Reached(j)
    BY DEF Inv, SendsInOrder, UpToEdge, Writing
  <2>3. \A j \in 1 .. i : Complete(j)
    BY <1>3, <2>2
  <2> QED
    BY <1>1, <2>3
<1> QED
  BY <1>5, <1>6, <1>7

----------------------------------------------------------------------------
(* The steps. *)

\* Answers without a range say nothing about ranges.
LEMMA NoRangeSent ==
    ASSUME pc' # "write", status' # 206
    PROVE  SendsInOrder'
  BY DEF SendsInOrder, NeverMoreThanDeclared, BodyIsTheRange, BrokenIsShort, BodyIsAPrefix,
         WholeRangeArrives

\* proxyFull streams some beginning of the object.
LEMMA ProxyFullStep == Inv /\ ProxyFull => Inv'
<1> SUFFICES ASSUME Inv, ProxyFull PROVE Inv'
  OBVIOUS
<1>1. body' \in Seq(Nat)
  <2>1. \A m \in 0 .. MaxSize : Offsets(0, m) \in Seq(Nat)
    BY RangeServingAssumption DEF Offsets
  <2> QED
    BY <2>1 DEF ProxyFull, Inv, TypeOK
<1>2. status' \in {200, 502} /\ pc' = "done"
  BY DEF ProxyFull, Reply
<1>3. UNCHANGED <<req, size, from, to, chunks, tier, recorded, i, served, gone>>
  BY DEF ProxyFull
<1>4. TypeOK' /\ NotYet' /\ RangeIsWhatWasAsked' /\ InTurn'
  BY <1>1, <1>2, <1>3 DEF Inv, TypeOK, NotYet, RangeIsWhatWasAsked, InTurn
<1> QED
  BY <1>2, <1>4, NoRangeSent DEF Inv

\* Answers without a body.
LEMMA RefusalStep == Inv /\ (Refuse \/ SizeFails \/ ChunkFails) => Inv'
<1> SUFFICES ASSUME Inv, Refuse \/ SizeFails \/ ChunkFails PROVE Inv'
  OBVIOUS
<1>1. status' \in {400, 405, 502} /\ pc' = "done"
  BY DEF Refuse, SizeFails, ChunkFails, Reply
<1>2. UNCHANGED <<req, size, from, to, chunks, tier, recorded, body, i, served, gone>>
  BY DEF Refuse, SizeFails, ChunkFails
<1>3. TypeOK' /\ NotYet' /\ RangeIsWhatWasAsked' /\ InTurn'
  BY <1>1, <1>2 DEF Inv, TypeOK, NotYet, RangeIsWhatWasAsked, InTurn
<1> QED
  BY <1>1, <1>3, NoRangeSent DEF Inv

\* The size decides what the range is.
LEMMA SizeKnownStep == ASSUME NEW s \in 0 .. MaxSize, Inv, SizeKnown(s) PROVE Inv'
<1> USE RangeServingAssumption
<1>1. s \in Nat /\ size' = s
  BY DEF SizeKnown
<1>2. /\ UNCHANGED <<req, chunks, tier, recorded, body, i, served, gone>>
      /\ status = 0 /\ body = << >> /\ i = 0 /\ chunks = << >>
  BY DEF SizeKnown, Accepted, Inv, NotYet
<1>3. CASE status' = 200 /\ pc' = "done" /\ UNCHANGED <<from, to>>
  <2>1. TypeOK' /\ NotYet' /\ RangeIsWhatWasAsked' /\ InTurn'
    BY <1>1, <1>2, <1>3 DEF Inv, TypeOK, NotYet, RangeIsWhatWasAsked, InTurn
  <2> QED
    BY <1>3, <2>1, NoRangeSent DEF Inv
<1>4. CASE req.range # NoRange
  <2> DEFINE r == resolveByteRange(req.range, s)
  <2>1. req.range \in Headers
    BY <1>4 DEF Inv, TypeOK, Requests
  <2>2. /\ r.ok \in BOOLEAN
        /\ r.ok => /\ r.start \in Nat /\ r.end \in Nat /\ r.start <= r.end
                   /\ r.start .. r.end = Wanted(req.range, s)
        /\ ~r.ok => Wanted(req.range, s) = {}
    BY <1>1, <2>1, Resolves
  <2>3. CASE ~r.ok
    <3>1. status' = 416 /\ pc' = "done" /\ UNCHANGED <<from, to>>
      BY <1>4, <2>3 DEF SizeKnown, Reply
    <3>2. Wanted(req'.range, size') = {}
      BY <1>1, <1>2, <2>2, <2>3
    <3>3. TypeOK' /\ NotYet' /\ RangeIsWhatWasAsked' /\ InTurn'
      BY <1>1, <1>2, <3>1, <3>2 DEF Inv, TypeOK, NotYet, RangeIsWhatWasAsked, InTurn
    <3> QED
      BY <3>1, <3>3, NoRangeSent DEF Inv
  <2>4. CASE r.ok
    <3>1. from' = r.start /\ to' = r.end /\ pc' = "resolve" /\ status' = status
      BY <1>4, <2>4 DEF SizeKnown
    <3>2. /\ from' \in Nat /\ to' \in Nat /\ from' <= to'
          /\ from' .. to' = Wanted(req'.range, size')
      BY <1>1, <1>2, <2>2, <2>4, <3>1
    <3> HIDE DEF r
    <3>3. TypeOK' /\ NotYet' /\ RangeIsWhatWasAsked'
      BY <1>1, <1>2, <3>1, <3>2 DEF Inv, TypeOK, NotYet, RangeIsWhatWasAsked
    <3>4. InTurn'
      <4>1. chunkStart' \in Nat /\ chunkEnd' \in Nat
        BY <3>2, Quotients DEF chunkStart, chunkEnd
      <4>2. chunkStart' <= chunkEnd'
        BY <3>2, ChunksInOrder DEF chunkStart, chunkEnd
      <4>3. pc' = "resolve" /\ Len(chunks') = 0
        BY <1>2, <3>1
      <4>4. chunkStart' + Len(chunks') <= chunkEnd'
        <5>1. \A x, y \in Nat : x <= y => x + 0 <= y
          OBVIOUS
        <5> QED
          BY <4>1, <4>2, <4>3, <5>1
      <4> QED
        BY <4>3, <4>4 DEF InTurn
    <3> QED
      BY <1>2, <3>1, <3>3, <3>4, NoRangeSent DEF Inv
  <2> QED
    BY <2>2, <2>3, <2>4
<1> QED
  BY <1>3, <1>4 DEF SizeKnown, Reply

\* A chunk is resolved; after the last one nothing is written yet.
LEMMA ChunkResolvedStep ==
    ASSUME NEW t \in Tiers, NEW len \in 0 .. ChunkSize, Inv, ChunkResolved(t, len)
    PROVE  Inv'
<1> USE RangeServingAssumption
<1>1. /\ UNCHANGED <<req, size, from, to, body, i, served, gone>>
      /\ pc = "resolve" /\ status = 0 /\ body = << >> /\ i = 0
  BY DEF ChunkResolved, Inv, NotYet
<1>2. chunks' \in Seq(0 .. ChunkSize) /\ Len(chunks') = Len(chunks) + 1 /\ Len(chunks) \in Nat
  BY DEF ChunkResolved, Inv, TypeOK
<1>3. chunkStart \in Nat /\ chunkEnd \in Nat
  BY ChunksOfRange DEF Inv
<1>4. recorded' \in Seq(Nat)
  BY <1>3 DEF ChunkResolved, Inv, TypeOK
<1>5. tier' \in Tiers
  BY DEF ChunkResolved, Slower, Inv, TypeOK
<1>6. IF chunkStart + Len(chunks) = chunkEnd
      THEN pc' = "write" /\ status' = 206 ELSE UNCHANGED <<pc, status>>
  BY DEF ChunkResolved
<1>7. TypeOK' /\ NotYet' /\ RangeIsWhatWasAsked'
  BY <1>1, <1>2, <1>4, <1>5, <1>6 DEF Inv, TypeOK, NotYet, RangeIsWhatWasAsked
<1>8. InTurn'
  <2>1. chunkStart' = chunkStart /\ chunkEnd' = chunkEnd
    BY <1>1 DEF chunkStart, chunkEnd
  <2>2. chunkStart + Len(chunks) <= chunkEnd
    BY <1>1 DEF Inv, InTurn
  <2> QED
    BY <1>1, <1>2, <1>3, <1>6, <2>1, <2>2 DEF InTurn
<1>9. CASE pc' = "write" /\ status' = 206
  <2>1. from \in Nat /\ to \in Nat /\ from <= to /\ Len(body') = 0
    BY <1>1 DEF Inv, TypeOK, RangeIsWhatWasAsked
  <2>2. Edge(i)' = from
    BY <1>1 DEF Edge
  <2>3. body' = Offsets(from, from + 0)
    <3>1. Offsets(from, from + 0) \in Seq(Nat) /\ Len(Offsets(from, from + 0)) = 0
      <4>1. 0 \in Nat
        OBVIOUS
      <4> QED
        BY <2>1, <4>1, OffsetsType
    <3> QED
      BY <1>1, <3>1
  <2>4. UpToEdge'
    BY <1>1, <2>1, <2>2, <2>3 DEF UpToEdge, Offsets
  <2>5. NeverMoreThanDeclared' /\ BodyIsTheRange'
    BY <1>1, <1>9, <2>1, <2>3
    DEF NeverMoreThanDeclared, BodyIsTheRange, BrokenIsShort, BodyIsAPrefix, WholeRangeArrives, Offsets
  <2> QED
    BY <1>7, <1>8, <2>4, <2>5 DEF Inv, SendsInOrder
<1>10. CASE UNCHANGED <<pc, status>>
  BY <1>1, <1>7, <1>8, <1>10, NoRangeSent DEF Inv
<1> QED
  BY <1>6, <1>9, <1>10

\* The next slice is written.
LEMMA WriteSliceStep == Inv /\ WriteSlice => Inv'
<1> SUFFICES ASSUME Inv, WriteSlice PROVE Inv'
  OBVIOUS
<1> DEFINE m == sliceEnd - sliceStart
<1>1. /\ UNCHANGED <<pc, req, size, from, to, chunks, tier, recorded, status, served, gone>>
      /\ Writing /\ sliceStart < sliceEnd /\ Put(m)
      /\ i' = i + 1 /\ pc = "write" /\ status = 206
  BY DEF WriteSlice, Writing, Inv, NotYet
<1>2. /\ chunkByteBase \in Nat /\ sliceStart \in Nat /\ sliceEnd \in Int
      /\ Edge(i) \in Nat /\ Edge(i + 1) \in Nat
      /\ chunkByteBase + sliceStart = Edge(i)
      /\ chunkByteBase + sliceEnd <= Edge(i + 1)
      /\ Reached(i + 1)
      /\ Complete(i + 1) => chunkByteBase + sliceEnd = Edge(i + 1)
  BY <1>1, NextSlice
<1>3. m \in 0 .. (sliceEnd - sliceStart) /\ Edge(i) + m = chunkByteBase + sliceEnd
  BY <1>1, <1>2
<1> HIDE DEF m
<1>4. /\ body' \in Seq(Nat) /\ m \in Nat
      /\ from + Len(body') <= Edge(i) + m
      /\ from + Len(body') = Edge(i) + m => body' = Offsets(from, Edge(i) + m)
      /\ (\A j \in 1 .. i : Complete(j)) => from + Len(body') = Edge(i) + m
  BY <1>1, <1>3, PutExtends
<1>5. i \in Nat /\ i' \in 0 .. Len(chunks) /\ from \in Nat /\ Len(body') \in Nat
  BY <1>1, <1>4 DEF Writing, Inv, TypeOK
<1>6. TypeOK' /\ NotYet' /\ RangeIsWhatWasAsked' /\ InTurn'
  BY <1>1, <1>4, <1>5 DEF Inv, TypeOK, NotYet, RangeIsWhatWasAsked, InTurn, chunkStart, chunkEnd
<1>7. UpToEdge'
  <2>1. Edge(i)' = Edge(i + 1)
    BY <1>1 DEF Edge, chunkStart
  <2>2. \A j \in 1 .. i + 1 : (Reached(j)' <=> Reached(j)) /\ (Complete(j)' <=> Complete(j))
    BY <1>1 DEF Reached, Complete, Due, chunkStart
  <2>3. \A j \in 1 .. i + 1 : Reached(j)'
    <3>1. \A j \in 1 .. i : Reached(j)
      BY <1>1 DEF Inv, SendsInOrder, UpToEdge
    <3> QED
      BY <1>2, <1>5, <2>2, <3>1
  <2>4. from + Len(body') <= Edge(i + 1)
    BY <1>2, <1>3, <1>4, <1>5
  <2>5. ASSUME from + Len(body') = Edge(i + 1) PROVE body' = Offsets(from, Edge(i + 1))
    <3>1. Edge(i) + m = Edge(i + 1)
      BY <1>2, <1>3, <1>4, <1>5, <2>5
    <3> QED
      BY <1>4, <2>5, <3>1
  <2>6. ASSUME \A j \in 1 .. i + 1 : Complete(j) PROVE from + Len(body') = Edge(i + 1)
    <3>1. Complete(i + 1) /\ \A j \in 1 .. i : Complete(j)
      BY <1>5, <2>6
    <3> QED
      BY <1>2, <1>3, <1>4, <3>1
  <2>7. /\ from' + Len(body') <= Edge(i)'
        /\ from' + Len(body') = Edge(i)' => body' = Offsets(from', Edge(i)')
    BY <1>1, <2>1, <2>4, <2>5
  <2>8. \A j \in 1 .. i' : Reached(j)'
    BY <1>1, <2>3
  <2>9. (\A j \in 1 .. i' : Complete(j)') => from' + Len(body') = Edge(i)'
    BY <1>1, <2>1, <2>2, <2>6
  <2>10. Offsets(from, Edge(i))' = Offsets(from', Edge(i)')
    BY DEF Offsets
  <2> QED
    BY <2>7, <2>8, <2>9, <2>10 DEF UpToEdge
<1>8. NeverMoreThanDeclared' /\ BrokenIsShort' /\ BodyIsAPrefix'
  BY <1>1, <1>3, PutKeepsOrder
<1>9. WholeRangeArrives'
  BY <1>1 DEF WholeRangeArrives
<1> QED
  BY <1>6, <1>7, <1>8, <1>9 DEF Inv, SendsInOrder, BodyIsTheRange

\* Part of it is written, and the handler gives up.
LEMMA WriteFailsStep == Inv /\ WriteFails => Inv'
<1> SUFFICES ASSUME Inv, WriteFails PROVE Inv'
  OBVIOUS
<1>1. /\ UNCHANGED <<req, size, from, to, chunks, tier, recorded, status, i, served>>
      /\ Writing /\ sliceStart < sliceEnd
      /\ pc = "write" /\ pc' = "done" /\ gone' = TRUE
  BY DEF WriteFails, Writing
<1>2. PICK m \in 0 .. (sliceEnd - sliceStart) : Put(m)
  BY DEF WriteFails
<1>3. body' \in Seq(Nat)
  BY <1>1, <1>2, PutExtends
<1>4. TypeOK' /\ NotYet' /\ RangeIsWhatWasAsked' /\ InTurn'
  BY <1>1, <1>3 DEF Inv, TypeOK, NotYet, RangeIsWhatWasAsked, InTurn
<1>5. NeverMoreThanDeclared' /\ BrokenIsShort' /\ BodyIsAPrefix'
  BY <1>1, <1>2, PutKeepsOrder
<1>6. WholeRangeArrives'
  BY <1>1 DEF WholeRangeArrives
<1> QED
  BY <1>1, <1>4, <1>5, <1>6 DEF Inv, SendsInOrder, BodyIsTheRange

\* The answer is over: the loop does not stop at a whole chunk, nor before the end.
LEMMA FinishStep == Inv /\ Finish => Inv'
<1> SUFFICES ASSUME Inv, Finish PROVE Inv'
  OBVIOUS
<1>1. /\ UNCHANGED <<req, size, from, to, chunks, tier, recorded, status, body, i, gone>>
      /\ pc = "write" /\ pc' = "done" /\ served' = Len(body)
  BY DEF Finish
<1>2. TypeOK' /\ NotYet' /\ RangeIsWhatWasAsked' /\ InTurn'
  BY <1>1 DEF Inv, TypeOK, NotYet, RangeIsWhatWasAsked, InTurn
<1>3. NeverMoreThanDeclared' /\ BrokenIsShort' /\ BodyIsAPrefix'
  BY <1>1 DEF Inv, SendsInOrder, BodyIsTheRange, NeverMoreThanDeclared, BrokenIsShort,
              BodyIsAPrefix, Offsets, Reached, Complete, Due, chunkStart
<1>4. WholeRangeArrives'
  <2>1. \A j \in 1 .. Len(chunks) : Complete(j)' <=> Complete(j)
    BY <1>1 DEF Complete, Due, chunkStart
  <2> SUFFICES ASSUME req.method = "GET", \A j \in 1 .. Len(chunks) : Complete(j)
               PROVE  body = Offsets(from, to + 1)
    BY <1>1, <2>1 DEF WholeRangeArrives, Offsets
  <2>2. i \in Nat /\ Len(chunks) \in Nat /\ i <= Len(chunks) /\ from \in Nat /\ to \in Nat
    BY DEF Inv, TypeOK
  <2>3. i = Len(chunks)
    <3> SUFFICES ASSUME Writing, sliceStart >= sliceEnd PROVE FALSE
      BY <2>2 DEF Finish
    <3>1. Complete(i + 1)
      BY <2>2 DEF Writing
    <3> QED
      BY <3>1, NextSlice
  <2>4. from + Len(body) = Edge(i) /\ body = Offsets(from, Edge(i))
    BY <1>1, <2>2, <2>3 DEF Inv, SendsInOrder, UpToEdge
  <2>5. Edge(i) = to + 1
    <3>1. /\ chunkStart \in Nat /\ chunkEnd \in Nat
          /\ to < chunkEnd * ChunkSize + ChunkSize
          /\ chunkStart * ChunkSize <= from /\ chunkEnd * ChunkSize <= to
      BY ChunksOfRange DEF Inv
    <3>2. chunkStart + i = chunkEnd + 1
      BY <1>1, <2>3 DEF Inv, InTurn
    <3>3. (chunkStart + i) * ChunkSize = chunkEnd * ChunkSize + ChunkSize
      BY <3>1, <3>2, Products, RangeServingAssumption
    <3>4. chunkEnd * ChunkSize \in Nat /\ ChunkSize \in Nat
      BY <3>1, Products, RangeServingAssumption
    <3>5. i # 0
      <4> SUFFICES ASSUME chunkStart = chunkEnd + 1 PROVE FALSE
        BY <3>1, <3>2
      <4>1. chunkStart * ChunkSize = chunkEnd * ChunkSize + ChunkSize
        BY <3>1, Products, RangeServingAssumption
      <4>2. from <= to
        BY <1>1 DEF Inv, RangeIsWhatWasAsked
      <4> QED
        BY <2>2, <3>1, <3>4, <4>1, <4>2
    <3>6. ~(to + 1 < (chunkStart + i) * ChunkSize) => (chunkStart + i) * ChunkSize = to + 1
      BY <2>2, <3>1, <3>3, <3>4
    <3> QED
      BY <3>5, <3>6 DEF Edge
  <2> QED
    BY <2>4, <2>5
<1> QED
  BY <1>1, <1>2, <1>3, <1>4 DEF Inv, SendsInOrder, BodyIsTheRange

----------------------------------------------------------------------------
(* The theorems. *)

\* The invariant holds of every request.
THEOREM Invariance == Spec => []Inv
<1>1. Inv /\ [Next]_vars => Inv'
  <2> SUFFICES ASSUME Inv, [Next]_vars PROVE Inv'
    OBVIOUS
  <2>1. CASE UNCHANGED vars
    BY <2>1 DEF vars, Inv, TypeOK, NotYet, RangeIsWhatWasAsked, InTurn, SendsInOrder, UpToEdge, Edge,
                NeverMoreThanDeclared, BodyIsTheRange, BrokenIsShort, BodyIsAPrefix,
                WholeRangeArrives, Offsets, Reached, Complete, Due, chunkStart, chunkEnd
  <2> QED
    BY <2>1, ProxyFullStep, RefusalStep, SizeKnownStep, ChunkResolvedStep, WriteSliceStep,
       WriteFailsStep, FinishStep DEF Next, Done
<1> QED
  BY InitInv, <1>1, PTL DEF Spec

\* The handler's variables keep their types (handler.go:44-149).
THEOREM TypesHold == Spec => []TypeOK
  BY Invariance, PTL DEF Inv

\* Every request is served exactly the bytes its header asks of the object, and
\* refused only if there are none (handler.go:209-268).
THEOREM RightRangeHolds == Spec => []RangeIsWhatWasAsked
  BY Invariance, PTL DEF Inv

\* No answer runs past its Content-Length, whatever the chunks turn out to be
\* (handler.go:114-149).
THEOREM DeclaredLengthHolds == Spec => []NeverMoreThanDeclared
  BY Invariance, PTL DEF Inv, SendsInOrder

\* A body is the range that was asked for if its length is, the beginning of it
\* unless a chunk was cut, and all of it if the chunks were whole (handler.go:121-143).
THEOREM RightBodyHolds == Spec => []BodyIsTheRange
  BY Invariance, PTL DEF Inv, SendsInOrder

=============================================================================
