---------------------------- MODULE RangeServing ----------------------------
(***************************************************************************)
(* One request through Handler.ServeHTTP (src/internal/proxy/handler.go):  *)
(* what it asks for, which chunks are resolved, what the client gets.      *)
(*                                                                         *)
(* Sent bytes are named by their offsets in the object.  The size is what  *)
(* ObjectSize has cached, which may be out of date; a chunk may come short *)
(* (a cut body, a torn file, a shrunken object) and has any length here.   *)
(* The caches behind resolveChunk and the tracker behind Record have       *)
(* modules of their own; the latency metrics are left out.                 *)
(***************************************************************************)
EXTENDS Integers, Sequences, FiniteSetsExt

CONSTANTS
    ChunkSize,  \* cache.ChunkSize
    MaxSize,    \* bound: the sizes that the object store may report
    MaxNumber,  \* bound: the numbers that stand in a Range header
    Empty,      \* no text before, or after, the hyphen of a Range header
    Junk,       \* text that ParseInt rejects: no number, or above 64 bits
    NoRange,    \* no Range header
    Malformed   \* a Range header that is not "bytes=", text and a hyphen

ASSUME RangeServingAssumption ==
    /\ ChunkSize \in Nat \ {0}
    /\ MaxSize \in Nat
    /\ MaxNumber \in Nat
    /\ Empty \notin Int /\ Junk \notin Int /\ Empty # Junk

\* What stands on one side of the hyphen.  (A sign is a number to ParseInt.)
Text == -1 .. MaxNumber \union {Empty, Junk}

SplitHeaders == [first : Text, last : Text]

Headers == SplitHeaders \union {Malformed}

Requests == [method : {"GET", "HEAD", "POST"}, named : BOOLEAN, range : Headers \union {NoRange}]

Rank(t) == CASE t = "hot" -> 0 [] t = "cold" -> 1 [] t = "inflight" -> 2 [] t = "backend" -> 3

Tiers == {"hot", "cold", "inflight", "backend"}

----------------------------------------------------------------------------
(* parseByteRange and resolveByteRange. *)

NotOk == [start |-> 0, end |-> 0, suffix |-> FALSE, ok |-> FALSE]

\* The range a header names: first and last byte, last = -1 when open-ended,
\* or a suffix of end bytes.
parseByteRange(header) ==
    IF header = Malformed THEN NotOk
    ELSE LET first == header.first
             last == header.last
         IN  IF first = Empty
             THEN IF last \in Nat THEN [start |-> 0, end |-> last, suffix |-> TRUE, ok |-> TRUE]
                  ELSE NotOk
             ELSE IF first \notin Nat \/ last = Junk THEN NotOk
             ELSE IF last = Empty THEN [start |-> first, end |-> -1, suffix |-> FALSE, ok |-> TRUE]
             ELSE IF last < first THEN NotOk
             ELSE [start |-> first, end |-> last, suffix |-> FALSE, ok |-> TRUE]

Unsatisfiable == [start |-> 0, end |-> 0, ok |-> FALSE]

\* Slip: takes the size for a valid offset.
resolveByteRangeInclusive(header, size) ==
    LET r == parseByteRange(header) IN
    IF ~r.ok \/ size <= 0 THEN Unsatisfiable
    ELSE IF r.suffix
    THEN IF r.end = 0 THEN Unsatisfiable
         ELSE [start |-> IF size > r.end THEN size - r.end ELSE 0, end |-> size - 1, ok |-> TRUE]
    ELSE IF r.start >= size THEN Unsatisfiable
    ELSE [start |-> r.start, end |-> IF r.end < 0 \/ r.end > size THEN size - 1 ELSE r.end,
          ok |-> TRUE]

\* Slip: lets a long suffix start before the object.
resolveByteRangeUnclamped(header, size) ==
    LET r == parseByteRange(header) IN
    IF ~r.ok \/ size <= 0 THEN Unsatisfiable
    ELSE IF r.suffix
    THEN IF r.end = 0 THEN Unsatisfiable
         ELSE [start |-> size - r.end, end |-> size - 1, ok |-> TRUE]
    ELSE IF r.start >= size THEN Unsatisfiable
    ELSE [start |-> r.start, end |-> IF r.end < 0 \/ r.end >= size THEN size - 1 ELSE r.end,
          ok |-> TRUE]

\* That range cut down to an object of size bytes.
resolveByteRange(header, size) ==
    LET r == parseByteRange(header) IN
    IF ~r.ok \/ size <= 0 THEN Unsatisfiable
    ELSE IF r.suffix
    THEN IF r.end = 0 THEN Unsatisfiable
         ELSE [start |-> IF size > r.end THEN size - r.end ELSE 0, end |-> size - 1, ok |-> TRUE]
    ELSE IF r.start >= size THEN Unsatisfiable
    ELSE [start |-> r.start, end |-> IF r.end < 0 \/ r.end >= size THEN size - 1 ELSE r.end,
          ok |-> TRUE]

----------------------------------------------------------------------------

VARIABLES
    pc,         \* where the handler is
    req,        \* the request
    size,       \* what ObjectSize returned
    from, to,   \* startByte and endByte
    chunks,     \* the lengths of the chunks resolved so far
    tier,       \* cacheTier
    recorded,   \* the chunk indexes given to VelocityTracker.Record
    status,     \* the status sent, 0 = none
    body,       \* the object offsets of the bytes sent
    i,          \* chunks written so far
    served,     \* what BytesServed grew by
    gone        \* history: a write to the client failed

vars == <<pc, req, size, from, to, chunks, tier, recorded, status, body, i, served, gone>>

Init ==
    /\ pc = "start"
    /\ req \in Requests
    /\ size = 0
    /\ from = 0 /\ to = 0
    /\ chunks = << >>
    /\ tier = "hot"
    /\ recorded = << >>
    /\ status = 0
    /\ body = << >>
    /\ i = 0
    /\ served = 0
    /\ gone = FALSE

chunkStart == from \div ChunkSize
chunkEnd == to \div ChunkSize

\* The offsets from a up to, but not including, b.
Offsets(a, b) == [j \in 1 .. (b - a) |-> a + j - 1]

Reply(code) ==
    /\ status' = code
    /\ pc' = "done"

\* 405 or 400.
Refuse ==
    /\ pc = "start"
    /\ \/ req.method \notin {"GET", "HEAD"} /\ Reply(405)
       \/ req.method \in {"GET", "HEAD"} /\ ~req.named /\ Reply(400)
    /\ UNCHANGED <<req, size, from, to, chunks, tier, recorded, body, i, served, gone>>

Accepted == pc = "start" /\ req.method \in {"GET", "HEAD"} /\ req.named

\* proxyFull streams the object, or as much of it as both ends stand.
ProxyFull ==
    /\ Accepted
    /\ req.range = NoRange /\ req.method = "GET"
    /\ \/ Reply(502) /\ UNCHANGED body
       \/ Reply(200) /\ \E m \in 0 .. MaxSize : body' = Offsets(0, m)
    /\ UNCHANGED <<req, size, from, to, chunks, tier, recorded, i, served, gone>>

\* ObjectSize fails.
SizeFails ==
    /\ Accepted
    /\ req.range # NoRange \/ req.method = "HEAD"
    /\ Reply(502)
    /\ UNCHANGED <<req, size, from, to, chunks, tier, recorded, body, i, served, gone>>

\* It answers; a HEAD without a range is done, and a range is resolved.
SizeKnown(s) ==
    /\ Accepted
    /\ size' = s
    /\ \/ /\ req.range = NoRange /\ req.method = "HEAD"
          /\ Reply(200)
          /\ UNCHANGED <<from, to>>
       \/ /\ req.range # NoRange
          /\ LET r == resolveByteRange(req.range, s) IN
                \/ /\ ~r.ok
                   /\ Reply(416)
                   /\ UNCHANGED <<from, to>>
                \/ /\ r.ok
                   /\ from' = r.start
                   /\ to' = r.end
                   /\ pc' = "resolve"
                   /\ UNCHANGED status
    /\ UNCHANGED <<req, chunks, tier, recorded, body, i, served, gone>>

\* resolveChunk of the next chunk fails.
ChunkFails ==
    /\ pc = "resolve"
    /\ Reply(502)
    /\ UNCHANGED <<req, size, from, to, chunks, tier, recorded, body, i, served, gone>>

\* cacheTier after a chunk of tier t.
Slower(t) == IF Rank(t) > Rank(tier) THEN t ELSE tier

\* It comes from tier t with len bytes; after the last one the header goes out.
ChunkResolved(t, len) ==
    /\ pc = "resolve"
    /\ chunks' = Append(chunks, len)
    /\ tier' = Slower(t)
    /\ recorded' = Append(recorded, chunkStart + Len(chunks))
    /\ IF chunkStart + Len(chunks) = chunkEnd
       THEN pc' = "write" /\ status' = 206
       ELSE UNCHANGED <<pc, status>>
    /\ UNCHANGED <<req, size, from, to, body, i, served, gone>>

chunkByteBase == (chunkStart + i) * ChunkSize

sliceStart == IF from > chunkByteBase THEN from - chunkByteBase ELSE 0

\* Slip: sends each chunk to its end.
sliceEndUnclamped == chunks[i + 1]

\* Slip: takes endByte for exclusive.
sliceEndExclusive ==
    IF to - chunkByteBase < chunks[i + 1] THEN to - chunkByteBase ELSE chunks[i + 1]

\* Where the slice of the next chunk ends.
sliceEnd ==
    IF to - chunkByteBase + 1 < chunks[i + 1] THEN to - chunkByteBase + 1 ELSE chunks[i + 1]

Writing == pc = "write" /\ req.method = "GET" /\ i < Len(chunks)

\* The first m bytes of that slice are written.
Put(m) == body' = body \o Offsets(chunkByteBase + sliceStart, chunkByteBase + sliceStart + m)

WriteSlice ==
    /\ Writing
    /\ sliceStart < sliceEnd
    /\ Put(sliceEnd - sliceStart)
    /\ i' = i + 1
    /\ UNCHANGED <<pc, req, size, from, to, chunks, tier, recorded, status, served, gone>>

\* The client is gone: return, and no metric is counted.
WriteFails ==
    /\ Writing
    /\ sliceStart < sliceEnd
    /\ \E m \in 0 .. (sliceEnd - sliceStart) : Put(m)
    /\ gone' = TRUE
    /\ pc' = "done"
    /\ UNCHANGED <<req, size, from, to, chunks, tier, recorded, status, i, served>>

\* The loop is over, breaks at an empty slice, or was for no GET.
Finish ==
    /\ pc = "write"
    /\ \/ req.method # "GET" \/ i = Len(chunks)
       \/ Writing /\ sliceStart >= sliceEnd
    /\ served' = Len(body)
    /\ pc' = "done"
    /\ UNCHANGED <<req, size, from, to, chunks, tier, recorded, status, body, i, gone>>

Done == pc = "done" /\ UNCHANGED vars

Next ==
    \/ Refuse \/ ProxyFull \/ SizeFails
    \/ \E s \in 0 .. MaxSize : SizeKnown(s)
    \/ ChunkFails
    \/ \E t \in Tiers, len \in 0 .. ChunkSize : ChunkResolved(t, len)
    \/ WriteSlice \/ WriteFails \/ Finish
    \/ Done

Spec == Init /\ [][Next]_vars

----------------------------------------------------------------------------
(* Properties. *)

\* The types of the handler's variables.
TypeOK ==
    /\ pc \in {"start", "resolve", "write", "done"}
    /\ req \in Requests
    /\ size \in 0 .. MaxSize
    /\ from \in Nat /\ to \in Nat
    /\ chunks \in Seq(0 .. ChunkSize)
    /\ tier \in Tiers
    /\ recorded \in Seq(Nat)
    /\ status \in {0, 200, 206, 400, 405, 416, 502}
    /\ body \in Seq(Nat)
    /\ i \in 0 .. Len(chunks)
    /\ served \in Nat
    /\ gone \in BOOLEAN

\* The byte offsets a Range header selects from s bytes, read off its three
\* forms: bytes=X-Y, bytes=X- and the last N bytes of bytes=-N.
Wanted(h, s) ==
    IF h = Malformed THEN {}
    ELSE {b \in 0 .. (s - 1) :
            \/ h.first = Empty /\ h.last \in Nat /\ b >= s - h.last
            \/ h.first \in Nat /\ h.last = Empty /\ b >= h.first
            \/ h.first \in Nat /\ h.last \in Nat /\ h.first <= b /\ b <= h.last}

\* handler.go:209-211: a range is served exactly as the header asks, cut to the
\* object, and refused with 416 exactly when that leaves nothing of it.
RangeIsWhatWasAsked ==
    /\ (pc \in {"resolve", "write"} \/ status = 206) =>
            from .. to = Wanted(req.range, size) /\ from <= to
    /\ status = 416 => Wanted(req.range, size) = {}

\* How many bytes of the range the j-th chunk should give, and gave.
Due(j) ==
    LET base == (chunkStart + j - 1) * ChunkSize IN
    (IF to < base + ChunkSize THEN to + 1 ELSE base + ChunkSize) - base

Complete(j) == chunks[j] >= Due(j)

\* It gave something: it is not what the loop stops at.
Reached(j) == chunks[j] > 0 /\ (chunkStart + j - 1) * ChunkSize + chunks[j] > from

\* A body of the declared length is the range: bytes from the wrong place are only
\* ever in a body that comes short, which net/http and run.go:205 tell a client.
BrokenIsShort ==
    (status = 206 /\ Len(body) = to - from + 1) => body = Offsets(from, to + 1)

\* What the client has of a broken answer is the beginning of what it asked for;
\* a chunk that is cut in its middle is the exception, for the next one is sent
\* right behind it.
BodyIsAPrefix ==
    (status = 206 /\ \A j \in 1 .. (Len(chunks) - 1) : Reached(j) => Complete(j)) =>
        body = Offsets(from, from + Len(body))

\* All of it arrives when the chunks are whole and the client stays.
WholeRangeArrives ==
    (pc = "done" /\ status = 206 /\ req.method = "GET" /\ ~gone
        /\ \A j \in 1 .. Len(chunks) : Complete(j)) =>
            body = Offsets(from, to + 1)

\* handler.go:121-143: slices of whole chunks make up the range, and those of cut
\* ones never make up something else that could be taken for it.
BodyIsTheRange == BrokenIsShort /\ BodyIsAPrefix /\ WholeRangeArrives

\* Content-Length is sent before the chunks are measured: whatever their
\* lengths, a stale size included, the body never runs past it.
NeverMoreThanDeclared == status = 206 => Len(body) <= to - from + 1

=============================================================================
