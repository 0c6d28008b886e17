------------------------------- MODULE Workload -------------------------------
(***************************************************************************)
(* The student sessions that `bench run' replays (cmd/bench/workload.go):  *)
(* which byte ranges of an object a session asks for, in which order.      *)
(*                                                                         *)
(* What the code draws at random (how much of a video is watched, where a  *)
(* student seeks to, how many pages are opened) is a choice from the set   *)
(* of all the values it can draw.                                          *)
(***************************************************************************)
EXTENDS Integers, Sequences, FiniteSetsExt

CONSTANTS
    Objects,        \* what the bucket holds under the prefix
    Length,         \* the length of each,
    Kind,           \* and what object.kind() says it is
    VideoChunk, PdfChunk, DownloadBuf, MaxBytes,    \* workloadConfig
    TailBytes,      \* 64<<10: the end of a PDF that its viewer reads first
    SeekChunks,     \* 2+rng.Intn(4): chunks watched before a student seeks
    PdfPages        \* 2+rng.Intn(14): pages read

ASSUME WorkloadAssumption ==
    /\ Length \in [Objects -> Nat]
    /\ Kind \in [Objects -> {"video", "pdf", "slides", "dataset", "other"}]
    /\ VideoChunk \in Nat \ {0} /\ PdfChunk \in Nat \ {0} /\ DownloadBuf \in Nat \ {0}
    /\ MaxBytes \in Int
    /\ TailBytes \in Nat \ {0}
    /\ SeekChunks \subseteq Nat \ {0} /\ PdfPages \subseteq Nat \ {0}

\* Empty objects are not listed.
listObjects == {o \in Objects : Length[o] > 0}

Least(a, b) == IF a < b THEN a ELSE b
Greatest(a, b) == IF a < b THEN b ELSE a

\* The bytes [from, to) in pieces of a chunk, numbered from 0.
sequential(from, to, chunk) ==
    [k \in 1 .. ((to - from + chunk - 1) \div chunk) |->
        LET off == from + (k - 1) * chunk
        IN [off |-> off, length |-> Least(chunk, to - off), seq |-> k - 1]]

\* How many bytes the first n reads ask for.
BytesOf(reqs, n) == Cardinality(UNION {{i} \X (1 .. reqs[i].length) : i \in 1 .. n})

\* The reads before the first one that goes over the cap, and at least one.
capBytes(reqs) ==
    LET over == {n \in 1 .. Len(reqs) : BytesOf(reqs, n) > MaxBytes}
    IN IF MaxBytes <= 0 \/ over = {} THEN reqs
       ELSE SubSeq(reqs, 1, Greatest(1, Min(over) - 1))

\* Where a student stops watching: watch is at least 0.08 and at most 1.
WatchEnds(size) == ((8 * size) \div 100) .. size

Watching(size) ==
    {sequential(0, Greatest(end, Least(size, VideoChunk)), VideoChunk) : end \in WatchEnds(size)}

\* Slip: may seek back into what was watched.
SeekAnywhere(size, first) == {s - (s % VideoChunk) : s \in 0 .. size - 1}

\* From the chunk of any byte behind the opening.
SeekStarts(size, first) ==
    {s - (s % VideoChunk) : s \in first .. first + Greatest(1, size - first) - 1}

\* The opening, then as much as was left to watch, from there.
Skipping(size) ==
    UNION {LET first == Least(end, k * VideoChunk)
           IN {sequential(0, first, VideoChunk)
                 \o sequential(s, Least(size, s + (end - first)), VideoChunk)
                   : s \in SeekStarts(size, first)}
             : end \in WatchEnds(size), k \in SeekChunks}

videoReads(size) == Watching(size) \union Skipping(size)

pdfReads(size) ==
    LET tail == Least(size, TailBytes)
    IN {<<[off |-> size - tail, length |-> tail, seq |-> -1]>>
          \o sequential(0, Least(size, pages * PdfChunk), PdfChunk) : pages \in PdfPages}

ReadsOf(o) ==
    CASE Kind[o] = "video" -> videoReads(Length[o])
      [] Kind[o] = "pdf" -> pdfReads(Length[o])
      [] OTHER -> {sequential(0, Length[o], DownloadBuf)}

\* What buildSessions can add to its list: it draws again if there are no reads.
Drawable ==
    {s \in UNION {{[obj |-> o, reqs |-> capBytes(r)] : r \in ReadsOf(o)} : o \in listObjects} :
        s.reqs # << >>}

=============================================================================
