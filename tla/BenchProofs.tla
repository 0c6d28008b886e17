----------------------------- MODULE BenchProofs -----------------------------
(***************************************************************************)
(* Proofs about the two commands of cmd/bench.                             *)
(*                                                                         *)
(* bench seed, for any catalog, any number of uploaders and runs: a        *)
(* success means what it says because each upload that was handed out is   *)
(* in the bucket, or still in the hands of an uploader, or has set         *)
(* firstErr (HandedOut); because a size in the listing can be trusted      *)
(* (ListedOK), which needs everything ever stored under a key to be a      *)
(* beginning of its file, or an earlier state of an included one           *)
(* (BucketOK); and because a rewound body starts over (BodiesOK).          *)
(*                                                                         *)
(* bench run, for any objects, configuration of the workload, number of    *)
(* students and phases and any answers: what is drawn are runs of reads    *)
(* (Runs), because a seek lands behind the opening (SeekLands) and the cap *)
(* only takes reads from the end (CappedRuns); and each read is sampled    *)
(* once because no two students have one session (TurnsOK) and the samples *)
(* are those of the reads that their students have passed (SampledOK).     *)
(* The summary adds up because disjoint groups do (GroupsAddUp) and since  *)
(* there is a latency of every rank (RankedIs).                            *)
(***************************************************************************)
EXTENDS Seeding, Replay, SequenceTheorems, FunctionTheorems, FiniteSetTheorems,
        WellFoundedInduction, TLAPS

----------------------------------------------------------------------------
(* The inductive invariant of bench seed, in parts. *)

\* All of u is in the bucket, or something that passes for it.
There(u) == Whole(u) \/ Passes(u)

\* Whatever is stored under a key is a beginning of its file, or of an included
\* file when it was another.
BucketOK ==
    \A u \in Uploads :
        \/ bucket[u] = Content(0, Len(bucket[u]))
        \/ u \in Included /\ bucket[u] \in Others

\* What an attempt has sent is the beginning of its file.
BodiesOK == \A w \in Uploaders : pc[w] = "put" => body[w] = Content(0, pos[w])

\* A file whose size is in the listing is there.
ListedOK == \A u \in Uploads : (existing[u] = Size[u] /\ Size[u] > 0) => There(u)

\* So is one whose upload ended without an error.
BookedOK ==
    \A w \in Uploaders :
        (pc[w] = "book" /\ ~bad[w] /\ Size[job[w]] > 0) => There(job[w])

InHand(u) == \E w \in Uploaders : job[w] = u /\ pc[w] \in {"begin", "put", "book"}

\* Unless there was an error, an upload that was handed out is done or under way.
HandedOut ==
    ~firstErr => \A u \in Uploads : (u < next /\ Size[u] > 0) => There(u) \/ InHand(u)

\* What the place of the loop says.
LoopOK ==
    /\ main = "send" => next <= Len(Size)
    /\ main = "wait" => firstErr \/ next > Len(Size)
    /\ main \in {"list", "over"} =>
        next = 1 /\ \A w \in Uploaders : pc[w] \in {"idle", "gone"}

\* An uploader that waits for a job starts it from the beginning.
IdleClean == \A w \in Uploaders : pc[w] = "idle" => pos[w] = 0

Inv ==
    /\ TypeOK /\ IdleClean
    /\ BucketOK /\ BodiesOK /\ ListedOK /\ BookedOK /\ HandedOut /\ LoopOK
    /\ SuccessMeansUploaded

----------------------------------------------------------------------------
(* Contents. *)

\* The bytes from a to b are a sequence of b - a naturals.
LEMMA ContentType ==
    ASSUME NEW a \in Nat, NEW b \in Nat, a <= b
    PROVE  Content(a, b) \in Seq(Nat) /\ Len(Content(a, b)) = b - a
  BY DEF Content

\* The first n bytes of a file.
LEMMA FileType == \A n \in Nat : Content(0, n) \in Seq(Nat) /\ Len(Content(0, n)) = n
  BY DEF Content

\* Bytes from a to b and from b to c are bytes from a to c.
LEMMA ContentConcat ==
    ASSUME NEW a \in Nat, NEW b \in Nat, NEW c \in Nat, a <= b, b <= c
    PROVE  Content(a, b) \o Content(b, c) = Content(a, c)
<1> DEFINE ab == Content(a, b)
           bc == Content(b, c)
           ac == Content(a, c)
<1>1. /\ ab \in Seq(Nat) /\ Len(ab) = b - a
      /\ bc \in Seq(Nat) /\ Len(bc) = c - b
  BY ContentType
<1>2. ac \in Seq(Nat) /\ Len(ac) = c - a
  <2>1. a <= c
    OBVIOUS
  <2> QED
    BY <2>1, ContentType
<1>3. /\ \A j \in 1 .. (b - a) : ab[j] = a + j - 1
      /\ \A j \in 1 .. (c - b) : bc[j] = b + j - 1
      /\ \A j \in 1 .. (c - a) : ac[j] = a + j - 1
  BY DEF Content
<1> HIDE DEF ab, bc, ac
<1>4. /\ ab \o bc \in Seq(Nat) /\ Len(ab \o bc) = Len(ab) + Len(bc)
      /\ \A j \in 1 .. Len(ab) + Len(bc) :
            (ab \o bc)[j] = IF j <= Len(ab) THEN ab[j] ELSE bc[j - Len(ab)]
  BY <1>1, ConcatProperties
<1>5. Len(ab) + Len(bc) = c - a
  BY <1>1
<1>6. \A j \in 1 .. (c - a) : (ab \o bc)[j] = ac[j]
  <2> SUFFICES ASSUME NEW j \in 1 .. (c - a) PROVE (ab \o bc)[j] = ac[j]
    OBVIOUS
  <2>1. (ab \o bc)[j] = IF j <= b - a THEN ab[j] ELSE bc[j - (b - a)]
    BY <1>1, <1>4, <1>5
  <2>2. ac[j] = a + j - 1
    BY <1>3
  <2>3. CASE j <= b - a
    BY <1>3, <2>1, <2>2, <2>3
  <2>4. CASE ~(j <= b - a)
    <3>1. j - (b - a) \in 1 .. (c - b)
      BY <2>4
    <3>2. bc[j - (b - a)] = b + (j - (b - a)) - 1
      BY <1>3, <3>1
    <3> QED
      BY <2>1, <2>2, <2>4, <3>2
  <2> QED
    BY <2>3, <2>4
<1>7. ab \o bc = ac
  BY <1>2, <1>4, <1>5, <1>6, SeqEqual
<1> QED
  BY <1>7 DEF ab, bc, ac

----------------------------------------------------------------------------
(* What a step does to the bucket. *)

\* The catalog's sizes.
LEMMA Sizes == Len(Size) \in Nat /\ Uploads = 1 .. Len(Size) /\ \A u \in Uploads : Size[u] \in Nat
  BY SeedingAssumption DEF Uploads

\* A body that is sent is the whole file.
LEMMA SentIsWhole ==
    ASSUME TypeOK, BodiesOK, NEW w \in Uploaders, Sent(w)
    PROVE  job[w] \in Uploads /\ body[w] = Content(0, Size[job[w]])
<1>1. job[w] \in Uploads /\ pos[w] \in Nat /\ pos[w] <= Size[job[w]] /\ pc[w] = "put"
  BY DEF TypeOK, Sent
<1>2. Size[job[w]] \in Nat /\ pos[w] \in Nat
  BY <1>1, Sizes
<1>3. body[w] = Content(0, pos[w]) /\ Len(body[w]) = Size[job[w]]
  BY DEF BodiesOK, Sent
<1>4. Len(Content(0, pos[w])) = pos[w]
  BY <1>2, FileType
<1>5. pos[w] = Size[job[w]]
  BY <1>2, <1>3, <1>4
<1> QED
  BY <1>1, <1>3, <1>5

\* Storing whole files takes nothing away.
LEMMA StoringWhole ==
    ASSUME TypeOK, BucketOK, NEW S \in SUBSET Uploads,
           bucket' = [u \in Uploads |-> IF u \in S THEN Content(0, Size[u]) ELSE bucket[u]]
    PROVE  /\ bucket' \in [Uploads -> Seq(Nat)]
           /\ BucketOK'
           /\ \A u \in Uploads : There(u) => There(u)'
           /\ \A u \in S : There(u)'
<1>1. \A u \in Uploads : /\ Content(0, Size[u]) \in Seq(Nat)
                         /\ Len(Content(0, Size[u])) = Size[u]
  BY Sizes, FileType
<1>2. bucket' \in [Uploads -> Seq(Nat)]
  BY <1>1 DEF TypeOK
<1>3. \A u \in Uploads : bucket'[u] = IF u \in S THEN Content(0, Size[u]) ELSE bucket[u]
  OBVIOUS
<1>4. BucketOK'
  <2> SUFFICES ASSUME NEW u \in Uploads
               PROVE  \/ bucket'[u] = Content(0, Len(bucket'[u]))
                      \/ u \in Included /\ bucket'[u] \in Others
    BY DEF BucketOK
  <2>1. CASE u \in S
    BY <1>1, <1>3, <2>1
  <2>2. CASE u \notin S
    BY <1>3, <2>2 DEF BucketOK
  <2> QED
    BY <2>1, <2>2
<1> QED
  BY <1>2, <1>3, <1>4 DEF There, Whole, Passes

\* The same for one file that an uploader has sent.
LEMMA StoringSent ==
    ASSUME TypeOK, BucketOK, BodiesOK, NEW w \in Uploaders, Sent(w),
           bucket' = [bucket EXCEPT ![job[w]] = body[w]]
    PROVE  /\ bucket' \in [Uploads -> Seq(Nat)]
           /\ BucketOK'
           /\ \A u \in Uploads : There(u) => There(u)'
           /\ bucket'[job[w]] = Content(0, Size[job[w]])
<1>1. job[w] \in Uploads /\ body[w] = Content(0, Size[job[w]])
  BY SentIsWhole
<1>2. bucket' = [u \in Uploads |-> IF u \in {job[w]} THEN Content(0, Size[u]) ELSE bucket[u]]
  BY <1>1 DEF TypeOK
<1>3. {job[w]} \in SUBSET Uploads
  BY <1>1
<1> QED
  BY <1>1, <1>2, <1>3, StoringWhole DEF There, Whole, Passes

\* No change of the bucket at all.
LEMMA StoringNothing ==
    ASSUME TypeOK, BucketOK, UNCHANGED bucket
    PROVE  /\ bucket' \in [Uploads -> Seq(Nat)]
           /\ BucketOK'
           /\ \A u \in Uploads : There(u) => There(u)'
  BY DEF TypeOK, BucketOK, There, Whole, Passes

----------------------------------------------------------------------------
(* The steps of runSeed's goroutine. *)

\* The first run starts with nothing done.
LEMMA InitInv == Init => Inv
<1> SUFFICES ASSUME Init PROVE Inv
  OBVIOUS
<1>1. bucket \in [Uploads -> UNION {Left(u) : u \in Uploads}] /\ \A u \in Uploads : bucket[u] \in Left(u)
  BY DEF Init
<1>2. ASSUME NEW u \in Uploads
      PROVE  /\ bucket[u] \in Seq(Nat)
             /\ bucket[u] = Content(0, Len(bucket[u])) \/ (u \in Included /\ bucket[u] \in Others)
  <2>1. bucket[u] \in {Content(0, n) : n \in 0 .. MaxSize} \/ (u \in Included /\ bucket[u] \in Others)
    BY <1>1 DEF Left
  <2>2. CASE bucket[u] \in {Content(0, n) : n \in 0 .. MaxSize}
    <3>1. PICK n \in 0 .. MaxSize : bucket[u] = Content(0, n)
      BY <2>2
    <3>2. n \in Nat
      BY SeedingAssumption
    <3> QED
      BY <3>1, <3>2, FileType
  <2>3. CASE u \in Included /\ bucket[u] \in Others
    BY <2>3, SeedingAssumption
  <2> QED
    BY <2>1, <2>2, <2>3
<1>3. bucket \in [Uploads -> Seq(Nat)] /\ BucketOK
  BY <1>1, <1>2 DEF BucketOK
<1>4. existing \in [Uploads -> Nat] /\ next \in 1 .. (Len(Size) + 1) /\ runs \in 1 .. MaxRuns
  BY Sizes, SeedingAssumption DEF Init
<1>5. /\ pc \in [Uploaders -> {"idle", "begin", "put", "book", "gone"}]
      /\ job \in [Uploaders -> Uploads \union {0}]
      /\ pos \in [Uploaders -> Nat]
      /\ body \in [Uploaders -> Seq(Nat)]
      /\ bad \in [Uploaders -> BOOLEAN]
      /\ \A w \in Uploaders : pc[w] = "idle" /\ job[w] = 0
  BY DEF Init
<1>6. tries \in [Uploaders -> 0 .. Attempts]
  BY SeedingAssumption DEF Init
<1>7. 0 \notin Uploads
  BY Sizes
<1>8. TypeOK
  <2>1. \A w \in Uploaders : job[w] # 0 => pos[w] <= Size[job[w]]
    BY <1>5
  <2>2. firstErr \in BOOLEAN
    BY DEF Init
  <2> QED
    BY <1>3, <1>4, <1>5, <1>6, <2>1, <2>2 DEF Init, TypeOK
<1>9. ListedOK
  BY Sizes DEF Init, ListedOK
<1>10. BodiesOK /\ BookedOK
  BY <1>5 DEF BodiesOK, BookedOK
<1>11. HandedOut
  BY Sizes DEF Init, HandedOut
<1>12. LoopOK /\ SuccessMeansUploaded /\ IdleClean
  BY <1>5 DEF Init, LoopOK, SuccessMeansUploaded, IdleClean
<1> QED
  BY <1>3, <1>8, <1>9, <1>10, <1>11, <1>12 DEF Inv

\* What is listed is there.
LEMMA ListStep == Inv /\ List => Inv'
<1> SUFFICES ASSUME Inv, List PROVE Inv'
  OBVIOUS
<1>1. /\ UNCHANGED <<bucket, next, firstErr, result, runs, pc, job, pos, body, tries, bad>>
      /\ main = "list" /\ main' = "check" /\ next = 1
      /\ \A w \in Uploaders : pc[w] \in {"idle", "gone"}
  BY DEF List, upVars, Inv, LoopOK
<1>2. \A u \in Uploads : existing'[u] = Len(bucket[u]) \/ existing'[u] = 0
  BY DEF List
<1>3. existing' \in [Uploads -> Nat]
  BY DEF List, Inv, TypeOK
<1>4. TypeOK'
  BY <1>1, <1>3 DEF Inv, TypeOK
<1>9. IdleClean'
  BY <1>1 DEF Inv, IdleClean
<1>5. ListedOK'
  <2> SUFFICES ASSUME NEW u \in Uploads, existing'[u] = Size[u], Size[u] > 0 PROVE There(u)'
    BY DEF ListedOK
  <2>1. Len(bucket[u]) = Size[u]
    BY <1>2, Sizes
  <2> QED
    BY <1>1, <2>1 DEF Inv, BucketOK, There, Whole, Passes
<1>6. BucketOK' /\ BodiesOK' /\ BookedOK'
  BY <1>1 DEF Inv, BucketOK, BodiesOK, BookedOK, There, Whole, Passes
<1>7. HandedOut'
  BY <1>1, Sizes DEF HandedOut
<1>8. LoopOK' /\ SuccessMeansUploaded'
  BY <1>1 DEF LoopOK, SuccessMeansUploaded
<1> QED
  BY <1>4, <1>5, <1>6, <1>7, <1>8, <1>9 DEF Inv

\* The loop goes on, or ends for a reason.
LEMMA CheckStep == Inv /\ Check => Inv'
<1> SUFFICES ASSUME Inv, Check PROVE Inv'
  OBVIOUS
<1>1. /\ UNCHANGED <<bucket, existing, next, firstErr, result, runs, pc, job, pos, body, tries,
                     bad>>
      /\ main' = IF next > Len(Size) \/ firstErr THEN "wait" ELSE "send"
  BY DEF Check, upVars
<1>2. next \in Nat /\ Len(Size) \in Nat
  BY Sizes DEF Inv, TypeOK
<1>3. TypeOK' /\ IdleClean'
  BY <1>1 DEF Inv, TypeOK, IdleClean
<1>4. BucketOK' /\ BodiesOK' /\ ListedOK' /\ BookedOK'
  BY <1>1 DEF Inv, BucketOK, BodiesOK, ListedOK, BookedOK, There, Whole, Passes
<1>5. HandedOut'
  BY <1>1 DEF Inv, HandedOut, InHand, There, Whole, Passes
<1>6. LoopOK' /\ SuccessMeansUploaded'
  BY <1>1, <1>2 DEF LoopOK, SuccessMeansUploaded
<1> QED
  BY <1>3, <1>4, <1>5, <1>6 DEF Inv

\* An upload goes to an uploader.
LEMMA SendStep == ASSUME NEW w \in Uploaders, Inv, Send(w) PROVE Inv'
<1>1. /\ UNCHANGED <<bucket, existing, firstErr, result, runs, pos, body, tries, bad>>
      /\ job' = [job EXCEPT ![w] = next] /\ pc' = [pc EXCEPT ![w] = "begin"]
      /\ next' = next + 1 /\ main' = "check" /\ main = "send" /\ pc[w] = "idle"
  BY DEF Send
<1>2. next \in Uploads /\ next \in Nat /\ next # 0 /\ next' \in 1 .. (Len(Size) + 1)
  BY <1>1, Sizes DEF Inv, TypeOK, LoopOK
<1>3. TypeOK' /\ IdleClean'
  <2>1. /\ job' \in [Uploaders -> Uploads \union {0}]
        /\ pc' \in [Uploaders -> {"idle", "begin", "put", "book", "gone"}]
        /\ job'[w] = next /\ pc'[w] = "begin"
        /\ \A v \in Uploaders : v # w => job'[v] = job[v] /\ pc'[v] = pc[v]
    BY <1>1, <1>2 DEF Inv, TypeOK
  <2>2. pos[w] <= Size[next]
    BY <1>1, <1>2, Sizes DEF Inv, IdleClean
  <2>3. \A v \in Uploaders : job'[v] # 0 => pos[v] <= Size[job'[v]]
    BY <2>1, <2>2 DEF Inv, TypeOK
  <2>4. \A v \in Uploaders : pc'[v] \in {"begin", "put", "book"} => job'[v] # 0
    BY <1>2, <2>1 DEF Inv, TypeOK
  <2>5. IdleClean'
    BY <1>1, <2>1 DEF Inv, IdleClean
  <2> QED
    BY <1>1, <1>2, <2>1, <2>3, <2>4, <2>5 DEF Inv, TypeOK
<1>4. BucketOK' /\ BodiesOK' /\ ListedOK' /\ BookedOK'
  BY <1>1 DEF Inv, TypeOK, BucketOK, BodiesOK, ListedOK, BookedOK, There, Whole, Passes
<1>5. HandedOut'
  <2> SUFFICES ASSUME ~firstErr, NEW u \in Uploads, u < next + 1, Size[u] > 0
               PROVE  There(u)' \/ InHand(u)'
    BY <1>1 DEF HandedOut
  <2>1. CASE u = next
    <3>1. job'[w] = u /\ pc'[w] = "begin"
      BY <1>1, <2>1 DEF Inv, TypeOK
    <3> QED
      BY <3>1 DEF InHand
  <2>2. CASE u < next
    <3>1. There(u) \/ InHand(u)
      BY <2>2 DEF Inv, HandedOut
    <3>2. InHand(u) => InHand(u)'
      BY <1>1 DEF Inv, TypeOK, InHand
    <3> QED
      BY <1>1, <3>1, <3>2 DEF There, Whole, Passes
  <2> QED
    BY <1>2, <2>1, <2>2, Sizes
<1>6. LoopOK' /\ SuccessMeansUploaded'
  BY <1>1 DEF LoopOK, SuccessMeansUploaded
<1> QED
  BY <1>3, <1>4, <1>5, <1>6 DEF Inv

\* The run ends; without an error all uploads are handed out and none is in hand.
LEMMA ReturnStep == Inv /\ Return => Inv'
<1> SUFFICES ASSUME Inv, Return PROVE Inv'
  OBVIOUS
<1>1. /\ UNCHANGED <<bucket, runs, pc, job, pos, body, tries, bad>>
      /\ main = "wait" /\ main' = "over"
      /\ result' = IF firstErr THEN "error" ELSE "ok"
      /\ existing' = [u \in Uploads |-> 0] /\ next' = 1 /\ firstErr' = FALSE
      /\ \A w \in Uploaders : pc[w] = "gone"
  BY DEF Return, upVars
<1>2. TypeOK'
  <2>1. existing' \in [Uploads -> Nat] /\ next' \in 1 .. (Len(Size) + 1)
    BY <1>1, Sizes
  <2>2. firstErr' \in BOOLEAN
    BY <1>1
  <2>3. result' \in {"none", "ok", "error", "killed"}
    BY <1>1
  <2> QED
    BY <1>1, <2>1, <2>2, <2>3 DEF Inv, TypeOK
<1>3. BucketOK' /\ BodiesOK' /\ BookedOK' /\ IdleClean'
  BY <1>1 DEF Inv, BucketOK, BodiesOK, BookedOK, There, Whole, Passes, IdleClean
<1>4. ListedOK' /\ HandedOut' /\ LoopOK'
  BY <1>1, Sizes DEF ListedOK, HandedOut, LoopOK
<1>5. SuccessMeansUploaded'
  <2> SUFFICES ASSUME ~firstErr, NEW u \in Uploads, Size[u] > 0 PROVE There(u)
    BY <1>1 DEF SuccessMeansUploaded, There, Whole, Passes
  <2>1. next > Len(Size)
    BY <1>1 DEF Inv, LoopOK
  <2>2. u < next
    BY <2>1, Sizes DEF Inv, TypeOK
  <2>3. There(u) \/ InHand(u)
    BY <2>2 DEF Inv, HandedOut
  <2>4. ~InHand(u)
    BY <1>1 DEF InHand
  <2> QED
    BY <2>3, <2>4
<1> QED
  BY <1>2, <1>3, <1>4, <1>5 DEF Inv

----------------------------------------------------------------------------
(* The steps of an uploader. *)

\* A step of an upload that is not its end changes nothing for the others.
LEMMA UploadKeeps ==
    ASSUME Inv, NEW w \in Uploaders, UNCHANGED <<mainVars, job>>,
           pc[w] \in {"begin", "put"}, pc'[w] \in {"put", "book"},
           \A v \in Uploaders : v # w => pc'[v] = pc[v] /\ pos'[v] = pos[v],
           \A u \in Uploads : There(u) => There(u)'
    PROVE  ListedOK' /\ HandedOut' /\ LoopOK' /\ SuccessMeansUploaded' /\ IdleClean'
<1>1. UNCHANGED <<existing, main, next, firstErr, result, runs, job>>
  BY DEF mainVars
<1>2. main \notin {"list", "over"}
  BY DEF Inv, LoopOK
<1>3. ListedOK'
  BY <1>1 DEF Inv, ListedOK
<1>4. HandedOut'
  <2>1. \A u \in Uploads : InHand(u) => InHand(u)'
    BY <1>1 DEF InHand
  <2> QED
    BY <1>1, <2>1 DEF Inv, HandedOut
<1>5. LoopOK' /\ SuccessMeansUploaded'
  BY <1>1, <1>2 DEF Inv, LoopOK, SuccessMeansUploaded
<1>6. IdleClean'
  BY DEF Inv, IdleClean
<1> QED
  BY <1>3, <1>4, <1>5, <1>6

\* The file is there already, if it has bytes at all.
LEMMA PresentStep == ASSUME NEW w \in Uploaders, Inv, Present(w) PROVE Inv'
<1>1. /\ UNCHANGED <<bucket, mainVars, job, pos, body, tries>>
      /\ pc[w] = "begin" /\ existing[job[w]] = Size[job[w]]
      /\ pc' = [pc EXCEPT ![w] = "book"] /\ bad' = [bad EXCEPT ![w] = FALSE]
  BY DEF Present, Ends
<1>2. pc'[w] = "book" /\ \A v \in Uploaders : v # w => pc'[v] = pc[v] /\ bad'[v] = bad[v]
  BY <1>1 DEF Inv, TypeOK
<1>3. BucketOK' /\ \A u \in Uploads : There(u) => There(u)'
  BY <1>1 DEF Inv, BucketOK, There, Whole, Passes
<1>4. ListedOK' /\ HandedOut' /\ LoopOK' /\ SuccessMeansUploaded' /\ IdleClean'
  BY <1>1, <1>2, <1>3, UploadKeeps
<1>5. TypeOK' /\ BodiesOK'
  BY <1>1, <1>2 DEF Inv, TypeOK, BodiesOK, mainVars
<1>6. BookedOK'
  <2> SUFFICES ASSUME NEW v \in Uploaders, pc'[v] = "book", ~bad'[v], Size[job[v]] > 0
               PROVE  There(job[v])
    BY <1>1 DEF BookedOK, There, Whole, Passes
  <2>1. CASE v = w
    <3>1. job[w] \in Uploads
      BY <1>1 DEF Inv, TypeOK
    <3> QED
      BY <1>1, <2>1, <3>1 DEF Inv, ListedOK
  <2>2. CASE v # w
    BY <1>2, <2>2 DEF Inv, BookedOK
  <2> QED
    BY <2>1, <2>2
<1> QED
  BY <1>3, <1>4, <1>5, <1>6 DEF Inv

\* An upload ends with an error before it began.
LEMMA OpenFailsStep == ASSUME NEW w \in Uploaders, Inv, OpenFails(w) PROVE Inv'
<1>1. /\ UNCHANGED <<bucket, mainVars, job, pos, body, tries>>
      /\ pc[w] = "begin"
      /\ pc' = [pc EXCEPT ![w] = "book"] /\ bad' = [bad EXCEPT ![w] = TRUE]
  BY DEF OpenFails, Ends
<1>2. /\ pc'[w] = "book" /\ bad'[w]
      /\ \A v \in Uploaders : v # w => pc'[v] = pc[v] /\ bad'[v] = bad[v]
  BY <1>1 DEF Inv, TypeOK
<1>3. BucketOK' /\ \A u \in Uploads : There(u) => There(u)'
  BY <1>1 DEF Inv, BucketOK, There, Whole, Passes
<1>4. ListedOK' /\ HandedOut' /\ LoopOK' /\ SuccessMeansUploaded' /\ IdleClean'
  BY <1>1, <1>2, <1>3, UploadKeeps
<1>5. TypeOK' /\ BodiesOK'
  BY <1>1, <1>2 DEF Inv, TypeOK, BodiesOK, mainVars
<1>6. BookedOK'
  BY <1>1, <1>2 DEF Inv, BookedOK, There, Whole, Passes
<1> QED
  BY <1>3, <1>4, <1>5, <1>6 DEF Inv

\* PutObject begins with nothing read.
LEMMA OpenStep == ASSUME NEW w \in Uploaders, Inv, Open(w) PROVE Inv'
<1>1. /\ UNCHANGED <<bucket, mainVars, job, bad>> /\ pc[w] = "begin"
      /\ pc' = [pc EXCEPT ![w] = "put"] /\ pos' = [pos EXCEPT ![w] = 0]
      /\ body' = [body EXCEPT ![w] = << >>] /\ tries' = [tries EXCEPT ![w] = 1]
  BY DEF Open
<1>2. /\ pc'[w] = "put" /\ pos'[w] = 0 /\ body'[w] = << >>
      /\ \A v \in Uploaders : v # w => pc'[v] = pc[v] /\ pos'[v] = pos[v] /\ body'[v] = body[v]
  BY <1>1 DEF Inv, TypeOK
<1>3. BucketOK' /\ \A u \in Uploads : There(u) => There(u)'
  BY <1>1 DEF Inv, BucketOK, There, Whole, Passes
<1>4. ListedOK' /\ HandedOut' /\ LoopOK' /\ SuccessMeansUploaded' /\ IdleClean'
  BY <1>1, <1>2, <1>3, UploadKeeps
<1>5. TypeOK'
  <2>1. tries' \in [Uploaders -> 0 .. Attempts]
    BY <1>1, SeedingAssumption DEF Inv, TypeOK
  <2>2. \A v \in Uploaders : job'[v] # 0 => pos'[v] <= Size[job'[v]]
    BY <1>1, <1>2, Sizes DEF Inv, TypeOK
  <2> QED
    BY <1>1, <1>2, <2>1, <2>2 DEF Inv, TypeOK, mainVars
<1>6. BodiesOK'
  <2>1. Content(0, 0) = << >>
    BY DEF Content
  <2> QED
    BY <1>2, <2>1 DEF Inv, BodiesOK
<1>7. BookedOK'
  BY <1>1, <1>2 DEF Inv, BookedOK, There, Whole, Passes
<1> QED
  BY <1>3, <1>4, <1>5, <1>6, <1>7 DEF Inv

\* A read appends the bytes that follow.
LEMMA ReadStep == ASSUME NEW w \in Uploaders, NEW len \in 1 .. MaxSize, Inv, Read(w, len) PROVE Inv'
<1> DEFINE rem == Size[job[w]] - pos[w]
           got == IF len > rem THEN rem ELSE len
<1>1. /\ UNCHANGED <<bucket, mainVars, pc, job, tries, bad>>
      /\ pc[w] = "put" /\ pos[w] < Size[job[w]]
      /\ body' = [body EXCEPT ![w] = @ \o Content(pos[w], pos[w] + got)]
      /\ pos' = [pos EXCEPT ![w] = @ + got]
  BY DEF Read
<1>2. /\ job[w] \in Uploads /\ Size[job[w]] \in Nat /\ pos[w] \in Nat
      /\ body[w] \in Seq(Nat) /\ body[w] = Content(0, pos[w])
  BY <1>1, Sizes DEF Inv, TypeOK, BodiesOK
<1>3. got \in Nat /\ pos[w] + got \in Nat /\ pos[w] <= pos[w] + got /\ pos[w] + got <= Size[job[w]]
  <2>1. rem \in Nat /\ len \in Nat
    BY <1>1, <1>2, SeedingAssumption
  <2>2. got \in Nat /\ got <= rem
    <3> HIDE DEF rem
    <3> QED
      BY <2>1
  <2> HIDE DEF got
  <2> QED
    BY <1>2, <2>2
<1> HIDE DEF got
<1>4. /\ pos'[w] = pos[w] + got
      /\ body'[w] = body[w] \o Content(pos[w], pos[w] + got)
      /\ \A v \in Uploaders : v # w => pos'[v] = pos[v] /\ body'[v] = body[v]
  BY <1>1 DEF Inv, TypeOK
<1>5. body'[w] = Content(0, pos'[w]) /\ body'[w] \in Seq(Nat)
  <2>1. 0 <= pos[w]
    BY <1>2
  <2>2. Content(0, pos[w]) \o Content(pos[w], pos[w] + got) = Content(0, pos[w] + got)
    BY <1>2, <1>3, <2>1, ContentConcat
  <2> QED
    BY <1>2, <1>3, <1>4, <2>2, FileType
<1>6. BucketOK' /\ \A u \in Uploads : There(u) => There(u)'
  BY <1>1 DEF Inv, BucketOK, There, Whole, Passes
<1>7. ListedOK' /\ HandedOut' /\ LoopOK' /\ SuccessMeansUploaded' /\ IdleClean'
  BY <1>1, <1>4, <1>6, UploadKeeps
<1>8. TypeOK'
  <2>1. pos' \in [Uploaders -> Nat] /\ body' \in [Uploaders -> Seq(Nat)]
    BY <1>1, <1>3, <1>4, <1>5 DEF Inv, TypeOK
  <2>2. \A v \in Uploaders : job'[v] # 0 => pos'[v] <= Size[job'[v]]
    BY <1>1, <1>3, <1>4 DEF Inv, TypeOK
  <2> QED
    BY <1>1, <2>1, <2>2 DEF Inv, TypeOK, mainVars
<1>9. BodiesOK'
  BY <1>1, <1>4, <1>5 DEF Inv, BodiesOK
<1>10. BookedOK'
  BY <1>1 DEF Inv, BookedOK, There, Whole, Passes
<1> QED
  BY <1>6, <1>7, <1>8, <1>9, <1>10 DEF Inv

\* The SDK rewinds the body and starts over.
LEMMA RetryStep == ASSUME NEW w \in Uploaders, Inv, Retry(w) PROVE Inv'
<1>1. /\ UNCHANGED <<bucket, mainVars, pc, job, bad>> /\ pc[w] = "put"
      /\ tries[w] < Attempts
      /\ tries' = [tries EXCEPT ![w] = @ + 1]
      /\ pos' = [pos EXCEPT ![w] = SeekTo(@, Size[job[w]], 0, "start")]
      /\ body' = [body EXCEPT ![w] = << >>]
  BY DEF Retry
<1>2. SeekTo(pos[w], Size[job[w]], 0, "start") = 0
  BY DEF SeekTo
<1>3. /\ pos'[w] = 0 /\ body'[w] = << >>
      /\ \A v \in Uploaders : v # w => pos'[v] = pos[v] /\ body'[v] = body[v]
  BY <1>1, <1>2 DEF Inv, TypeOK
<1>4. BucketOK' /\ \A u \in Uploads : There(u) => There(u)'
  BY <1>1 DEF Inv, BucketOK, There, Whole, Passes
<1>5. ListedOK' /\ HandedOut' /\ LoopOK' /\ SuccessMeansUploaded' /\ IdleClean'
  BY <1>1, <1>3, <1>4, UploadKeeps
<1>6. TypeOK'
  <2>1. tries' \in [Uploaders -> 0 .. Attempts]
    BY <1>1, SeedingAssumption DEF Inv, TypeOK
  <2>2. pos' \in [Uploaders -> Nat] /\ body' \in [Uploaders -> Seq(Nat)]
    BY <1>1, <1>2 DEF Inv, TypeOK
  <2>3. \A v \in Uploaders : job'[v] # 0 => pos'[v] <= Size[job'[v]]
    <3>1. job[w] \in Uploads /\ 0 <= Size[job[w]]
      BY <1>1, Sizes DEF Inv, TypeOK
    <3> QED
      BY <1>1, <1>3, <3>1 DEF Inv, TypeOK
  <2> QED
    BY <1>1, <2>1, <2>2, <2>3 DEF Inv, TypeOK, mainVars
<1>7. BodiesOK'
  <2>1. Content(0, 0) = << >>
    BY DEF Content
  <2> QED
    BY <1>1, <1>3, <2>1 DEF Inv, BodiesOK
<1>8. BookedOK'
  BY <1>1 DEF Inv, BookedOK, There, Whole, Passes
<1> QED
  BY <1>4, <1>5, <1>6, <1>7, <1>8 DEF Inv

\* PutObject ends: an error may have stored the file, a success has.
LEMMA PutEndsStep == ASSUME NEW w \in Uploaders, Inv, PutDone(w) \/ PutFails(w) PROVE Inv'
<1>1. /\ UNCHANGED <<mainVars, job, pos, body, tries>> /\ pc[w] = "put"
      /\ pc' = [pc EXCEPT ![w] = "book"]
      /\ bad' \in [Uploaders -> BOOLEAN]
      /\ \A v \in Uploaders : v # w => bad'[v] = bad[v]
  BY DEF PutDone, PutFails, Sent, Ends, Inv, TypeOK
<1>2. pc'[w] = "book" /\ \A v \in Uploaders : v # w => pc'[v] = pc[v]
  BY <1>1 DEF Inv, TypeOK
<1>3. \/ Sent(w) /\ bucket' = [bucket EXCEPT ![job[w]] = body[w]]
      \/ bad'[w] /\ UNCHANGED bucket
  BY DEF PutDone, PutFails, Ends, Inv, TypeOK
<1>4. /\ bucket' \in [Uploads -> Seq(Nat)] /\ BucketOK'
      /\ \A u \in Uploads : There(u) => There(u)'
      /\ bad'[w] \/ bucket'[job[w]] = Content(0, Size[job[w]])
  BY <1>3, StoringSent, StoringNothing DEF Inv
<1>5. ListedOK' /\ HandedOut' /\ LoopOK' /\ SuccessMeansUploaded' /\ IdleClean'
  BY <1>1, <1>2, <1>4, UploadKeeps
<1>6. TypeOK'
  BY <1>1, <1>2, <1>4 DEF Inv, TypeOK, mainVars
<1>7. BodiesOK'
  BY <1>1, <1>2 DEF Inv, BodiesOK
<1>8. BookedOK'
  <2> SUFFICES ASSUME NEW v \in Uploaders, pc'[v] = "book", ~bad'[v], Size[job[v]] > 0
               PROVE  There(job[v])'
    BY <1>1 DEF BookedOK, There, Whole, Passes
  <2>1. CASE v = w
    BY <1>1, <1>4, <2>1 DEF There, Whole
  <2>2. CASE v # w
    <3>1. There(job[v]) /\ job[v] \in Uploads
      BY <1>1, <1>2, <2>2 DEF Inv, BookedOK, TypeOK
    <3> QED
      BY <1>1, <1>4, <3>1 DEF There, Whole, Passes
  <2> QED
    BY <2>1, <2>2
<1> QED
  BY <1>4, <1>5, <1>6, <1>7, <1>8 DEF Inv

\* The error is kept, and the uploader free.
LEMMA BookStep == ASSUME NEW w \in Uploaders, Inv, Book(w) PROVE Inv'
<1>1. /\ UNCHANGED <<bucket, existing, main, next, result, runs>> /\ pc[w] = "book"
      /\ firstErr' = (firstErr \/ bad[w])
      /\ pc' = [pc EXCEPT ![w] = "idle"] /\ job' = [job EXCEPT ![w] = 0]
      /\ pos' = [pos EXCEPT ![w] = 0] /\ body' = [body EXCEPT ![w] = << >>]
      /\ tries' = [tries EXCEPT ![w] = 0] /\ bad' = [bad EXCEPT ![w] = FALSE]
  BY DEF Book, Forget
<1>2. /\ pc'[w] = "idle" /\ job'[w] = 0 /\ pos'[w] = 0
      /\ \A v \in Uploaders : v # w => /\ pc'[v] = pc[v] /\ job'[v] = job[v]
                                      /\ pos'[v] = pos[v] /\ body'[v] = body[v]
                                      /\ bad'[v] = bad[v]
  BY <1>1 DEF Inv, TypeOK
<1>3. TypeOK'
  <2>1. tries' \in [Uploaders -> 0 .. Attempts]
    BY <1>1, SeedingAssumption DEF Inv, TypeOK
  <2>2. firstErr' \in BOOLEAN
    BY <1>1
  <2>3. bad' \in [Uploaders -> BOOLEAN]
    BY <1>1 DEF Inv, TypeOK
  <2>4. /\ pc' \in [Uploaders -> {"idle", "begin", "put", "book", "gone"}]
        /\ job' \in [Uploaders -> Uploads \union {0}]
        /\ pos' \in [Uploaders -> Nat] /\ body' \in [Uploaders -> Seq(Nat)]
    BY <1>1 DEF Inv, TypeOK
  <2>5. \A v \in Uploaders : /\ pc'[v] \in {"begin", "put", "book"} => job'[v] # 0
                             /\ job'[v] # 0 => pos'[v] <= Size[job'[v]]
    BY <1>2 DEF Inv, TypeOK
  <2> QED
    BY <1>1, <2>1, <2>2, <2>3, <2>4, <2>5 DEF Inv, TypeOK
<1>4. BucketOK' /\ BodiesOK' /\ ListedOK' /\ BookedOK' /\ IdleClean'
  BY <1>1, <1>2 DEF Inv, BucketOK, BodiesOK, ListedOK, BookedOK, IdleClean, There, Whole, Passes
<1>5. HandedOut'
  <2> SUFFICES ASSUME ~firstErr, ~bad[w], NEW u \in Uploads, u < next, Size[u] > 0
               PROVE  There(u) \/ InHand(u)'
    BY <1>1 DEF HandedOut, There, Whole, Passes
  <2>1. CASE There(u)
    BY <2>1
  <2>2. CASE InHand(u)
    <3>1. PICK v \in Uploaders : job[v] = u /\ pc[v] \in {"begin", "put", "book"}
      BY <2>2 DEF InHand
    <3>2. CASE v = w
      BY <1>1, <3>1, <3>2 DEF Inv, BookedOK
    <3>3. CASE v # w
      BY <1>2, <3>1, <3>3 DEF InHand
    <3> QED
      BY <3>2, <3>3
  <2> QED
    BY <2>1, <2>2 DEF Inv, HandedOut
<1>6. LoopOK' /\ SuccessMeansUploaded'
  <2>1. main \notin {"list", "over"}
    BY <1>1 DEF Inv, LoopOK
  <2> QED
    BY <1>1, <2>1 DEF Inv, LoopOK, SuccessMeansUploaded
<1> QED
  BY <1>3, <1>4, <1>5, <1>6 DEF Inv

\* An uploader without a job leaves.
LEMMA LeaveStep == ASSUME NEW w \in Uploaders, Inv, Leave(w) PROVE Inv'
<1>1. /\ UNCHANGED <<bucket, mainVars, job, pos, body, tries, bad>>
      /\ pc[w] = "idle" /\ main = "wait" /\ pc' = [pc EXCEPT ![w] = "gone"]
  BY DEF Leave
<1>2. pc'[w] = "gone" /\ \A v \in Uploaders : v # w => pc'[v] = pc[v]
  BY <1>1 DEF Inv, TypeOK
<1>3. TypeOK'
  BY <1>1, <1>2 DEF Inv, TypeOK, mainVars
<1>4. BucketOK' /\ BodiesOK' /\ ListedOK' /\ BookedOK' /\ IdleClean'
  BY <1>1, <1>2
  DEF Inv, BucketOK, BodiesOK, ListedOK, BookedOK, IdleClean, There, Whole, Passes, mainVars
<1>5. HandedOut'
  <2>1. \A u \in Uploads : InHand(u) => InHand(u)'
    BY <1>1, <1>2 DEF InHand
  <2> QED
    BY <1>1, <2>1 DEF Inv, HandedOut, There, Whole, Passes, mainVars
<1>6. LoopOK' /\ SuccessMeansUploaded'
  BY <1>1 DEF Inv, LoopOK, SuccessMeansUploaded, mainVars
<1> QED
  BY <1>3, <1>4, <1>5, <1>6 DEF Inv

----------------------------------------------------------------------------
(* The user. *)

\* Nobody is at work, and nothing is known.
LEMMA FreshUploaders ==
    ASSUME IdleUploaders
    PROVE  /\ pc' \in [Uploaders -> {"idle", "begin", "put", "book", "gone"}]
           /\ job' \in [Uploaders -> Uploads \union {0}]
           /\ pos' \in [Uploaders -> Nat]
           /\ body' \in [Uploaders -> Seq(Nat)]
           /\ tries' \in [Uploaders -> 0 .. Attempts]
           /\ bad' \in [Uploaders -> BOOLEAN]
           /\ \A w \in Uploaders : pc'[w] = "idle" /\ job'[w] = 0 /\ pos'[w] = 0
<1>1. tries' \in [Uploaders -> 0 .. Attempts]
  BY SeedingAssumption DEF IdleUploaders
<1> QED
  BY <1>1 DEF IdleUploaders

\* A kill leaves what was stored, whole.
LEMMA KillStep == Inv /\ Kill => Inv'
<1> SUFFICES ASSUME Inv, Kill PROVE Inv'
  OBVIOUS
<1>1. /\ main' = "over" /\ result' = "killed" /\ IdleUploaders /\ UNCHANGED runs
      /\ existing' = [u \in Uploads |-> 0] /\ next' = 1 /\ firstErr' = FALSE
  BY DEF Kill
<1>2. PICK stored \in SUBSET {w \in Uploaders : Sent(w)} :
        bucket' = [u \in Uploads |->
                    IF \E w \in stored : job[w] = u THEN Content(0, Size[u]) ELSE bucket[u]]
  BY DEF Kill
<1> DEFINE S == {u \in Uploads : \E w \in stored : job[w] = u}
<1>3. bucket' = [u \in Uploads |-> IF u \in S THEN Content(0, Size[u]) ELSE bucket[u]]
  BY <1>2
<1>4. S \in SUBSET Uploads
  OBVIOUS
<1> HIDE DEF S
<1>5. bucket' \in [Uploads -> Seq(Nat)] /\ BucketOK'
  BY <1>3, <1>4, StoringWhole DEF Inv
<1>6. TypeOK'
  <2>1. existing' \in [Uploads -> Nat] /\ next' \in 1 .. (Len(Size) + 1)
    BY <1>1, Sizes
  <2>2. firstErr' \in BOOLEAN
    BY <1>1
  <2> QED
    BY <1>1, <1>5, <2>1, <2>2, FreshUploaders DEF Inv, TypeOK
<1>7. BodiesOK' /\ BookedOK' /\ IdleClean'
  BY <1>1, FreshUploaders DEF BodiesOK, BookedOK, IdleClean
<1>8. ListedOK' /\ HandedOut'
  BY <1>1, Sizes DEF ListedOK, HandedOut
<1>9. LoopOK' /\ SuccessMeansUploaded'
  BY <1>1, FreshUploaders DEF LoopOK, SuccessMeansUploaded
<1> QED
  BY <1>5, <1>6, <1>7, <1>8, <1>9 DEF Inv

\* The next run starts over, with the bucket as it is.
LEMMA RunAgainStep == Inv /\ RunAgain => Inv'
<1> SUFFICES ASSUME Inv, RunAgain PROVE Inv'
  OBVIOUS
<1>1. /\ UNCHANGED <<bucket, existing, next, firstErr, result>> /\ IdleUploaders
      /\ runs < MaxRuns /\ runs' = runs + 1 /\ main = "over" /\ main' = "list" /\ next = 1
  BY DEF RunAgain, Inv, LoopOK
<1>2. TypeOK'
  <2>1. runs' \in 1 .. MaxRuns
    BY <1>1, SeedingAssumption DEF Inv, TypeOK
  <2> QED
    BY <1>1, <2>1, FreshUploaders DEF Inv, TypeOK
<1>3. BodiesOK' /\ BookedOK' /\ IdleClean'
  BY <1>1, FreshUploaders DEF BodiesOK, BookedOK, IdleClean
<1>4. BucketOK' /\ ListedOK' /\ HandedOut'
  BY <1>1, Sizes DEF Inv, BucketOK, ListedOK, HandedOut, There, Whole, Passes
<1>5. LoopOK' /\ SuccessMeansUploaded'
  BY <1>1, FreshUploaders DEF LoopOK, SuccessMeansUploaded
<1> QED
  BY <1>2, <1>3, <1>4, <1>5 DEF Inv

----------------------------------------------------------------------------
(* The theorems. *)

\* The invariant holds of every seeding.
THEOREM Invariance == Spec => []Inv
<1>1. Inv /\ [Next]_vars => Inv'
  <2> SUFFICES ASSUME Inv, [Next]_vars PROVE Inv'
    OBVIOUS
  <2>1. CASE UNCHANGED vars
    BY <2>1 DEF vars, Inv, TypeOK, IdleClean, BucketOK, BodiesOK, ListedOK, BookedOK, HandedOut,
                InHand, LoopOK, SuccessMeansUploaded, There, Whole, Passes
  <2>2. CASE Main
    BY <2>2, ListStep, CheckStep, SendStep, ReturnStep DEF Main
  <2>3. ASSUME NEW w \in Uploaders, Uploader(w) PROVE Inv'
    BY <2>3, PresentStep, OpenFailsStep, OpenStep, ReadStep, RetryStep, PutEndsStep, BookStep,
       LeaveStep DEF Uploader
  <2> QED
    BY <2>1, <2>2, <2>3, KillStep, RunAgainStep DEF Next, Over
<1> QED
  BY InitInv, <1>1, PTL DEF Spec

\* runSeed's variables keep their types (edu.go).
THEOREM TypesHold == Spec => []TypeOK
  BY Invariance, PTL DEF Inv

\* A seeding that ends without an error has left every file that has bytes in
\* the bucket, whole, whatever happened in this run or before; only a file of
\* -include-dir may be an earlier one of its length (edu.go:127-213).
THEOREM SuccessHolds == Spec => []SuccessMeansUploaded
  BY Invariance, PTL DEF Inv

----------------------------------------------------------------------------
(* The sessions of bench run. *)

----------------------------------------------------------------------------
(* The sessions of bench run. *)

Req == [off : Int, length : Int, seq : Int]

\* Reads of an object of some size: of bytes that it has, each piece of a run
\* where the one before stopped, and never back if forward.
Runs(reqs, size, forward) ==
    /\ reqs \in Seq(Req)
    /\ \A k \in 1 .. Len(reqs) :
        /\ 0 <= reqs[k].off /\ reqs[k].length > 0 /\ reqs[k].off + reqs[k].length <= size
        /\ reqs[k].seq > 0 =>
            /\ k > 1 /\ reqs[k - 1].seq = reqs[k].seq - 1
            /\ reqs[k].off = reqs[k - 1].off + reqs[k - 1].length
    /\ forward => \A j, k \in 1 .. Len(reqs) : j < k => reqs[j].off + reqs[j].length <= reqs[k].off

\* Division rounds down.
LEMMA Division ==
    ASSUME NEW x \in Int, NEW c \in Nat \ {0}
    PROVE  /\ x \div c \in Int
           /\ (x \div c) * c <= x /\ x < (x \div c) * c + c
OBVIOUS

\* Multiples of a positive number are in order.
LEMMA Multiples ==
    ASSUME NEW a \in Int, NEW b \in Int, NEW c \in Nat \ {0}
    PROVE  /\ a * c \in Int /\ (a + 1) * c = a * c + c /\ (a - 1) * c = a * c - c
           /\ a <= b => a * c <= b * c
           /\ a * c < b * c => a < b
<1>1. a * c \in Int /\ b * c \in Int /\ (a + 1) * c = a * c + c /\ (a - 1) * c = a * c - c
  OBVIOUS
<1>2. ASSUME a <= b PROVE a * c <= b * c
  <2>1. b - a >= 0 /\ b - a \in Nat
    BY <1>2
  <2>2. \A d \in Nat : d * c >= 0
    OBVIOUS
  <2>3. (b - a) * c = b * c - a * c
    OBVIOUS
  <2> QED
    BY <1>1, <2>1, <2>2, <2>3
<1>3. ASSUME a * c < b * c PROVE a < b
  <2>1. \A d \in Nat : d * c >= 0
    OBVIOUS
  <2>2. ASSUME a >= b PROVE FALSE
    <3>1. a - b \in Nat
      BY <2>2
    <3>2. (a - b) * c = a * c - b * c
      OBVIOUS
    <3> QED
      BY <1>1, <1>3, <2>1, <3>1, <3>2
  <2> QED
    BY <2>2
<1> QED
  BY <1>1, <1>2, <1>3

\* The bytes [from, to) in pieces, numbered from 0.
InARow(reqs, from, to) ==
    /\ reqs \in Seq(Req)
    /\ \A k \in 1 .. Len(reqs) :
        /\ reqs[k].seq = k - 1
        /\ reqs[k].length > 0
        /\ from <= reqs[k].off /\ reqs[k].off + reqs[k].length <= to
    /\ \A k \in 2 .. Len(reqs) : reqs[k].off = reqs[k - 1].off + reqs[k - 1].length
    /\ \A j, k \in 1 .. Len(reqs) : j < k => reqs[j].off + reqs[j].length <= reqs[k].off
    /\ from = to => Len(reqs) = 0

\* They are what sequential makes.
LEMMA PiecesInARow ==
    ASSUME NEW from \in Nat, NEW to \in Nat, from <= to, NEW c \in Nat \ {0}
    PROVE  InARow(sequential(from, to, c), from, to)
<1> DEFINE n == (to - from + c - 1) \div c
           off(k) == from + (k - 1) * c
           reqs == [k \in 1 .. n |->
             [off |-> off(k), length |-> Least(c, to - off(k)), seq |-> k - 1]]
<1>1. /\ n \in Int
      /\ n * c <= to - from + c - 1 /\ to - from + c - 1 < n * c + c
  BY Division
<1>2. n >= 0 /\ (from = to => n = 0)
  <2>1. ASSUME n < 0 PROVE FALSE
    <3>1. n + 1 <= 0
      BY <1>1, <2>1
    <3>2. (n + 1) * c <= 0 * c /\ (n + 1) * c = n * c + c
      BY <1>1, <3>1, Multiples
    <3> HIDE DEF n
    <3> QED
      BY <1>1, <3>2
  <2>2. ASSUME from = to, n > 0 PROVE FALSE
    <3>1. n >= 1
      BY <1>1, <2>2
    <3>2. 1 * c <= n * c
      BY <1>1, <3>1, Multiples
    <3> HIDE DEF n
    <3> QED
      BY <1>1, <2>2, <3>2
  <2> HIDE DEF n
  <2> QED
    BY <1>1, <2>1, <2>2
<1> HIDE DEF n
<1>3. ASSUME NEW k \in 1 .. n
      PROVE  /\ off(k) \in Int /\ from <= off(k) /\ off(k) < to
             /\ off(k + 1) = off(k) + c
             /\ k < n => off(k) + c < to
  <2>1. k \in Int /\ k - 1 \in Int /\ n \in Int /\ (k + 1) - 1 = k
    BY <1>1
  <2>2. (k - 1) * c \in Int /\ 0 * c <= (k - 1) * c /\ k * c = (k - 1) * c + c
    BY <2>1, Multiples
  <2>3. (k - 1) * c <= (n - 1) * c /\ (n - 1) * c = n * c - c
    BY <1>1, <2>1, Multiples
  <2>4. k < n => k * c <= (n - 1) * c
    BY <1>1, <2>1, Multiples
  <2> QED
    BY <1>1, <2>1, <2>2, <2>3, <2>4
<1>4. ASSUME NEW j \in 1 .. n, NEW k \in 1 .. n, j < k
      PROVE  off(j) + c <= off(k)
  <2>1. j \in Int /\ j - 1 \in Int /\ k - 1 \in Int /\ j <= k - 1
    BY <1>1, <1>4
  <2>2. j * c <= (k - 1) * c /\ j * c = (j - 1) * c + c /\ j * c \in Int /\ (k - 1) * c \in Int
        /\ (j - 1) * c \in Int
    BY <2>1, Multiples
  <2> QED
    BY <2>1, <2>2
<1> HIDE DEF off
<1>5. ASSUME NEW k \in 1 .. n
      PROVE  LET l == Least(c, to - off(k))
             IN  /\ l \in Int /\ l > 0 /\ off(k) + l <= to /\ l <= c
                 /\ k < n => l = c
  BY <1>3 DEF Least
<1>6. reqs \in Seq(Req) /\ Len(reqs) = n
  <2>1. n \in Nat
    BY <1>1, <1>2
  <2>2. \A k \in 1 .. n : [off |-> off(k), length |-> Least(c, to - off(k)), seq |-> k - 1] \in Req
    BY <1>3, <1>5, <2>1 DEF Req
  <2>3. reqs \in [1 .. n -> Req]
    BY <2>2
  <2> QED
    BY <2>1, <2>3
<1>7. \A k \in 1 .. n : /\ reqs[k].off = off(k) /\ reqs[k].seq = k - 1
                        /\ reqs[k].length = Least(c, to - off(k))
  OBVIOUS
<1>8. sequential(from, to, c) = reqs
  BY DEF sequential, n, off
<1> HIDE DEF reqs
<1>9. \A k \in 2 .. n : reqs[k].off = reqs[k - 1].off + reqs[k - 1].length
  <2> TAKE k \in 2 .. n
  <2>1. k \in 1 .. n /\ k - 1 \in 1 .. n /\ k - 1 < n /\ (k - 1) + 1 = k
    BY <1>1
  <2> QED
    BY <1>3, <1>5, <1>7, <2>1
<1>10. \A j, k \in 1 .. n : j < k => reqs[j].off + reqs[j].length <= reqs[k].off
  <2> TAKE j, k \in 1 .. n
  <2>1. off(j) \in Int /\ off(k) \in Int /\ Least(c, to - off(j)) \in Int
        /\ Least(c, to - off(j)) <= c
    BY <1>3, <1>5
  <2> QED
    BY <1>4, <1>7, <2>1
<1>11. \A k \in 1 .. n :
         /\ reqs[k].seq = k - 1
         /\ reqs[k].length > 0
         /\ from <= reqs[k].off /\ reqs[k].off + reqs[k].length <= to
  BY <1>3, <1>5, <1>7
<1>12. from = to => n = 0
  BY <1>2
<1>13. InARow(reqs, from, to)
  BY <1>6, <1>9, <1>10, <1>11, <1>12 DEF InARow
<1> QED
  BY <1>8, <1>13

\* It is a run, forward, of any object that has the bytes.
LEMMA PiecesRun ==
    ASSUME NEW from \in Nat, NEW to \in Nat, from <= to, NEW c \in Nat \ {0},
           NEW size \in Nat, to <= size
    PROVE  Runs(sequential(from, to, c), size, TRUE)
<1> DEFINE reqs == sequential(from, to, c)
<1>1. /\ reqs \in Seq(Req)
      /\ \A k \in 1 .. Len(reqs) :
           /\ reqs[k].seq = k - 1
           /\ reqs[k].length > 0
           /\ from <= reqs[k].off /\ reqs[k].off + reqs[k].length <= to
      /\ \A k \in 2 .. Len(reqs) : reqs[k].off = reqs[k - 1].off + reqs[k - 1].length
      /\ \A j, k \in 1 .. Len(reqs) : j < k => reqs[j].off + reqs[j].length <= reqs[k].off
  BY PiecesInARow DEF InARow
<1> HIDE DEF reqs
<1>2. Len(reqs) \in Nat /\ \A k \in 1 .. Len(reqs) : reqs[k].off \in Int /\ reqs[k].length \in Int
  <2>1. Len(reqs) \in Nat /\ \A k \in 1 .. Len(reqs) : reqs[k] \in Req
    BY <1>1, LenProperties, ElementOfSeq
  <2> QED
    BY <2>1 DEF Req
<1>3. ASSUME NEW k \in 1 .. Len(reqs)
      PROVE  /\ 0 <= reqs[k].off /\ reqs[k].length > 0 /\ reqs[k].off + reqs[k].length <= size
             /\ reqs[k].seq > 0 =>
                /\ k > 1 /\ reqs[k - 1].seq = reqs[k].seq - 1
                /\ reqs[k].off = reqs[k - 1].off + reqs[k - 1].length
  <2>1. 0 <= reqs[k].off /\ reqs[k].length > 0 /\ reqs[k].off + reqs[k].length <= size
    BY <1>1, <1>2
  <2>2. ASSUME reqs[k].seq > 0
        PROVE  /\ k > 1 /\ reqs[k - 1].seq = reqs[k].seq - 1
               /\ reqs[k].off = reqs[k - 1].off + reqs[k - 1].length
    <3>1. k \in 2 .. Len(reqs) /\ k - 1 \in 1 .. Len(reqs)
      BY <1>1, <1>2, <2>2
    <3> QED
      BY <1>1, <3>1
  <2> QED
    BY <2>1, <2>2
<1>4. Runs(reqs, size, TRUE)
  BY <1>1, <1>3 DEF Runs
<1> QED
  BY <1>4 DEF reqs

\* The reads before some read.
LEMMA RunsPrefix ==
    ASSUME NEW reqs, NEW size, NEW forward \in BOOLEAN, Runs(reqs, size, forward),
           NEW m \in 0 .. Len(reqs)
    PROVE  /\ Runs(SubSeq(reqs, 1, m), size, forward)
           /\ Len(SubSeq(reqs, 1, m)) = m
           /\ \A i \in 1 .. m : SubSeq(reqs, 1, m)[i] = reqs[i]
<1> DEFINE pre == SubSeq(reqs, 1, m)
<1>1. /\ reqs \in Seq(Req) /\ Len(reqs) \in Nat /\ m \in Nat /\ m <= Len(reqs)
      /\ \A i \in 1 .. m : reqs[i] \in Req
  BY LenProperties, ElementOfSeq DEF Runs
<1>2. pre \in Seq(Req) /\ Len(pre) = m /\ \A i \in 1 .. m : pre[i] = reqs[i]
  <2>1. /\ pre \in Seq(Req) /\ Len(pre) = IF 1 <= m THEN m - 1 + 1 ELSE 0
        /\ \A i \in 1 .. m - 1 + 1 : pre[i] = reqs[1 + i - 1]
    BY <1>1, SubSeqProperties
  <2> HIDE DEF pre
  <2> QED
    BY <1>1, <2>1
<1> HIDE DEF pre
<1>3. ASSUME NEW k \in 1 .. Len(pre)
      PROVE  /\ 0 <= pre[k].off /\ pre[k].length > 0 /\ pre[k].off + pre[k].length <= size
             /\ pre[k].seq > 0 =>
                /\ k > 1 /\ pre[k - 1].seq = pre[k].seq - 1
                /\ pre[k].off = pre[k - 1].off + pre[k - 1].length
  <2>1. k \in 1 .. Len(reqs) /\ pre[k] = reqs[k] /\ (k > 1 => pre[k - 1] = reqs[k - 1])
    BY <1>1, <1>2
  <2> QED
    BY <2>1 DEF Runs
<1>4. forward => \A j, k \in 1 .. Len(pre) : j < k => pre[j].off + pre[j].length <= pre[k].off
  BY <1>1, <1>2 DEF Runs
<1>5. Runs(pre, size, forward)
  BY <1>2, <1>3, <1>4 DEF Runs
<1> QED
  BY <1>2, <1>5 DEF pre

\* One run after another; forward, if the second begins behind the first.
LEMMA RunsConcat ==
    ASSUME NEW a, NEW b, NEW size, NEW forward \in BOOLEAN,
           Runs(a, size, forward), Runs(b, size, forward), Len(b) > 0 => b[1].seq <= 0,
           forward => \A i \in 1 .. Len(a), j \in 1 .. Len(b) :
                        a[i].off + a[i].length <= b[j].off
    PROVE  Runs(a \o b, size, forward)
<1> DEFINE reqs == a \o b
<1>1. /\ a \in Seq(Req) /\ Len(a) \in Nat /\ b \in Seq(Req) /\ Len(b) \in Nat
      /\ \A i \in 1 .. Len(a) : a[i] \in Req
      /\ \A i \in 1 .. Len(b) : b[i] \in Req
  BY LenProperties, ElementOfSeq DEF Runs
<1>2. /\ reqs \in Seq(Req) /\ Len(reqs) = Len(a) + Len(b)
      /\ \A i \in 1 .. Len(a) + Len(b) :
           reqs[i] = IF i <= Len(a) THEN a[i] ELSE b[i - Len(a)]
  BY <1>1, ConcatProperties
<1> HIDE DEF reqs
<1>3. \A i \in 1 .. Len(a) : i \in 1 .. Len(reqs) /\ reqs[i] = a[i]
  BY <1>1, <1>2
<1>4. \A i \in 1 .. Len(b) : Len(a) + i \in 1 .. Len(reqs) /\ reqs[Len(a) + i] = b[i]
  <2> TAKE i \in 1 .. Len(b)
  <2>1. Len(a) + i \in 1 .. Len(a) + Len(b) /\ ~(Len(a) + i <= Len(a)) /\ (Len(a) + i) - Len(a) = i
    BY <1>1
  <2> QED
    BY <1>2, <2>1
<1>5. \A k \in 1 .. Len(reqs) : k \in 1 .. Len(a) \/ \E i \in 1 .. Len(b) : k = Len(a) + i
  <2> TAKE k \in 1 .. Len(reqs)
  <2>1. k > Len(a) => k - Len(a) \in 1 .. Len(b) /\ k = Len(a) + (k - Len(a))
    BY <1>1, <1>2
  <2> QED
    BY <1>1, <1>2, <2>1
<1>6. ASSUME NEW k \in 1 .. Len(reqs)
      PROVE  /\ 0 <= reqs[k].off /\ reqs[k].length > 0 /\ reqs[k].off + reqs[k].length <= size
             /\ reqs[k].seq > 0 =>
                /\ k > 1 /\ reqs[k - 1].seq = reqs[k].seq - 1
                /\ reqs[k].off = reqs[k - 1].off + reqs[k - 1].length
  <2>1. CASE k \in 1 .. Len(a)
    <3>1. reqs[k] = a[k] /\ (k > 1 => reqs[k - 1] = a[k - 1])
      BY <1>1, <1>3, <2>1
    <3> QED
      BY <2>1, <3>1 DEF Runs
  <2>2. ASSUME NEW i \in 1 .. Len(b), k = Len(a) + i
        PROVE  /\ 0 <= reqs[k].off /\ reqs[k].length > 0 /\ reqs[k].off + reqs[k].length <= size
               /\ reqs[k].seq > 0 =>
                  /\ k > 1 /\ reqs[k - 1].seq = reqs[k].seq - 1
                  /\ reqs[k].off = reqs[k - 1].off + reqs[k - 1].length
    <3>1. reqs[k] = b[i] /\ (i > 1 => k - 1 = Len(a) + (i - 1) /\ reqs[k - 1] = b[i - 1])
      <4>1. i > 1 => i - 1 \in 1 .. Len(b) /\ k - 1 = Len(a) + (i - 1)
        BY <1>1, <2>2
      <4> QED
        BY <1>4, <2>2, <4>1
    <3>2. b[i].seq > 0 => i > 1 /\ k > 1
      <4>1. 1 \in 1 .. Len(b) /\ Len(b) > 0 /\ b[1] \in Req
        BY <1>1
      <4>2. b[1].seq \in Int /\ b[1].seq <= 0
        BY <4>1 DEF Req
      <4>3. i = 1 => ~(b[i].seq > 0)
        BY <4>2
      <4> QED
        BY <1>1, <2>2, <4>3
    <3> QED
      BY <3>1, <3>2 DEF Runs
  <2> QED
    BY <1>5, <2>1, <2>2
<1>7. ASSUME forward, NEW j \in 1 .. Len(reqs), NEW k \in 1 .. Len(reqs), j < k
      PROVE  reqs[j].off + reqs[j].length <= reqs[k].off
  <2>1. CASE j \in 1 .. Len(a) /\ k \in 1 .. Len(a)
    BY <1>3, <1>7, <2>1 DEF Runs
  <2>2. ASSUME j \in 1 .. Len(a), NEW i \in 1 .. Len(b), k = Len(a) + i
        PROVE  reqs[j].off + reqs[j].length <= reqs[k].off
    BY <1>3, <1>4, <1>7, <2>2
  <2>3. ASSUME NEW h \in 1 .. Len(b), j = Len(a) + h, NEW i \in 1 .. Len(b), k = Len(a) + i
        PROVE  reqs[j].off + reqs[j].length <= reqs[k].off
    <3>1. h < i
      BY <1>1, <1>7, <2>3
    <3>2. reqs[j] = b[h] /\ reqs[k] = b[i]
      BY <1>4, <2>3
    <3>3. b[h].off + b[h].length <= b[i].off
      BY <1>7, <3>1 DEF Runs
    <3> QED
      BY <3>2, <3>3
  <2>4. ~(k \in 1 .. Len(a) /\ \E h \in 1 .. Len(b) : j = Len(a) + h)
    BY <1>1, <1>7
  <2> QED
    BY <1>5, <2>1, <2>2, <2>3, <2>4
<1>8. Runs(reqs, size, forward)
  BY <1>2, <1>6, <1>7 DEF Runs
<1> QED
  BY <1>8 DEF reqs

\* A set of numbers that is not empty has a least one.
LEMMA LeastNumber ==
    ASSUME NEW S \in SUBSET Nat, S # {}
    PROVE  Min(S) \in S /\ \A x \in S : Min(S) <= x
<1>1. PICK m \in S : \A x \in S : ~(<<x, m>> \in OpToRel(<, Nat))
  BY NatLessThanWellFounded, WFMin
<1>2. \A x \in S : ~(x < m)
  BY <1>1 DEF OpToRel
<1>3. \A x \in S : m <= x
  BY <1>2
<1> QED
  BY <1>3 DEF Min

\* What the first reads ask for does not depend on those behind them.
LEMMA BytesOfPrefix ==
    ASSUME NEW a, NEW b, NEW n \in Nat, \A i \in 1 .. n : a[i] = b[i]
    PROVE  BytesOf(a, n) = BytesOf(b, n)
<1>1. UNION {{i} \X (1 .. a[i].length) : i \in 1 .. n} =
        UNION {{i} \X (1 .. b[i].length) : i \in 1 .. n}
  OBVIOUS
<1> QED
  BY <1>1, Zenon DEF BytesOf

\* Finitely many reads ask for finitely many bytes.
LEMMA BytesOfNat ==
    ASSUME NEW reqs, NEW n \in Nat, \A i \in 1 .. n : reqs[i].length \in Int
    PROVE  BytesOf(reqs, n) \in Nat
<1> DEFINE Parts == {{i} \X (1 .. reqs[i].length) : i \in 1 .. n}
           part == [i \in 1 .. n |-> {i} \X (1 .. reqs[i].length)]
<1>1. part \in Surjection(1 .. n, Parts)
  BY DEF Surjection
<1>2. IsFiniteSet(1 .. n)
  BY FS_Interval
<1>3. IsFiniteSet(Parts)
  BY <1>1, <1>2, FS_Surjection
<1>4. ASSUME NEW P \in Parts PROVE IsFiniteSet(P)
  <2>1. PICK i \in 1 .. n : P = {i} \X (1 .. reqs[i].length)
    BY <1>4
  <2>2. IsFiniteSet({i}) /\ IsFiniteSet(1 .. reqs[i].length)
    <3>1. \A x \in Int : IsFiniteSet(1 .. x)
      BY FS_Interval
    <3> QED
      BY <3>1, FS_Singleton
  <2>3. \A T : IsFiniteSet(T) => IsFiniteSet({i} \X T)
    BY <2>2, FS_Product
  <2> QED
    BY <2>1, <2>2, <2>3
<1>5. IsFiniteSet(UNION Parts)
  <2> HIDE DEF Parts
  <2> QED
    BY <1>3, <1>4, FS_UNION
<1>6. Cardinality(UNION Parts) \in Nat
  <2> HIDE DEF Parts
  <2> QED
    BY <1>5, FS_CardinalityType
<1>7. BytesOf(reqs, n) = Cardinality(UNION Parts)
  BY Zenon DEF BytesOf
<1> QED
  BY <1>6, <1>7, Zenon

\* capBytes leaves a beginning of the reads, under the cap if it leaves two.
LEMMA CappedRuns ==
    ASSUME NEW reqs, NEW size, NEW forward \in BOOLEAN, Runs(reqs, size, forward), MaxBytes \in Int
    PROVE  LET capped == capBytes(reqs)
           IN  /\ Runs(capped, size, forward)
               /\ (MaxBytes > 0 /\ Len(capped) > 1) =>
                    BytesOf(capped, Len(capped)) <= MaxBytes
<1> DEFINE over == {n \in 1 .. Len(reqs) : BytesOf(reqs, n) > MaxBytes}
<1>0. /\ reqs \in Seq(Req) /\ Len(reqs) \in Nat
      /\ \A i \in 1 .. Len(reqs) : reqs[i].length \in Int
  <2>1. /\ reqs \in Seq(Req) /\ Len(reqs) \in Nat
        /\ \A i \in 1 .. Len(reqs) : reqs[i] \in Req
    BY LenProperties, ElementOfSeq DEF Runs
  <2> QED
    BY <2>1 DEF Req
<1>1. /\ reqs \in Seq(Req) /\ Len(reqs) \in Nat
      /\ \A n \in 1 .. Len(reqs) : BytesOf(reqs, n) \in Nat
  BY <1>0, BytesOfNat
<1>2. capBytes(reqs) =
        IF MaxBytes <= 0 \/ over = {} THEN reqs
        ELSE SubSeq(reqs, 1, Greatest(1, Min(over) - 1))
  BY DEF capBytes
<1>3. CASE MaxBytes <= 0
  BY <1>2, <1>3
<1>4. CASE MaxBytes > 0 /\ over = {}
  <2>1. capBytes(reqs) = reqs
    BY <1>2, <1>4
  <2>2. Len(reqs) > 1 => ~(BytesOf(reqs, Len(reqs)) > MaxBytes)
    BY <1>1, <1>4
  <2> QED
    BY <2>1, <2>2, <1>1, <1>4
<1>5. CASE MaxBytes > 0 /\ over # {}
  <2> DEFINE m == Min(over)
             n == Greatest(1, m - 1)
             pre == SubSeq(reqs, 1, n)
  <2>1. m \in over /\ \A x \in over : m <= x
    <3>1. over \in SUBSET Nat /\ over # {}
      BY <1>1, <1>5
    <3> HIDE DEF over
    <3> QED
      BY <3>1, LeastNumber
  <2>2. m \in 1 .. Len(reqs)
    BY <2>1
  <2> HIDE DEF m
  <2>3. n \in 1 .. Len(reqs) /\ (n > 1 => n = m - 1)
    BY <1>1, <2>2 DEF Greatest
  <2> HIDE DEF n
  <2>4. n \in 0 .. Len(reqs) /\ n \in Nat
    BY <2>3
  <2>5. Runs(pre, size, forward) /\ Len(pre) = n /\ \A i \in 1 .. n : pre[i] = reqs[i]
    BY <2>4, RunsPrefix
  <2> HIDE DEF pre
  <2>6. BytesOf(pre, n) = BytesOf(reqs, n)
    BY <2>4, <2>5, BytesOfPrefix
  <2>7. n > 1 => n \notin over
    <3>1. n > 1 => ~(m <= n)
      BY <2>2, <2>3
    <3> QED
      BY <2>1, <3>1
  <2>8. n > 1 => ~(BytesOf(reqs, n) > MaxBytes)
    BY <2>3, <2>7
  <2>9. capBytes(reqs) = pre
    <3>1. ~(MaxBytes <= 0 \/ over = {})
      <4> HIDE DEF over
      <4> QED
        BY <1>5
    <3>2. capBytes(reqs) = IF MaxBytes <= 0 \/ over = {} THEN reqs ELSE pre
      BY <1>2, Zenon DEF pre, n, m
    <3> HIDE DEF over
    <3> QED
      BY <3>1, <3>2
  <2>10. n > 1 => BytesOf(pre, n) <= MaxBytes
    <3>1. BytesOf(reqs, n) \in Nat
      BY <1>1, <2>3
    <3> QED
      BY <2>6, <2>8, <3>1
  <2> HIDE DEF over
  <2> QED
    BY <2>5, <2>9, <2>10
<1> QED
  BY <1>3, <1>4, <1>5

\* A student stops watching somewhere in the video.
LEMMA EndsInside ==
    ASSUME NEW size \in Nat, NEW end \in WatchEnds(size)
    PROVE  end \in Nat /\ end <= size
<1>1. 8 * size \in Int /\ 100 \in Nat \ {0} /\ 8 * size >= 0
  OBVIOUS
<1>2. /\ (8 * size) \div 100 \in Int
      /\ 8 * size < ((8 * size) \div 100) * 100 + 100
  BY <1>1, Division
<1>3. (8 * size) \div 100 >= 0
  BY <1>1, <1>2
<1> QED
  BY <1>2, <1>3 DEF WatchEnds

\* A student who watches reads forward.
LEMMA WatchingRuns ==
    ASSUME NEW size \in Nat, VideoChunk \in Nat \ {0}, NEW r \in Watching(size)
    PROVE  Runs(r, size, TRUE)
<1>1. PICK end \in WatchEnds(size) :
        r = sequential(0, Greatest(end, Least(size, VideoChunk)), VideoChunk)
  BY DEF Watching
<1> DEFINE to == Greatest(end, Least(size, VideoChunk))
<1>2. to \in Nat /\ 0 <= to /\ to <= size
  BY EndsInside DEF Greatest, Least
<1> HIDE DEF to
<1>3. Runs(sequential(0, to, VideoChunk), size, TRUE)
  BY <1>2, PiecesRun
<1> QED
  BY <1>1, <1>3 DEF to

\* A seek lands in the object and, if the opening was watched to a chunk's end,
\* not before it.
LEMMA SeekLands ==
    ASSUME NEW size \in Nat \ {0}, VideoChunk \in Nat \ {0}, NEW first \in Nat, first <= size,
           NEW s \in SeekStarts(size, first)
    PROVE  /\ s \in Nat /\ s <= size
           /\ \A k \in Nat : first = k * VideoChunk => first <= s
<1>1. PICK x \in first .. first + Greatest(1, size - first) - 1 : s = x - (x % VideoChunk)
  BY DEF SeekStarts
<1> DEFINE q == x \div VideoChunk
<1>2. x \in Nat /\ first <= x /\ x <= size
  BY DEF Greatest
<1>3. /\ q \in Int /\ q * VideoChunk \in Int
      /\ q * VideoChunk <= x /\ x < q * VideoChunk + VideoChunk
  <2>1. q \in Int /\ q * VideoChunk <= x /\ x < q * VideoChunk + VideoChunk
    BY <1>2, Division
  <2> QED
    BY <2>1, Multiples
<1>4. x % VideoChunk = x - VideoChunk * (x \div VideoChunk)
  BY <1>2
<1>5. s = q * VideoChunk
  <2>1. VideoChunk * (x \div VideoChunk) = (x \div VideoChunk) * VideoChunk
    BY <1>3
  <2>2. x % VideoChunk = x - q * VideoChunk
    BY <1>4, <2>1
  <2> HIDE DEF q
  <2> QED
    BY <1>1, <1>2, <1>3, <1>4, <2>2
<1> HIDE DEF q
<1>6. q >= 0
  <2>1. ASSUME q < 0 PROVE FALSE
    <3>1. q + 1 <= 0
      BY <1>3, <2>1
    <3>2. (q + 1) * VideoChunk <= 0 * VideoChunk /\ (q + 1) * VideoChunk = q * VideoChunk + VideoChunk
      BY <1>3, <3>1, Multiples
    <3> QED
      BY <1>2, <1>3, <3>2
  <2> QED
    BY <1>3, <2>1
<1>7. s \in Nat
  <2>1. 0 * VideoChunk <= q * VideoChunk
    BY <1>3, <1>6, Multiples
  <2> QED
    BY <1>3, <1>5, <2>1
<1>8. ASSUME NEW k \in Nat, first = k * VideoChunk PROVE first <= s
  <2>1. k * VideoChunk \in Int /\ (q + 1) * VideoChunk = q * VideoChunk + VideoChunk
    BY <1>3, Multiples
  <2>2. k * VideoChunk < (q + 1) * VideoChunk
    BY <1>2, <1>3, <1>8, <2>1
  <2>3. k < q + 1
    BY <1>3, <2>2, Multiples
  <2>4. k <= q
    BY <1>3, <2>3
  <2>5. k * VideoChunk <= q * VideoChunk
    BY <1>3, <2>4, Multiples
  <2> QED
    BY <1>5, <1>8, <2>5
<1> QED
  BY <1>2, <1>3, <1>5, <1>7, <1>8

\* A student who seeks reads forward too: only from behind the opening.
LEMMA SkippingRuns ==
    ASSUME NEW size \in Nat \ {0}, VideoChunk \in Nat \ {0}, SeekChunks \subseteq Nat \ {0},
           NEW r \in Skipping(size)
    PROVE  Runs(r, size, TRUE)
<1>1. PICK end \in WatchEnds(size), k \in SeekChunks :
        r \in {sequential(0, Least(end, k * VideoChunk), VideoChunk)
                 \o sequential(s, Least(size, s + (end - Least(end, k * VideoChunk))),
                                   VideoChunk)
                 : s \in SeekStarts(size, Least(end, k * VideoChunk))}
  BY DEF Skipping
<1> DEFINE first == Least(end, k * VideoChunk)
<1>2. PICK s \in SeekStarts(size, first) :
        r = sequential(0, first, VideoChunk)
              \o sequential(s, Least(size, s + (end - first)), VideoChunk)
  BY <1>1
<1>3. end \in Nat /\ end <= size /\ k \in Nat /\ k * VideoChunk \in Nat
  <2>1. k \in Nat /\ k \in Int /\ 0 <= k
    BY <1>1
  <2>2. k * VideoChunk \in Int /\ 0 * VideoChunk <= k * VideoChunk
    BY <2>1, Multiples
  <2> QED
    BY <2>1, <2>2, EndsInside
<1>4. /\ first \in Nat /\ first <= end /\ first <= size
      /\ first = end \/ first = k * VideoChunk
  BY <1>3 DEF Least
<1> HIDE DEF first
<1>5. /\ s \in Nat /\ s <= size
      /\ first = k * VideoChunk => first <= s
  BY <1>3, <1>4, SeekLands
<1> DEFINE to == Least(size, s + (end - first))
           a == sequential(0, first, VideoChunk)
           b == sequential(s, to, VideoChunk)
<1>6. to \in Nat /\ s <= to /\ to <= size /\ (first = end => s = to)
  BY <1>3, <1>4, <1>5 DEF Least
<1>7. r = a \o b
  BY <1>2
<1> HIDE DEF to
<1>8. 0 <= first /\ size \in Nat
  BY <1>4
<1>9. Runs(a, size, TRUE) /\ InARow(a, 0, first)
  BY <1>4, <1>8, PiecesRun, PiecesInARow
<1>10. Runs(b, size, TRUE) /\ InARow(b, s, to)
  BY <1>5, <1>6, <1>8, PiecesRun, PiecesInARow
<1> HIDE DEF a, b
<1>11. /\ a \in Seq(Req) /\ \A i \in 1 .. Len(a) : a[i].off + a[i].length <= first
  BY <1>9 DEF InARow
<1>12. /\ b \in Seq(Req)
       /\ \A i \in 1 .. Len(b) : b[i].seq = i - 1 /\ s <= b[i].off
       /\ s = to => Len(b) = 0
  BY <1>10 DEF InARow
<1>13. Len(b) > 0 => b[1].seq <= 0
  BY <1>12, LenProperties
<1>14. ASSUME NEW i \in 1 .. Len(a), NEW j \in 1 .. Len(b)
       PROVE  a[i].off + a[i].length <= b[j].off
  <2>1. first <= s
    BY <1>4, <1>5, <1>6, <1>12
  <2>2. a[i] \in Req /\ b[j] \in Req
    BY <1>11, <1>12, ElementOfSeq
  <2>3. a[i].off + a[i].length \in Int /\ b[j].off \in Int
    BY <2>2 DEF Req
  <2> QED
    BY <1>4, <1>5, <1>11, <1>12, <2>1, <2>3
<1> QED
  BY <1>7, <1>9, <1>10, <1>13, <1>14, RunsConcat

\* A PDF's viewer reads its end, then its pages.
LEMMA PdfRuns ==
    ASSUME NEW size \in Nat \ {0}, PdfChunk \in Nat \ {0}, TailBytes \in Nat \ {0},
           PdfPages \subseteq Nat \ {0}, NEW r \in pdfReads(size)
    PROVE  Runs(r, size, FALSE)
<1> DEFINE tail == Least(size, TailBytes)
           e == [off |-> size - tail, length |-> tail, seq |-> -1]
<1>1. PICK pages \in PdfPages :
        r = <<e>> \o sequential(0, Least(size, pages * PdfChunk), PdfChunk)
  BY DEF pdfReads
<1>2. tail \in Nat /\ tail > 0 /\ tail <= size
  BY DEF Least
<1> HIDE DEF tail
<1>3. /\ e \in Req /\ 0 <= e.off /\ e.length > 0 /\ e.off + e.length <= size
      /\ ~(e.seq > 0)
  BY <1>2 DEF Req
<1> HIDE DEF e
<1>4. <<e>> \in Seq(Req) /\ Len(<<e>>) = 1 /\ <<e>>[1] = e
  BY <1>3
<1>5. Runs(<<e>>, size, FALSE)
  <2>1. \A k \in 1 .. Len(<<e>>) : k = 1 /\ <<e>>[k] = e
    BY <1>4
  <2> QED
    BY <1>3, <1>4, <2>1 DEF Runs
<1> DEFINE to == Least(size, pages * PdfChunk)
           b == sequential(0, to, PdfChunk)
<1>6. to \in Nat /\ 0 <= to /\ to <= size
  <2>1. pages \in Nat /\ pages \in Int /\ 0 <= pages
    BY <1>1
  <2>2. pages * PdfChunk \in Int /\ 0 * PdfChunk <= pages * PdfChunk
    BY <2>1, Multiples
  <2> QED
    BY <2>2 DEF Least
<1> HIDE DEF to
<1>7. Runs(b, size, TRUE)
  BY <1>6, PiecesRun
<1>8. InARow(b, 0, to)
  BY <1>6, PiecesInARow
<1>9. r = <<e>> \o b
  BY <1>1 DEF to
<1> HIDE DEF b
<1>10. Len(b) > 0 => b[1].seq <= 0
  BY <1>8, LenProperties DEF InARow
<1>11. Runs(b, size, FALSE)
  BY <1>7 DEF Runs
<1> QED
  BY <1>5, <1>9, <1>10, <1>11, RunsConcat

\* Whatever kind of file it is.
LEMMA ReadsRun ==
    ASSUME WorkloadAssumption, NEW o \in Objects, Length[o] > 0, NEW r \in ReadsOf(o)
    PROVE  Runs(r, Length[o], Kind[o] = "video")
<1>1. /\ Length[o] \in Nat \ {0}
      /\ VideoChunk \in Nat \ {0} /\ PdfChunk \in Nat \ {0} /\ DownloadBuf \in Nat \ {0}
      /\ TailBytes \in Nat \ {0}
      /\ SeekChunks \subseteq Nat \ {0} /\ PdfPages \subseteq Nat \ {0}
  BY DEF WorkloadAssumption
<1>2. CASE Kind[o] = "video"
  <2>1. r \in videoReads(Length[o])
    BY <1>2 DEF ReadsOf
  <2>2. r \in Watching(Length[o]) \/ r \in Skipping(Length[o])
    BY <2>1 DEF videoReads
  <2>3. Runs(r, Length[o], TRUE)
    BY <1>1, <2>2, WatchingRuns, SkippingRuns
  <2>4. (Kind[o] = "video") = TRUE
    BY <1>2
  <2> QED
    BY <2>3, <2>4
<1>3. CASE Kind[o] # "video"
  <2>1. (Kind[o] = "video") = FALSE
    BY <1>3
  <2>2. CASE Kind[o] = "pdf"
    <3>1. r \in pdfReads(Length[o])
      BY <2>2 DEF ReadsOf
    <3> QED
      BY <1>1, <2>1, <3>1, PdfRuns
  <2>3. CASE Kind[o] # "pdf"
    <3>1. ReadsOf(o) = {sequential(0, Length[o], DownloadBuf)}
      BY <1>3, <2>3 DEF ReadsOf
    <3>2. r = sequential(0, Length[o], DownloadBuf)
      BY <3>1
    <3>3. 0 \in Nat /\ Length[o] \in Nat /\ 0 <= Length[o] /\ Length[o] <= Length[o]
      BY <1>1
    <3>4. Runs(sequential(0, Length[o], DownloadBuf), Length[o], TRUE)
      BY <1>1, <3>3, PiecesRun
    <3>5. Runs(r, Length[o], FALSE)
      BY <3>2, <3>4 DEF Runs
    <3> QED
      BY <2>1, <3>5
  <2> QED
    BY <2>2, <2>3
<1> QED
  BY <1>2, <1>3

\* What can be drawn.
LEMMA DrawnRuns ==
    ASSUME WorkloadAssumption, NEW s \in Drawable
    PROVE  /\ s.obj \in Objects
           /\ Runs(s.reqs, Length[s.obj], Kind[s.obj] = "video")
           /\ Len(s.reqs) \in Nat /\ Len(s.reqs) > 0
           /\ (MaxBytes > 0 /\ Len(s.reqs) > 1) => BytesOf(s.reqs, Len(s.reqs)) <= MaxBytes
<1>1. PICK o \in listObjects :
        \E r \in ReadsOf(o) : s = [obj |-> o, reqs |-> capBytes(r)]
  BY DEF Drawable
<1>2. PICK r \in ReadsOf(o) : s = [obj |-> o, reqs |-> capBytes(r)]
  BY <1>1
<1>3. s.obj = o /\ s.reqs = capBytes(r) /\ s.reqs # << >>
  BY <1>2 DEF Drawable
<1>4. o \in Objects /\ Length[o] > 0 /\ MaxBytes \in Int
  BY DEF listObjects, WorkloadAssumption
<1>5. Runs(r, Length[o], Kind[o] = "video") /\ (Kind[o] = "video") \in BOOLEAN
  BY <1>4, ReadsRun
<1>6. /\ Runs(capBytes(r), Length[o], Kind[o] = "video")
      /\ (MaxBytes > 0 /\ Len(capBytes(r)) > 1) =>
            BytesOf(capBytes(r), Len(capBytes(r))) <= MaxBytes
  BY <1>4, <1>5, CappedRuns
<1>7. s.reqs \in Seq(Req)
  BY <1>3, <1>6 DEF Runs
<1>8. Len(s.reqs) \in Nat /\ Len(s.reqs) > 0
  BY <1>3, <1>7, EmptySeq, LenProperties
<1> QED
  BY <1>3, <1>4, <1>6, <1>8

WorkDrawn == work \in Seq(Drawable)

\* Only Draw touches the workload.
LEMMA WorkStep ==
    ASSUME WorkDrawn, [RunNext]_(runVars)
    PROVE  WorkDrawn'
<1>1. CASE Draw
  BY <1>1 DEF WorkDrawn, Draw
<1>2. CASE UNCHANGED work
  BY <1>2 DEF WorkDrawn
<1>3. CASE ~Draw
  <2>1. UNCHANGED work
    BY <1>3 DEF RunNext, RunMain, runVars, ListFails, OutFails, BeginPhase,
                PhaseFails, CloseNext, Join, Report, Finish, Hand,
                ReadNext, LeavePhase, RunOver
  <2> QED
    BY <1>2, <2>1
<1> QED
  BY <1>1, <1>3

\* Every session of the workload is one that a student could make.
LEMMA WorkRuns ==
    ASSUME WorkloadAssumption, WorkDrawn
    PROVE  SessionsAreRuns
<1> SUFFICES ASSUME NEW i \in 1 .. Len(work)
             PROVE  LET reqs == work[i].reqs
                        video == Kind[work[i].obj] = "video"
                        end(k) == reqs[k].off + reqs[k].length
                    IN /\ \A k \in 1 .. Len(reqs) :
                            /\ 0 <= reqs[k].off /\ reqs[k].length > 0
                            /\ end(k) <= Length[work[i].obj]
                            /\ reqs[k].seq > 0 =>
                                k > 1 /\ reqs[k - 1].seq = reqs[k].seq - 1 /\ reqs[k].off = end(k - 1)
                       /\ video => \A j, k \in 1 .. Len(reqs) : j < k => end(j) <= reqs[k].off
                       /\ (MaxBytes > 0 /\ Len(reqs) > 1) =>
                            BytesOf(reqs, Len(reqs)) <= MaxBytes
  BY DEF SessionsAreRuns
<1>1. work[i] \in Drawable
  BY ElementOfSeq DEF WorkDrawn
<1>2. /\ Runs(work[i].reqs, Length[work[i].obj], Kind[work[i].obj] = "video")
      /\ (MaxBytes > 0 /\ Len(work[i].reqs) > 1) =>
            BytesOf(work[i].reqs, Len(work[i].reqs)) <= MaxBytes
  BY <1>1, DrawnRuns
<1> QED
  BY <1>2 DEF Runs

\* workload.go:11-13, 35-41: what a session of bench run asks for is what a
\* student at that file would read: bytes that the object has, in runs, a video
\* only ever forward, and no more than the cap.
THEOREM SessionsAlwaysRuns == RunSpec => []SessionsAreRuns
<1> USE WorkloadAssumption
<1>1. RunInit => WorkDrawn
  BY DEF RunInit, WorkDrawn
<1>2. WorkDrawn /\ [RunNext]_(runVars) => WorkDrawn'
  BY WorkStep
<1>3. WorkDrawn => SessionsAreRuns
  BY WorkRuns
<1> QED
  BY <1>1, <1>2, <1>3, PTL DEF RunSpec

----------------------------------------------------------------------------
(* The phases of bench run. *)

Places == Nat \X Nat
Tiers == {"s3", "proxy", ""} \union {a.header : a \in Answers}
SampleOf == [at : Places, tier : Tiers, n : Int, err : BOOLEAN, latency : Nat]

RunTypes ==
    /\ work \in Seq(Drawable)
    /\ stage \in {"draw", "phase", "serve", "join", "report", "ok", "failed"}
    /\ phase \in Nat \ {0} /\ sent \in Nat
    /\ gone \subseteq Students
    /\ reading \in [Students -> Places]
    /\ samples \in Seq(SampleOf)

Underway == stage \in {"serve", "join", "report"}
Handed(w) == reading[w] # None

\* Who has which session: one student each that was handed out, none when main
\* goes on.
TurnsOK ==
    /\ sent <= Len(work)
    /\ \A w \in Students : w \in gone => ~Handed(w)
    /\ \A w \in Students : Handed(w) =>
        /\ reading[w][1] \in 1 .. sent
        /\ reading[w][2] \in 1 .. Len(work[reading[w][1]].reqs)
    /\ \A v, w \in Students : (v # w /\ Handed(v)) => reading[v][1] # reading[w][1]
    /\ stage \notin {"serve", "join"} => gone = Students
    /\ stage \in {"join", "report"} => sent = Len(work)

\* A read behind which its student has gone on.
PassedBy(s, k) == s <= sent /\ \A w \in Students : reading[w][1] = s => k < reading[w][2]

\* The samples are those of the reads passed by, each session's in its order.
SampledOK ==
    Underway =>
        /\ \A i \in 1 .. Len(samples) : samples[i].at \in Reads(work)
        /\ \A s \in 1 .. Len(work) : \A k \in 1 .. Len(work[s].reqs) :
            (\E i \in 1 .. Len(samples) : samples[i].at = <<s, k>>) <=> PassedBy(s, k)
        /\ \A i, j \in 1 .. Len(samples) :
            (i < j /\ samples[i].at[1] = samples[j].at[1]) => samples[i].at[2] < samples[j].at[2]

ReplayInv == RunTypes /\ TurnsOK /\ SampledOK

\* A read of the workload is a session and a place there.
LEMMA ReadsAre ==
    ASSUME NEW sessions, NEW p
    PROVE  p \in Reads(sessions) <=>
             \E s \in 1 .. Len(sessions) : \E k \in 1 .. Len(sessions[s].reqs) : p = <<s, k>>
  BY DEF Reads

\* What a session of the workload looks like.
LEMMA SessionType ==
    ASSUME WorkloadAssumption, RunTypes
    PROVE  /\ Len(work) \in Nat
           /\ \A s \in 1 .. Len(work) :
                /\ Len(work[s].reqs) \in Nat /\ Len(work[s].reqs) > 0
                /\ \A k \in 1 .. Len(work[s].reqs) : work[s].reqs[k].length \in Int
<1>1. Len(work) \in Nat /\ \A s \in 1 .. Len(work) : work[s] \in Drawable
  BY LenProperties, ElementOfSeq DEF RunTypes
<1>2. ASSUME NEW s \in 1 .. Len(work)
      PROVE  /\ Len(work[s].reqs) \in Nat /\ Len(work[s].reqs) > 0
             /\ \A k \in 1 .. Len(work[s].reqs) : work[s].reqs[k].length \in Int
  <2>1. /\ work[s].reqs \in Seq(Req)
        /\ Len(work[s].reqs) \in Nat /\ Len(work[s].reqs) > 0
    BY <1>1, DrawnRuns DEF Runs
  <2>2. \A k \in 1 .. Len(work[s].reqs) : work[s].reqs[k] \in Req
    BY <2>1, ElementOfSeq
  <2> QED
    BY <2>1, <2>2 DEF Req
<1> QED
  BY <1>1, <1>2

\* What a student is at.
LEMMA TurnType ==
    ASSUME WorkloadAssumption, RunTypes, TurnsOK, NEW w \in Students
    PROVE  /\ reading[w] = <<reading[w][1], reading[w][2]>>
           /\ reading[w][1] \in Nat /\ reading[w][2] \in Nat
           /\ Handed(w) => /\ reading[w][1] \in 1 .. Len(work) /\ reading[w][1] <= sent
                           /\ reading[w][2] \in 1 .. Len(work[reading[w][1]].reqs)
           /\ ~Handed(w) => reading[w][1] = 0 /\ reading[w][2] = 0
<1>1. reading[w] \in Places
  BY DEF RunTypes
<1>2. /\ reading[w] = <<reading[w][1], reading[w][2]>>
      /\ reading[w][1] \in Nat /\ reading[w][2] \in Nat
  BY <1>1 DEF Places
<1>3. Len(work) \in Nat /\ sent \in Nat /\ sent <= Len(work)
  BY SessionType DEF RunTypes, TurnsOK
<1>4. Handed(w) => /\ reading[w][1] \in 1 .. Len(work) /\ reading[w][1] <= sent
                   /\ reading[w][2] \in 1 .. Len(work[reading[w][1]].reqs)
  BY <1>2, <1>3 DEF TurnsOK
<1>5. ~Handed(w) => reading[w][1] = 0 /\ reading[w][2] = 0
  BY DEF Handed, None
<1> QED
  BY <1>2, <1>4, <1>5

\* A sample is one.
LEMMA SampleType ==
    ASSUME WorkloadAssumption, ReplayAssumption, RunTypes,
           NEW s \in 1 .. Len(work), NEW k \in 1 .. Len(work[s].reqs), NEW a \in Answers
    PROVE  Sample(s, k, a) \in SampleOf /\ Sample(s, k, a).at = <<s, k>>
<1>1. /\ a.reached \in BOOLEAN /\ a.status \in Nat /\ a.cut \in Nat
      /\ a.latency \in Nat
  <2>1. a \in [reached : BOOLEAN, status : Nat, cut : Nat, header : STRING, latency : Nat]
    BY DEF ReplayAssumption
  <2> QED
    BY <2>1
<1> DEFINE length == work[s].reqs[k].length
           r == IF Phases[phase] = "direct" THEN S3Read(length, a) ELSE ProxyRead(length, a)
<1>2. length \in Int /\ s \in Nat /\ k \in Nat
  <2>1. Len(work) \in Nat /\ Len(work[s].reqs) \in Nat
    BY SessionType
  <2>2. s \in Nat /\ k \in Nat
    BY <2>1
  <2>3. length \in Int
    BY SessionType
  <2> QED
    BY <2>2, <2>3
<1> HIDE DEF length
<1>3. Came(length, a) \in Int
  BY <1>1, <1>2 DEF Came
<1>4. "s3" \in Tiers /\ "" \in Tiers /\ "proxy" \in Tiers /\ a.header \in Tiers
  BY DEF Tiers
<1>5. /\ S3Read(length, a).tier \in Tiers /\ S3Read(length, a).n \in Int
      /\ S3Read(length, a).err \in BOOLEAN
  <2> DEFINE failed == ~(a.reached /\ a.status = 206)
             tier == "s3"
             n == IF a.reached /\ a.status = 206 THEN Came(length, a) ELSE 0
  <2>1. S3Read(length, a) = [tier |-> tier, n |-> n, err |-> failed]
    BY DEF S3Read
  <2>2. failed \in BOOLEAN
    BY Zenon
  <2>3. n \in Int
    BY <1>3
  <2>4. tier \in Tiers
    BY <1>4
  <2> HIDE DEF failed, tier, n
  <2> QED
    BY <2>1, <2>2, <2>3, <2>4
<1>6. /\ ProxyRead(length, a).tier \in Tiers /\ ProxyRead(length, a).n \in Int
      /\ ProxyRead(length, a).err \in BOOLEAN
  <2> DEFINE failed == ~a.reached \/ a.status # 206
             tier == IF ~a.reached THEN "" ELSE IF a.header = "" THEN "proxy" ELSE a.header
  <2>1. ProxyRead(length, a) = [tier |-> tier, n |-> Came(length, a), err |-> failed]
    BY DEF ProxyRead
  <2>2. failed \in BOOLEAN
    BY Zenon
  <2>3. tier \in Tiers
    BY <1>1, <1>4, Zenon
  <2> HIDE DEF failed, tier
  <2> QED
    BY <1>3, <2>1, <2>2, <2>3
<1>7. r.tier \in Tiers /\ r.n \in Int /\ r.err \in BOOLEAN
  BY <1>5, <1>6
<1> HIDE DEF r
<1>8. Sample(s, k, a) =
        [at |-> <<s, k>>, tier |-> r.tier, n |-> r.n,
         err |-> r.err \/ r.n # length, latency |-> a.latency]
  BY DEF Sample, r, length
<1>9. <<s, k>> \in Places /\ (r.err \/ r.n # length) \in BOOLEAN
  BY <1>2 DEF Places
<1> QED
  BY <1>1, <1>7, <1>8, <1>9 DEF SampleOf

\* What EveryReadSampledOnce asks for.
LEMMA ReplayGood ==
    ASSUME WorkloadAssumption, ReplayAssumption, ReplayInv
    PROVE  EveryReadSampledOnce
<1>1. RunTypes /\ TurnsOK /\ SampledOK
  BY DEF ReplayInv
<1>2. ASSUME stage = "report"
      PROVE  /\ {samples[i].at : i \in 1 .. Len(samples)} = Reads(work)
             /\ \A i, j \in 1 .. Len(samples) :
                  (i < j /\ samples[i].at[1] = samples[j].at[1]) =>
                    samples[i].at[2] < samples[j].at[2]
  <2>1. \A w \in Students : ~Handed(w)
    BY <1>1, <1>2 DEF TurnsOK
  <2>2. \A s \in 1 .. Len(work) : \A k \in 1 .. Len(work[s].reqs) : PassedBy(s, k)
    <3>1. \A w \in Students : reading[w][1] = 0
      BY <1>1, <2>1, TurnType
    <3>2. sent = Len(work)
      BY <1>1, <1>2 DEF TurnsOK
    <3> QED
      BY <3>1, <3>2, <1>1, SessionType DEF PassedBy
  <2>3. Underway
    BY <1>2 DEF Underway
  <2>4. ASSUME NEW p \in Reads(work) PROVE \E i \in 1 .. Len(samples) : p = samples[i].at
    <3>1. PICK s \in 1 .. Len(work) : \E k \in 1 .. Len(work[s].reqs) : p = <<s, k>>
      BY <2>4, ReadsAre
    <3>2. PICK k \in 1 .. Len(work[s].reqs) : p = <<s, k>>
      BY <3>1
    <3>3. \E i \in 1 .. Len(samples) : samples[i].at = <<s, k>>
      BY <1>1, <2>2, <2>3 DEF SampledOK
    <3> QED
      BY <3>2, <3>3
  <2>5. \A i \in 1 .. Len(samples) : samples[i].at \in Reads(work)
    BY <1>1, <2>3 DEF SampledOK
  <2>6. {samples[i].at : i \in 1 .. Len(samples)} = Reads(work)
    BY <2>4, <2>5
  <2> QED
    BY <1>1, <2>3, <2>6 DEF SampledOK
<1> QED
  BY <1>2 DEF EveryReadSampledOnce, All

\* Main goes on, and nothing else changes.
LEMMA MainMoves ==
    ASSUME ReplayInv, UNCHANGED <<work, phase, sent, gone, reading, samples>>,
           stage' \in {"draw", "phase", "serve", "join", "report", "ok", "failed"},
           stage' \notin {"serve", "join"} => gone = Students,
           stage' \in {"join", "report"} => sent = Len(work),
           Underway' => Underway
    PROVE  ReplayInv'
<1>1. RunTypes'
  BY DEF ReplayInv, RunTypes
<1>2. TurnsOK'
  BY DEF ReplayInv, TurnsOK, Handed
<1>3. SampledOK'
  <2>1. \A s, k : PassedBy(s, k)' <=> PassedBy(s, k)
    BY DEF PassedBy
  <2> QED
    BY <2>1 DEF ReplayInv, SampledOK
<1> QED
  BY <1>1, <1>2, <1>3 DEF ReplayInv

\* Before and after a phase, and in the middle of drawing, no one has a session.
LEMMA NoneHanded ==
    ASSUME TurnsOK, stage \notin {"serve", "join"}
    PROVE  gone = Students /\ \A w \in Students : ~Handed(w)
  BY DEF TurnsOK

\* The steps of main that change only where it is.
LEMMA QuietStep ==
    ASSUME ReplayInv,
           ListFails \/ OutFails \/ PhaseFails \/ CloseNext \/ Join \/ Finish
    PROVE  ReplayInv'
<1>1. CASE ListFails
  BY <1>1, MainMoves, NoneHanded DEF ListFails, ReplayInv, Underway
<1>2. CASE OutFails
  BY <1>2, MainMoves, NoneHanded DEF OutFails, ReplayInv, Underway
<1>3. CASE PhaseFails
  BY <1>3, MainMoves, NoneHanded DEF PhaseFails, ReplayInv, Underway
<1>4. CASE CloseNext
  BY <1>4, MainMoves DEF CloseNext, ReplayInv, Underway
<1>5. CASE Join
  BY <1>5, MainMoves DEF Join, ReplayInv, Underway, TurnsOK
<1>6. CASE Finish
  <2>1. /\ UNCHANGED <<work, phase, sent, gone, reading, samples>>
        /\ stage = "phase" /\ stage' \in {"ok", "failed"} /\ phase > Len(Phases)
    BY <1>6 DEF Finish
  <2>2. gone = Students
    BY <2>1, NoneHanded DEF ReplayInv
  <2>3. /\ stage' \in {"draw", "phase", "serve", "join", "report", "ok", "failed"}
        /\ ~Underway' /\ stage' # "draw" /\ stage' \notin {"join", "report"}
    BY <2>1 DEF Underway
  <2> QED
    BY <2>1, <2>2, <2>3, MainMoves
<1> QED
  BY <1>1, <1>2, <1>3, <1>4, <1>5, <1>6

\* A session is drawn before any phase.
LEMMA DrawStep ==
    ASSUME ReplayInv, Draw
    PROVE  ReplayInv'
<1>1. PICK d \in Drawable :
        /\ stage = "draw" /\ work' = Append(work, d) /\ stage' \in {"draw", "phase"}
        /\ UNCHANGED <<phase, sent, gone, reading, samples>>
  BY DEF Draw
<1>2. RunTypes /\ TurnsOK
  BY DEF ReplayInv
<1>3. /\ work' \in Seq(Drawable) /\ Len(work') = Len(work) + 1 /\ Len(work) \in Nat
      /\ ~Underway' /\ gone = Students /\ \A w \in Students : ~Handed(w)
  <2>1. work \in Seq(Drawable)
    BY <1>2 DEF RunTypes
  <2>2. work' \in Seq(Drawable) /\ Len(work') = Len(work) + 1 /\ Len(work) \in Nat
    BY <1>1, <2>1, AppendProperties, LenProperties
  <2>3. ~Underway'
    BY <1>1 DEF Underway
  <2>4. gone = Students /\ \A w \in Students : ~Handed(w)
    BY <1>1, <1>2, NoneHanded
  <2> QED
    BY <2>2, <2>3, <2>4
<1>4. RunTypes'
  BY <1>1, <1>2, <1>3 DEF RunTypes
<1>5. TurnsOK'
  <2>1. sent' <= Len(work')
    BY <1>1, <1>2, <1>3 DEF TurnsOK, RunTypes
  <2>2. \A w \in Students : ~Handed(w)'
    BY <1>1, <1>3 DEF Handed
  <2> QED
    BY <1>1, <1>3, <2>1, <2>2 DEF TurnsOK
<1>7. SampledOK'
  BY <1>3 DEF SampledOK
<1> QED
  BY <1>4, <1>5, <1>7 DEF ReplayInv

\* A phase begins with no samples and nobody at a session.
LEMMA BeginStep ==
    ASSUME WorkloadAssumption, ReplayInv, BeginPhase
    PROVE  ReplayInv'
<1>1. /\ stage = "phase" /\ phase <= Len(Phases) /\ stage' = "serve"
      /\ sent' = 0 /\ samples' = << >> /\ gone' = {}
      /\ UNCHANGED <<work, phase, reading>>
  BY DEF BeginPhase
<1>2. RunTypes /\ TurnsOK
  BY DEF ReplayInv
<1>3. RunTypes'
  BY <1>1, <1>2 DEF RunTypes
<1>4. TurnsOK'
  <2>1. \A w \in Students : ~Handed(w)'
    BY <1>1, <1>2, NoneHanded DEF Handed
  <2>2. sent' <= Len(work')
    BY <1>1, <1>2, SessionType
  <2> QED
    BY <1>1, <2>1, <2>2 DEF TurnsOK
<1>6. SampledOK'
  <2>1. Len(samples') = 0 /\ 1 .. Len(samples') = {}
    BY <1>1
  <2>2. ASSUME NEW s \in 1 .. Len(work), NEW k PROVE ~PassedBy(s, k)'
    BY <1>1, <1>2, SessionType DEF PassedBy
  <2> QED
    BY <1>1, <2>1, <2>2 DEF SampledOK
<1> QED
  BY <1>3, <1>4, <1>6 DEF ReplayInv

\* The summary ends a phase and changes nothing else.
LEMMA ReportStep ==
    ASSUME ReplayInv, Report
    PROVE  ReplayInv'
<1>1. /\ stage = "report" /\ stage' = "phase" /\ phase' = phase + 1
      /\ UNCHANGED <<work, sent, gone, reading, samples>>
  BY DEF Report
<1>2. RunTypes /\ TurnsOK
  BY DEF ReplayInv
<1>3. RunTypes'
  BY <1>1, <1>2 DEF RunTypes
<1>4. TurnsOK'
  BY <1>1, <1>2, NoneHanded DEF TurnsOK, Handed
<1>5. SampledOK'
  BY <1>1 DEF SampledOK, Underway
<1> QED
  BY <1>3, <1>4, <1>5 DEF ReplayInv

\* A student leaves with no session.
LEMMA LastStep ==
    ASSUME ReplayInv, NEW w \in Students, LeavePhase(w)
    PROVE  ReplayInv'
<1>1. /\ reading[w] = None /\ stage = "join" /\ gone' = gone \union {w}
      /\ UNCHANGED <<work, stage, phase, sent, reading, samples>>
  BY DEF LeavePhase, Receiving
<1>2. RunTypes /\ TurnsOK /\ SampledOK
  BY DEF ReplayInv
<1>3. RunTypes'
  BY <1>1, <1>2 DEF RunTypes
<1>4. TurnsOK'
  BY <1>1, <1>2 DEF TurnsOK, Handed
<1>6. SampledOK'
  <2>1. \A s, k : PassedBy(s, k)' <=> PassedBy(s, k)
    BY <1>1 DEF PassedBy
  <2> QED
    BY <1>1, <1>2, <2>1 DEF SampledOK, Underway
<1> QED
  BY <1>3, <1>4, <1>6 DEF ReplayInv

\* The session that is handed out is nobody else's, and nothing of it was read.
LEMMA HandStep ==
    ASSUME WorkloadAssumption, ReplayInv, NEW w \in Students, Hand(w)
    PROVE  ReplayInv'
<1>1. /\ stage = "serve" /\ sent < Len(work) /\ w \notin gone /\ ~Handed(w)
      /\ sent' = sent + 1
      /\ reading' = [reading EXCEPT ![w] = <<sent + 1, 1>>]
      /\ UNCHANGED <<work, stage, phase, gone, samples>>
  BY DEF Hand, Receiving, Handed
<1>2. RunTypes /\ TurnsOK /\ SampledOK
  BY DEF ReplayInv
<1>3. /\ Len(work) \in Nat /\ sent \in Nat
      /\ \A s \in 1 .. Len(work) : Len(work[s].reqs) \in Nat /\ Len(work[s].reqs) > 0
  BY <1>2, SessionType DEF RunTypes
<1>4. /\ reading \in [Students -> Places] /\ reading' \in [Students -> Places]
      /\ reading'[w] = <<sent + 1, 1>>
      /\ reading'[w][1] = sent + 1 /\ reading'[w][2] = 1
      /\ \A v \in Students : v # w => reading'[v] = reading[v]
  BY <1>1, <1>2, <1>3 DEF RunTypes, Places
<1>5. \A v \in Students : /\ reading[v][1] \in Nat /\ reading[v][2] \in Nat
                          /\ Handed(v) => reading[v][1] <= sent
                          /\ ~Handed(v) => reading[v][1] = 0
  BY <1>2, TurnType
<1>6. RunTypes'
  BY <1>1, <1>2, <1>3, <1>4 DEF RunTypes
<1>7. TurnsOK'
  <2>1. ASSUME NEW v \in Students, Handed(v)'
        PROVE  /\ v \notin gone
               /\ reading'[v][1] \in 1 .. sent + 1
               /\ reading'[v][2] \in 1 .. Len(work[reading'[v][1]].reqs)
    <3>1. CASE v = w
      <4>1. sent + 1 \in 1 .. Len(work)
        BY <1>1, <1>3
      <4> QED
        BY <1>1, <1>3, <1>4, <3>1, <4>1
    <3>2. CASE v # w
      <4>1. reading'[v] = reading[v] /\ Handed(v)
        BY <1>4, <2>1, <3>2 DEF Handed
      <4>2. /\ v \notin gone /\ reading[v][1] \in 1 .. sent
            /\ reading[v][2] \in 1 .. Len(work[reading[v][1]].reqs)
        BY <1>2, <4>1 DEF TurnsOK
      <4> QED
        BY <1>3, <4>1, <4>2
    <3> QED
      BY <3>1, <3>2
  <2>2. ASSUME NEW v \in Students, NEW u \in Students, v # u, Handed(v)'
        PROVE  reading'[v][1] # reading'[u][1]
    <3>1. CASE v = w
      BY <1>3, <1>4, <1>5, <2>2, <3>1
    <3>2. CASE u = w
      <4>1. reading'[v] = reading[v] /\ reading[v][1] <= sent
        BY <1>3, <1>4, <1>5, <2>2, <3>2
      <4> QED
        BY <1>3, <1>4, <1>5, <3>2, <4>1
    <3>3. CASE v # w /\ u # w
      <4>1. reading'[v] = reading[v] /\ reading'[u] = reading[u] /\ Handed(v)
        BY <1>4, <2>2, <3>3 DEF Handed
      <4> QED
        BY <1>2, <2>2, <4>1 DEF TurnsOK
    <3> QED
      BY <3>1, <3>2, <3>3
  <2>3. sent' <= Len(work') /\ stage' \notin {"join", "report"} /\ stage' \in {"serve", "join"}
    BY <1>1, <1>3
  <2> QED
    BY <1>1, <2>1, <2>2, <2>3 DEF TurnsOK
<1>9. SampledOK'
  <2>1. ASSUME NEW s \in 1 .. Len(work), NEW k \in 1 .. Len(work[s].reqs)
        PROVE  PassedBy(s, k)' <=> PassedBy(s, k)
    <3>0. s \in Nat /\ s >= 1 /\ k \in Nat /\ k >= 1
      BY <1>3
    <3>1. ASSUME PassedBy(s, k) PROVE PassedBy(s, k)'
      <4>1. s <= sent + 1 /\ s # sent + 1
        BY <1>3, <3>0, <3>1 DEF PassedBy
      <4>2. ASSUME NEW v \in Students, reading'[v][1] = s PROVE k < reading'[v][2]
        BY <1>4, <3>1, <4>1, <4>2 DEF PassedBy
      <4> QED
        BY <1>1, <4>1, <4>2 DEF PassedBy
    <3>2. ASSUME PassedBy(s, k)' PROVE PassedBy(s, k)
      <4>1. s <= sent + 1 /\ (reading'[w][1] = s => k < reading'[w][2])
        BY <1>1, <3>2 DEF PassedBy
      <4>2. s <= sent
        BY <1>3, <1>4, <3>0, <4>1
      <4>3. ASSUME NEW v \in Students, reading[v][1] = s PROVE k < reading[v][2]
        <5>1. v # w
          BY <1>1, <1>5, <3>0, <4>3
        <5> QED
          BY <1>4, <3>2, <4>3, <5>1 DEF PassedBy
      <4> QED
        BY <4>2, <4>3 DEF PassedBy
    <3> QED
      BY <3>1, <3>2
  <2>2. Underway
    BY <1>1 DEF Underway
  <2> QED
    BY <1>1, <1>2, <2>1, <2>2 DEF SampledOK
<1> QED
  BY <1>6, <1>7, <1>9 DEF ReplayInv

\* A read adds the sample of the place where its student was, which nobody else
\* is at and the student passes by.
LEMMA SampleStep ==
    ASSUME WorkloadAssumption, ReplayAssumption, ReplayInv, NEW w \in Students, ReadNext(w)
    PROVE  ReplayInv'
<1> DEFINE s0 == reading[w][1]
           k0 == reading[w][2]
           n0 == Len(work[s0].reqs)
           next0 == IF k0 < n0 THEN <<s0, k0 + 1>> ELSE None
           n == Len(samples)
<1>1. /\ Handed(w)
      /\ \E a \in Answers : samples' = Append(samples, Sample(s0, k0, a))
      /\ reading' = [reading EXCEPT ![w] = next0]
      /\ UNCHANGED <<work, stage, phase, sent, gone>>
  BY DEF ReadNext, Following, Handed
<1>2. RunTypes /\ TurnsOK /\ SampledOK
  BY DEF ReplayInv
<1>3. /\ Len(work) \in Nat /\ sent \in Nat
      /\ s0 \in 1 .. Len(work) /\ s0 <= sent /\ k0 \in 1 .. n0 /\ n0 \in Nat
      /\ reading[w] = <<s0, k0>>
  BY <1>1, <1>2, SessionType, TurnType DEF RunTypes
<1>4. w \notin gone /\ stage \in {"serve", "join"} /\ Underway
  BY <1>1, <1>2 DEF TurnsOK, Underway
<1>5. PICK x \in SampleOf : samples' = Append(samples, x) /\ x.at = <<s0, k0>>
  BY <1>1, <1>2, <1>3, SampleType
<1>6. /\ samples' \in Seq(SampleOf) /\ n \in Nat /\ Len(samples') = n + 1
      /\ \A i \in 1 .. n : samples'[i] = samples[i]
      /\ samples'[n + 1] = x
  <2>1. samples \in Seq(SampleOf)
    BY <1>2 DEF RunTypes
  <2> QED
    BY <1>5, <2>1, AppendProperties, LenProperties
<1>7. next0 \in Places /\ reading \in [Students -> Places]
  BY <1>2, <1>3 DEF Places, None, RunTypes
<1>8. /\ reading' \in [Students -> Places]
      /\ reading'[w] = next0
      /\ \A v \in Students : v # w => reading'[v] = reading[v]
  BY <1>1, <1>7
<1>9. /\ k0 < n0 => reading'[w][1] = s0 /\ reading'[w][2] = k0 + 1
      /\ ~(k0 < n0) => reading'[w] = None /\ reading'[w][1] = 0
  BY <1>8 DEF None
<1>10. \A v \in Students : v # w => reading[v][1] # s0
  BY <1>1, <1>2 DEF TurnsOK
<1> HIDE DEF s0, k0, n0, next0, n
<1>11. RunTypes'
  BY <1>1, <1>2, <1>6, <1>8 DEF RunTypes
<1>12. TurnsOK'
  <2>1. ASSUME NEW v \in Students, Handed(v)'
        PROVE  /\ v \notin gone
               /\ reading'[v][1] \in 1 .. sent
               /\ reading'[v][2] \in 1 .. Len(work[reading'[v][1]].reqs)
    <3>1. CASE v = w
      <4>1. k0 < n0
        BY <1>9, <2>1, <3>1 DEF Handed
      <4>2. s0 \in 1 .. sent /\ k0 + 1 \in 1 .. n0
        BY <1>3, <4>1
      <4> QED
        BY <1>4, <1>9, <3>1, <4>1, <4>2 DEF n0
    <3>2. CASE v # w
      <4>1. reading'[v] = reading[v] /\ Handed(v)
        BY <1>8, <2>1, <3>2 DEF Handed
      <4> QED
        BY <1>2, <4>1 DEF TurnsOK
    <3> QED
      BY <3>1, <3>2
  <2>2. ASSUME NEW v \in Students, NEW u \in Students, v # u, Handed(v)'
        PROVE  reading'[v][1] # reading'[u][1]
    <3>1. CASE v = w
      <4>1. k0 < n0
        BY <1>9, <2>2, <3>1 DEF Handed
      <4> QED
        BY <1>8, <1>9, <1>10, <2>2, <3>1, <4>1
    <3>2. CASE u = w
      <4>1. reading'[v] = reading[v] /\ reading[v][1] # s0 /\ Handed(v)
        BY <1>8, <1>10, <2>2, <3>2 DEF Handed
      <4>2. reading[v][1] # 0
        BY <1>2, <1>3, <4>1 DEF TurnsOK
      <4> QED
        BY <1>9, <3>2, <4>1, <4>2
    <3>3. CASE v # w /\ u # w
      <4>1. reading'[v] = reading[v] /\ reading'[u] = reading[u] /\ Handed(v)
        BY <1>8, <2>2, <3>3 DEF Handed
      <4> QED
        BY <1>2, <2>2, <4>1 DEF TurnsOK
    <3> QED
      BY <3>1, <3>2, <3>3
  <2>3. /\ sent' <= Len(work') /\ stage' \in {"serve", "join"}
        /\ stage' \in {"join", "report"} => sent' = Len(work')
    BY <1>1, <1>2, <1>4 DEF TurnsOK
  <2> QED
    BY <1>1, <2>1, <2>2, <2>3 DEF TurnsOK
<1>14. ASSUME NEW s \in 1 .. Len(work), NEW k \in 1 .. Len(work[s].reqs)
       PROVE  PassedBy(s, k)' <=> PassedBy(s, k) \/ (s = s0 /\ k = k0)
  <2>1. s \in Nat /\ s >= 1 /\ k \in Nat
    <3>1. Len(work[s].reqs) \in Nat
      BY <1>2, SessionType
    <3> QED
      BY <1>3, <3>1
  <2>2. CASE s # s0
    <3>1. reading'[w][1] # s
      BY <1>9, <2>1, <2>2
    <3>2. reading[w][1] # s
      BY <2>2 DEF s0
    <3>3. \A v \in Students : reading'[v][1] = s <=> reading[v][1] = s
      BY <1>8, <3>1, <3>2
    <3>4. \A v \in Students : reading[v][1] = s => reading'[v] = reading[v]
      BY <1>8, <3>2
    <3> QED
      BY <1>1, <2>2, <3>3, <3>4 DEF PassedBy
  <2>3. CASE s = s0
    <3>1. k \in 1 .. n0
      BY <2>3 DEF n0
    <3>2. PassedBy(s, k) <=> k < k0
      <4>1. \A v \in Students : reading[v][1] = s => v = w
        BY <1>10, <2>3
      <4>2. reading[w][1] = s /\ reading[w][2] = k0
        BY <2>3 DEF s0, k0
      <4> QED
        BY <1>3, <2>3, <4>1, <4>2 DEF PassedBy
    <3>3. PassedBy(s, k)' <=> (k0 < n0 => k < k0 + 1)
      <4>1. \A v \in Students : reading'[v][1] = s => v = w
        BY <1>8, <1>10, <2>3
      <4>2. reading'[w][1] = s <=> k0 < n0
        BY <1>9, <2>1, <2>3
      <4>3. k0 < n0 => reading'[w][2] = k0 + 1
        BY <1>9
      <4>4. s <= sent'
        BY <1>1, <1>3, <2>3
      <4> QED
        BY <4>1, <4>2, <4>3, <4>4 DEF PassedBy
    <3> QED
      BY <1>3, <2>3, <3>1, <3>2, <3>3
  <2> QED
    BY <2>2, <2>3
<1>15. <<s0, k0>> \in Reads(work)
  BY <1>3, ReadsAre DEF n0
<1>16. \A i \in 1 .. n : samples[i].at \in Reads(work)
  BY <1>2, <1>4 DEF SampledOK, n
<1>17. \A i \in 1 .. Len(samples') : i \in 1 .. n \/ (i = n + 1 /\ samples'[i].at = <<s0, k0>>)
  BY <1>5, <1>6
<1>18. ASSUME NEW s \in 1 .. Len(work), NEW k \in 1 .. Len(work[s].reqs)
       PROVE  (\E i \in 1 .. Len(samples') : samples'[i].at = <<s, k>>) <=> PassedBy(s, k)'
  <2>1. (\E i \in 1 .. n : samples[i].at = <<s, k>>) <=> PassedBy(s, k)
    BY <1>2, <1>4 DEF SampledOK, n
  <2>2. (\E i \in 1 .. Len(samples') : samples'[i].at = <<s, k>>) <=>
          (\E i \in 1 .. n : samples[i].at = <<s, k>>) \/ <<s0, k0>> = <<s, k>>
    <3>1. n + 1 \in 1 .. Len(samples') /\ samples'[n + 1].at = <<s0, k0>>
          /\ \A i \in 1 .. n : i \in 1 .. Len(samples')
      BY <1>5, <1>6
    <3> QED
      BY <1>6, <1>17, <3>1
  <2>3. <<s0, k0>> = <<s, k>> <=> s = s0 /\ k = k0
    OBVIOUS
  <2> QED
    BY <1>14, <2>1, <2>2, <2>3
<1>19. ASSUME NEW i \in 1 .. Len(samples'), NEW j \in 1 .. Len(samples'), i < j,
              samples'[i].at[1] = samples'[j].at[1]
       PROVE  samples'[i].at[2] < samples'[j].at[2]
  <2>1. i \in 1 .. n /\ samples'[i] = samples[i]
    BY <1>6, <1>19
  <2>2. CASE j \in 1 .. n
    BY <1>2, <1>4, <1>6, <1>19, <2>1, <2>2 DEF SampledOK, n
  <2>3. CASE j = n + 1
    <3>1. samples'[j].at = <<s0, k0>> /\ samples[i].at[1] = s0
      BY <1>5, <1>6, <1>19, <2>1, <2>3
    <3>2. samples[i].at \in Reads(work)
      BY <1>16, <2>1
    <3>3. PICK s \in 1 .. Len(work) : \E k \in 1 .. Len(work[s].reqs) : samples[i].at = <<s, k>>
      <4> DEFINE p == samples[i].at
      <4>1. p \in Reads(work)
        BY <3>2
      <4> HIDE DEF p
      <4>2. \E s \in 1 .. Len(work) : \E k \in 1 .. Len(work[s].reqs) : p = <<s, k>>
        BY <4>1, ReadsAre
      <4> QED
        BY <4>2 DEF p
    <3>4. PICK k \in 1 .. Len(work[s].reqs) : samples[i].at = <<s, k>>
      BY <3>3
    <3>5. s = s0 /\ samples[i].at[2] = k
      BY <3>1, <3>4
    <3>6. PassedBy(s, k)
      BY <1>2, <1>4, <2>1, <3>4 DEF SampledOK, n
    <3>7. k < k0
      BY <3>5, <3>6 DEF PassedBy, s0, k0
    <3> QED
      BY <2>1, <3>1, <3>5, <3>7
  <2> QED
    BY <1>17, <2>2, <2>3
<1>20. SampledOK'
  <2>1. \A i \in 1 .. Len(samples') : samples'[i].at \in Reads(work)
    BY <1>6, <1>15, <1>16, <1>17
  <2> QED
    BY <1>1, <1>18, <1>19, <2>1 DEF SampledOK
<1> QED
  BY <1>11, <1>12, <1>20 DEF ReplayInv

\* It holds before the first session is drawn.
LEMMA ReplayInit ==
    ASSUME WorkloadAssumption, ReplayAssumption, RunInit
    PROVE  ReplayInv
<1>1. /\ work = << >> /\ stage = "draw" /\ phase = 1 /\ sent = 0 /\ gone = Students
      /\ reading = [v \in Students |-> None] /\ samples = << >>
  BY DEF RunInit
<1>2. RunTypes
  BY <1>1 DEF RunTypes, Places, None
<1>3. TurnsOK
  BY <1>1 DEF TurnsOK, Handed
<1>5. SampledOK
  BY <1>1 DEF SampledOK, Underway
<1> QED
  BY <1>2, <1>3, <1>5 DEF ReplayInv

\* Every step of main and of the students keeps it.
LEMMA ReplayStep ==
    ASSUME WorkloadAssumption, ReplayAssumption, ReplayInv, [RunNext]_(runVars)
    PROVE  ReplayInv'
<1>1. CASE RunMain
  <2>1. \/ ListFails \/ OutFails \/ PhaseFails \/ CloseNext \/ Join \/ Finish
        \/ Draw \/ BeginPhase \/ Report
    BY <1>1 DEF RunMain
  <2> QED
    BY <2>1, QuietStep, DrawStep, BeginStep, ReportStep
<1>2. ASSUME NEW w \in Students, Hand(w) \/ ReadNext(w) \/ LeavePhase(w)
      PROVE  ReplayInv'
  BY <1>2, HandStep, SampleStep, LastStep
<1>3. CASE UNCHANGED runVars
  BY <1>3, MainMoves, NoneHanded DEF runVars, ReplayInv, RunTypes, TurnsOK, SampledOK, PassedBy, Handed, Underway
<1> QED
  BY <1>1, <1>2, <1>3 DEF RunNext, RunOver

\* run.go:58: in every phase of bench run each read of the workload is made and
\* sampled once, whichever student makes it and whether or not it fails.
THEOREM EveryReadAlwaysSampledOnce == RunSpec => []EveryReadSampledOnce
<1> USE WorkloadAssumption, ReplayAssumption
<1>1. RunInit => ReplayInv
  BY ReplayInit
<1>2. ReplayInv /\ [RunNext]_(runVars) => ReplayInv'
  BY ReplayStep
<1>3. ReplayInv => EveryReadSampledOnce
  BY ReplayGood
<1> QED
  BY <1>1, <1>2, <1>3, PTL DEF RunSpec

----------------------------------------------------------------------------
(* The summary of a phase. *)

\* The sizes of groups that do not overlap add up to the size of all.
LEMMA GroupsAddUp ==
    ASSUME NEW T, IsFiniteSet(T), NEW K, NEW G \in [K -> SUBSET T],
           \A t \in T : \E k \in K : t \in G[k],
           \A j, k \in K : \A t \in T : (t \in G[j] /\ t \in G[k]) => j = k
    PROVE  Total([k \in K |-> Cardinality(G[k])]) = Cardinality(T)
<1> DEFINE f == [k \in K |-> Cardinality(G[k])]
           Pairs == UNION {{k} \X (1 .. f[k]) : k \in K}
           place == [k \in K |-> CHOOSE h : h \in Bijection(1 .. f[k], G[k])]
           into == [p \in Pairs |-> place[p[1]][p[2]]]
<1>1. ASSUME NEW k \in K
      PROVE  f[k] \in Nat /\ place[k] \in Bijection(1 .. f[k], G[k])
  <2>1. G[k] \in SUBSET T
    OBVIOUS
  <2>2. IsFiniteSet(G[k])
    BY <2>1, FS_Subset
  <2>3. f[k] \in Nat /\ ExistsBijection(1 .. f[k], G[k])
    BY <2>2, FS_CardinalityType
  <2>4. \E h : h \in Bijection(1 .. f[k], G[k])
    BY <2>3, Fun_ExistsBij
  <2> QED
    BY <2>3, <2>4
<1>2. \A p : p \in Pairs <=> \E k \in K : \E m \in 1 .. f[k] : p = <<k, m>>
  OBVIOUS
<1>3. \A k \in K : \A m \in 1 .. f[k] : <<k, m>> \in Pairs /\ into[<<k, m>>] = place[k][m]
  BY <1>2
<1>4. ASSUME NEW k \in K
      PROVE  /\ \A m \in 1 .. f[k] : place[k][m] \in G[k]
             /\ \A m, l \in 1 .. f[k] : place[k][m] = place[k][l] => m = l
             /\ \A t \in G[k] : \E m \in 1 .. f[k] : place[k][m] = t
  <2>1. place[k] \in Bijection(1 .. f[k], G[k])
    BY <1>1
  <2> DEFINE h == place[k]
             d == 1 .. f[k]
             g == G[k]
  <2>2. h \in Bijection(d, g)
    BY <2>1
  <2> HIDE DEF h, d, g
  <2>3. /\ h \in [d -> g]
        /\ \A m, l \in d : h[m] = h[l] => m = l
        /\ \A t \in g : \E m \in d : h[m] = t
    BY <2>2, Fun_BijectionProperties
  <2>4. \A m \in d : h[m] \in g
    BY <2>3
  <2> QED
    BY <2>3, <2>4 DEF h, d, g
<1>5. DOMAIN into = Pairs /\ into = [p \in Pairs |-> into[p]]
  OBVIOUS
<1>6. Total(f) = Cardinality(Pairs)
  <2>1. DOMAIN f = K
    OBVIOUS
  <2> HIDE DEF f
  <2> QED
    BY <2>1, Zenon DEF Total
<1> HIDE DEF into, place, Pairs, f
<1>7. into \in [Pairs -> T]
  <2>1. ASSUME NEW p \in Pairs PROVE into[p] \in T
    BY <1>2, <1>3, <1>4
  <2> QED
    BY <1>5, <2>1
<1>8. ASSUME NEW p \in Pairs, NEW q \in Pairs, into[p] = into[q] PROVE p = q
  <2>1. PICK k \in K : \E m \in 1 .. f[k] : p = <<k, m>>
    BY <1>2
  <2>2. PICK m \in 1 .. f[k] : p = <<k, m>>
    BY <2>1
  <2>3. PICK j \in K : \E l \in 1 .. f[j] : q = <<j, l>>
    BY <1>2
  <2>4. PICK l \in 1 .. f[j] : q = <<j, l>>
    BY <2>3
  <2>5. place[k][m] = place[j][l] /\ place[k][m] \in G[k] /\ place[j][l] \in G[j]
    BY <1>3, <1>4, <1>8, <2>2, <2>4
  <2>6. place[k][m] \in T
    BY <2>5
  <2>7. k = j
    BY <2>5, <2>6
  <2>8. m = l
    BY <1>4, <2>5, <2>7
  <2> QED
    BY <2>2, <2>4, <2>7, <2>8
<1>9. ASSUME NEW t \in T PROVE \E p \in Pairs : into[p] = t
  <2>1. PICK k \in K : t \in G[k]
    OBVIOUS
  <2>2. PICK m \in 1 .. f[k] : place[k][m] = t
    BY <1>4, <2>1
  <2>3. <<k, m>> \in Pairs /\ into[<<k, m>>] = t
    BY <1>3, <2>2
  <2> QED
    BY <2>3
<1>10. into \in Bijection(Pairs, T)
  BY <1>7, <1>8, <1>9, Fun_IsBij
<1>11. ExistsBijection(T, Pairs)
  BY <1>10, Fun_BijInverse, Fun_ExistsBij
<1>12. Cardinality(Pairs) = Cardinality(T)
  BY <1>11, FS_Bijection
<1> QED
  BY <1>6, <1>12 DEF f

\* A finite set of numbers that is not empty has a largest one.
LEMMA LargestNumber ==
    ASSUME NEW S \in SUBSET Nat, IsFiniteSet(S), S # {}
    PROVE  \E m \in S : \A x \in S : x <= m
<1> DEFINE Above(i) == {j \in S : j > i}
           Counts == {Cardinality(Above(i)) : i \in S}
<1>1. \A i : IsFiniteSet(Above(i)) /\ Cardinality(Above(i)) \in Nat
  BY FS_Subset, FS_CardinalityType
<1>2. Counts \in SUBSET Nat /\ Counts # {}
  BY <1>1
<1>3. PICK m \in S : \A i \in S : Cardinality(Above(m)) <= Cardinality(Above(i))
  <2>1. \A i \in S : Cardinality(Above(i)) \in Counts
    OBVIOUS
  <2>2. \A c \in Counts : \E i \in S : c = Cardinality(Above(i))
    OBVIOUS
  <2> HIDE DEF Counts
  <2>3. Min(Counts) \in Counts /\ \A c \in Counts : Min(Counts) <= c
    BY <1>2, LeastNumber
  <2> QED
    BY <2>1, <2>2, <2>3
<1>4. ASSUME NEW x \in S, x > m PROVE FALSE
  <2>1. Above(x) \in SUBSET Above(m) /\ x \in Above(m) /\ x \notin Above(x)
    <3>1. m \in Nat /\ x \in Nat /\ \A j \in S : j \in Nat
      OBVIOUS
    <3>2. \A j \in S : j > x => j > m
      BY <1>4, <3>1
    <3>3. ~(x > x)
      BY <3>1
    <3> QED
      BY <1>4, <3>2, <3>3
  <2>2. Cardinality(Above(x)) <= Cardinality(Above(m))
        /\ (Cardinality(Above(m)) = Cardinality(Above(x)) => Above(m) = Above(x))
    <3>1. IsFiniteSet(Above(m))
      BY <1>1
    <3> HIDE DEF Above
    <3> QED
      BY <2>1, <3>1, FS_Subset
  <2>3. Above(m) # Above(x)
    BY <2>1
  <2>4. Cardinality(Above(m)) <= Cardinality(Above(x))
    BY <1>3
  <2>5. Cardinality(Above(m)) \in Nat /\ Cardinality(Above(x)) \in Nat
    BY <1>1
  <2> HIDE DEF Above
  <2> QED
    BY <2>2, <2>3, <2>4, <2>5
<1>5. \A x \in S : x <= m
  BY <1>4
<1> QED
  BY <1>5

Below(g, x) == {i \in Clean(g) : samples[i].latency < x}
UpTo(g, x) == {i \in Clean(g) : samples[i].latency <= x}

\* Groups are finite, and so is what is picked from them.
LEMMA GroupSizes ==
    ASSUME RunTypes, NEW g \in SUBSET (1 .. Len(samples))
    PROVE  /\ IsFiniteSet(g) /\ Cardinality(g) \in Nat
           /\ \A h \in SUBSET g : IsFiniteSet(h) /\ Cardinality(h) \in Nat
           /\ \A h \in SUBSET g : \A d \in SUBSET h : Cardinality(d) <= Cardinality(h)
<1>1. IsFiniteSet(1 .. Len(samples))
  <2>1. Len(samples) \in Nat
    BY LenProperties DEF RunTypes
  <2> QED
    BY <2>1, FS_Interval
<1>2. IsFiniteSet(g)
  BY <1>1, FS_Subset
<1>3. \A h \in SUBSET g : IsFiniteSet(h)
  BY <1>2, FS_Subset
<1>4. \A h \in SUBSET g : \A d \in SUBSET h : Cardinality(d) <= Cardinality(h)
  BY <1>3, FS_Subset
<1> QED
  BY <1>2, <1>3, <1>4, FS_CardinalityType

\* Latencies are numbers.
LEMMA LatencyType ==
    ASSUME RunTypes, NEW i \in 1 .. Len(samples)
    PROVE  samples[i].latency \in Nat
<1>1. samples[i] \in SampleOf
  BY ElementOfSeq DEF RunTypes
<1> QED
  BY <1>1 DEF SampleOf

\* Some reads of a group that have no error have the largest latency of these.
LEMMA SlowestRead ==
    ASSUME RunTypes, NEW g \in SUBSET (1 .. Len(samples)), NEW h \in SUBSET g, h # {}
    PROVE  \E m \in h : \A i \in h : samples[i].latency <= samples[m].latency
<1> DEFINE lat == [i \in h |-> samples[i].latency]
           L == {samples[i].latency : i \in h}
<1>1. lat \in Surjection(h, L)
  BY DEF Surjection
<1>2. IsFiniteSet(h)
  BY GroupSizes
<1>3. IsFiniteSet(L)
  BY <1>1, <1>2, FS_Surjection
<1>4. L \in SUBSET Nat /\ L # {}
  BY LatencyType
<1>5. \A i \in h : samples[i].latency \in L
  OBVIOUS
<1>6. \A x \in L : \E m \in h : x = samples[m].latency
  OBVIOUS
<1> HIDE DEF L
<1>7. PICK x \in L : \A y \in L : y <= x
  BY <1>3, <1>4, LargestNumber
<1> QED
  BY <1>5, <1>6, <1>7

\* Ranked finds the r-th smallest latency.
LEMMA RankedIs ==
    ASSUME RunTypes, NEW g \in SUBSET (1 .. Len(samples)), NEW r \in 1 .. Cardinality(Clean(g))
    PROVE  /\ Ranked(g, r) \in Nat
           /\ Cardinality(Below(g, Ranked(g, r))) < r
           /\ r <= Cardinality(UpTo(g, Ranked(g, r)))
<1> DEFINE L == {samples[i].latency : i \in Clean(g)}
           ok(x) == Cardinality(Below(g, x)) < r /\ r <= Cardinality(UpTo(g, x))
           High == {x \in L : r <= Cardinality(UpTo(g, x))}
<1>1. /\ Clean(g) \in SUBSET g
      /\ \A x : Below(g, x) \in SUBSET g /\ UpTo(g, x) \in SUBSET g
      /\ \A x : Below(g, x) \in SUBSET Clean(g)
  BY DEF Clean, Below, UpTo
<1>2. /\ Cardinality(Clean(g)) \in Nat
      /\ \A x : Cardinality(Below(g, x)) \in Nat /\ Cardinality(UpTo(g, x)) \in Nat
  BY <1>1, GroupSizes
<1>3. r \in Nat /\ 1 <= r /\ r <= Cardinality(Clean(g))
  BY <1>2
<1>4. \A i \in Clean(g) : i \in 1 .. Len(samples) /\ samples[i].latency \in Nat
  BY <1>1, LatencyType
<1>5. L \in SUBSET Nat
  BY <1>4
<1>6. High # {}
  <2>1. Clean(g) # {}
    BY <1>3, FS_EmptySet
  <2>2. PICK m \in Clean(g) : \A i \in Clean(g) : samples[i].latency <= samples[m].latency
    BY <1>1, <2>1, SlowestRead
  <2>3. UpTo(g, samples[m].latency) = Clean(g)
    BY <2>2 DEF UpTo
  <2>4. samples[m].latency \in High
    BY <1>3, <2>3
  <2> QED
    BY <2>4
<1> DEFINE x0 == Min(High)
<1>7. x0 \in High /\ \A x \in High : x0 <= x
  <2>1. High \in SUBSET Nat
    BY <1>5
  <2> HIDE DEF High
  <2> QED
    BY <1>6, <2>1, LeastNumber
<1>8. x0 \in L /\ x0 \in Nat /\ r <= Cardinality(UpTo(g, x0))
  BY <1>5, <1>7
<1> HIDE DEF x0
<1>9. ASSUME Cardinality(Below(g, x0)) >= r PROVE FALSE
  <2>1. Below(g, x0) # {}
    BY <1>3, <1>9, FS_EmptySet
  <2>2. PICK m \in Below(g, x0) :
          \A i \in Below(g, x0) : samples[i].latency <= samples[m].latency
    BY <1>1, <2>1, SlowestRead
  <2> DEFINE y == samples[m].latency
  <2>3. m \in Clean(g) /\ y < x0 /\ y \in Nat /\ y \in L
    BY <1>4, <2>2 DEF Below
  <2>4. Below(g, x0) \in SUBSET UpTo(g, y)
    BY <2>2 DEF Below, UpTo
  <2>5. Cardinality(Below(g, x0)) <= Cardinality(UpTo(g, y))
    BY <1>1, <2>4, GroupSizes
  <2>6. r <= Cardinality(UpTo(g, y))
    <3> HIDE DEF y
    <3> QED
      BY <1>2, <1>3, <1>9, <2>5
  <2>7. y \in High
    BY <2>3, <2>6
  <2>8. x0 <= y
    BY <1>7, <2>7
  <2> HIDE DEF y
  <2> QED
    BY <1>8, <2>3, <2>8
<1>10. ok(x0)
  BY <1>2, <1>3, <1>8, <1>9
<1>11. Ranked(g, r) = CHOOSE x \in L : ok(x)
  BY Zenon DEF Ranked, Clean, Below, UpTo
<1>12. Ranked(g, r) \in L /\ ok(Ranked(g, r))
  <2> HIDE DEF L, ok
  <2> QED
    BY <1>8, <1>10, <1>11
<1> QED
  BY <1>5, <1>12

\* Higher ranks have no smaller latencies.
LEMMA RanksRise ==
    ASSUME RunTypes, NEW g \in SUBSET (1 .. Len(samples)),
           NEW q \in 1 .. Cardinality(Clean(g)), NEW r \in 1 .. Cardinality(Clean(g)), q <= r
    PROVE  Ranked(g, q) <= Ranked(g, r)
<1> DEFINE x == Ranked(g, q)
           y == Ranked(g, r)
<1>1. /\ x \in Nat /\ Cardinality(Below(g, x)) < q
      /\ y \in Nat /\ r <= Cardinality(UpTo(g, y))
  BY RankedIs
<1> HIDE DEF x, y
<1>2. /\ Cardinality(Clean(g)) \in Nat
      /\ Cardinality(Below(g, x)) \in Nat /\ Cardinality(UpTo(g, y)) \in Nat
      /\ Below(g, x) \in SUBSET g
  <2>1. Clean(g) \in SUBSET g /\ Below(g, x) \in SUBSET g /\ UpTo(g, y) \in SUBSET g
    BY DEF Clean, Below, UpTo
  <2> QED
    BY <2>1, GroupSizes
<1>3. ASSUME y < x PROVE FALSE
  <2>1. UpTo(g, y) \in SUBSET Below(g, x)
    <3>1. \A i \in Clean(g) : samples[i].latency \in Nat
      BY LatencyType DEF Clean
    <3> QED
      BY <1>1, <1>3, <3>1 DEF UpTo, Below
  <2>2. Cardinality(UpTo(g, y)) <= Cardinality(Below(g, x))
    BY <1>2, <2>1, GroupSizes
  <2>3. q \in Nat /\ r \in Nat
    BY <1>2
  <2> QED
    BY <1>1, <1>2, <2>2, <2>3
<1>4. x <= y
  BY <1>1, <1>3
<1> QED
  BY <1>4 DEF x, y

\* The ranks of the percentiles among n.
LEMMA PercentileRanks ==
    ASSUME NEW n \in Nat \ {0}
    PROVE  LET p50 == Greatest(1, Least((1 * n + 2 - 1) \div 2, n))
               p90 == Greatest(1, Least((9 * n + 10 - 1) \div 10, n))
               p99 == Greatest(1, Least((99 * n + 100 - 1) \div 100, n))
           IN  /\ p50 \in 1 .. n /\ p90 \in 1 .. n /\ p99 \in 1 .. n
               /\ p50 <= p90 /\ p90 <= p99 /\ p99 <= n
               /\ 2 * p50 >= n /\ 2 * (p50 - 1) < n
<1> DEFINE a == (1 * n + 2 - 1) \div 2
           b == (9 * n + 10 - 1) \div 10
           c == (99 * n + 100 - 1) \div 100
<1>1. a \in Int /\ a * 2 <= 1 * n + 2 - 1 /\ 1 * n + 2 - 1 < a * 2 + 2
  BY Division
<1>2. b \in Int /\ b * 10 <= 9 * n + 10 - 1 /\ 9 * n + 10 - 1 < b * 10 + 10
  BY Division
<1>3. c \in Int /\ c * 100 <= 99 * n + 100 - 1 /\ 99 * n + 100 - 1 < c * 100 + 100
  BY Division
<1> HIDE DEF a, b, c
<1>4. 1 <= a /\ a <= n /\ 2 * a >= n /\ 2 * (a - 1) < n
  BY <1>1
<1>5. 1 <= b /\ b <= n /\ a <= b
  BY <1>1, <1>2
<1>6. 1 <= c /\ c <= n /\ b <= c
  BY <1>2, <1>3
<1>7. /\ Greatest(1, Least(a, n)) = a
      /\ Greatest(1, Least(b, n)) = b
      /\ Greatest(1, Least(c, n)) = c
  BY <1>1, <1>2, <1>3, <1>4, <1>5, <1>6 DEF Greatest, Least
<1>8. /\ a \in 1 .. n /\ b \in 1 .. n /\ c \in 1 .. n
      /\ a <= b /\ b <= c /\ c <= n
      /\ 2 * a >= n /\ 2 * (a - 1) < n
  BY <1>1, <1>2, <1>3, <1>4, <1>5, <1>6
<1> QED
  BY <1>7, <1>8 DEF a, b, c

\* What stats says of a group.
LEMMA StatsOf ==
    ASSUME NEW g
    PROVE  /\ stats(g).count = Cardinality(g)
           /\ stats(g).errors = Cardinality(g \ Clean(g))
           /\ Cardinality(Clean(g)) # 0 =>
                /\ stats(g).p50 = pct(g, 1, 2)
                /\ stats(g).p90 = pct(g, 9, 10)
                /\ stats(g).p99 = pct(g, 99, 100)
                /\ stats(g).top = Ranked(g, Cardinality(Clean(g)))
<1> DEFINE n == Cardinality(Clean(g))
           all == Cardinality(g)
           errors == Cardinality(g \ Clean(g))
<1>1. stats(g) =
        IF n = 0 THEN [count |-> all, errors |-> errors]
        ELSE [count |-> all, errors |-> errors,
              p50 |-> pct(g, 1, 2), p90 |-> pct(g, 9, 10), p99 |-> pct(g, 99, 100),
              top |-> Ranked(g, n)]
  BY Zenon DEF stats, Clean
<1> HIDE DEF n, all, errors
<1>2. stats(g).count = all /\ stats(g).errors = errors
  BY <1>1
<1>3. n # 0 =>
        /\ stats(g).p50 = pct(g, 1, 2)
        /\ stats(g).p90 = pct(g, 9, 10)
        /\ stats(g).p99 = pct(g, 99, 100)
        /\ stats(g).top = Ranked(g, n)
  BY <1>1
<1> QED
  BY <1>2, <1>3 DEF n, all, errors

\* Every latency has a bucket.
LEMMA BucketIs ==
    ASSUME ReplayAssumption, NEW x
    PROVE  Bucket(x) \in 1 .. Len(HistEdges)
<1> DEFINE S == {b \in 1 .. Len(HistEdges) : HistEdges[b] >= x} \union {Len(HistEdges)}
<1>1. Len(HistEdges) \in Nat /\ Len(HistEdges) >= 1
  BY LenProperties, EmptySeq DEF ReplayAssumption
<1>2. S \subseteq 1 .. Len(HistEdges) /\ S # {} /\ S \in SUBSET Nat
  BY <1>1
<1>3. Min(S) \in S
  <2> HIDE DEF S
  <2> QED
    BY <1>2, LeastNumber
<1>4. Bucket(x) = Min(S)
  BY DEF Bucket
<1> QED
  BY <1>2, <1>3, <1>4

\* The summary of any samples adds up.
LEMMA SummaryGood ==
    ASSUME ReplayAssumption, RunTypes
    PROVE  SummaryAddsUp
<1> DEFINE A == 1 .. Len(samples)
           C == Clean(A)
           all == stats(A)
           n == Cardinality(C)
<1>1. /\ All = A /\ Clean(A) = C
      /\ C \in SUBSET A /\ A \in SUBSET A /\ A \ C \in SUBSET A
  BY DEF All, Clean
<1>2. /\ IsFiniteSet(A) /\ IsFiniteSet(C) /\ IsFiniteSet(A \ C)
      /\ n \in Nat /\ Cardinality(A) \in Nat
  <2> HIDE DEF C
  <2> QED
    BY <1>1, GroupSizes
<1>3. all.count = Cardinality(A) /\ all.errors = Cardinality(A \ C)
  BY StatsOf
<1>4. all.count - all.errors = n
  <2>1. Cardinality(A \ C) = Cardinality(A) - Cardinality(A \cap C)
    BY <1>2, FS_Difference
  <2>2. A \cap C = C
    BY <1>1
  <2>3. Cardinality(A \cap C) = Cardinality(C)
    BY <2>2, Zenon
  <2> HIDE DEF A, C
  <2> QED
    BY <1>2, <1>3, <2>1, <2>3
<1> DEFINE K == {KindOf(i) : i \in A}
           kinds == [k \in K |-> {i \in A : KindOf(i) = k}]
<1>5. byKind = kinds /\ DOMAIN byKind = K
  BY <1>1 DEF byKind
<1>6. Total([k \in K |-> stats(kinds[k]).count]) = Cardinality(A)
  <2>1. kinds \in [K -> SUBSET A]
    OBVIOUS
  <2>2. \A i \in A : \E k \in K : i \in kinds[k]
    OBVIOUS
  <2>3. \A j, k \in K : \A i \in A : (i \in kinds[j] /\ i \in kinds[k]) => j = k
    OBVIOUS
  <2> HIDE DEF A, K, kinds
  <2>4. Total([k \in K |-> Cardinality(kinds[k])]) = Cardinality(A)
    BY <1>2, <2>1, <2>2, <2>3, GroupsAddUp
  <2>5. [k \in K |-> stats(kinds[k]).count] = [k \in K |-> Cardinality(kinds[k])]
    BY StatsOf
  <2> QED
    BY <2>4, <2>5, Zenon
<1>7. Total([k \in K |-> stats(kinds[k]).errors]) = Cardinality(A \ C)
  <2> DEFINE wrong == [k \in K |-> kinds[k] \ Clean(kinds[k])]
  <2>1. \A k \in K : \A i : i \in wrong[k] <=> i \in A \ C /\ KindOf(i) = k
    BY DEF Clean
  <2>2. wrong \in [K -> SUBSET (A \ C)]
    BY <2>1
  <2>3. \A i \in A \ C : \E k \in K : i \in wrong[k]
    <3>1. \A i \in A : KindOf(i) \in K
      OBVIOUS
    <3> HIDE DEF A, C, K, kinds, wrong
    <3> QED
      BY <2>1, <3>1
  <2>4. \A j, k \in K : \A i \in A \ C : (i \in wrong[j] /\ i \in wrong[k]) => j = k
    BY <2>1
  <2>5. [k \in K |-> stats(kinds[k]).errors] = [k \in K |-> Cardinality(wrong[k])]
    <3> HIDE DEF kinds, K
    <3> QED
      BY StatsOf
  <2> HIDE DEF A, C, K, kinds, wrong, all, n
  <2>6. IsFiniteSet(A \ C)
    BY <1>2, FS_Subset
  <2>7. Total([k \in K |-> Cardinality(wrong[k])]) = Cardinality(A \ C)
    <3> DEFINE W == A \ C
    <3>1. IsFiniteSet(W) /\ wrong \in [K -> SUBSET W]
      BY <2>2, <2>6
    <3>2. /\ \A i \in W : \E k \in K : i \in wrong[k]
          /\ \A j, k \in K : \A i \in W : (i \in wrong[j] /\ i \in wrong[k]) => j = k
      BY <2>3, <2>4
    <3> HIDE DEF W
    <3>3. Total([k \in K |-> Cardinality(wrong[k])]) = Cardinality(W)
      BY <3>1, <3>2, GroupsAddUp
    <3> QED
      BY <3>3 DEF W
  <2> QED
    BY <2>5, <2>7, Zenon
<1> DEFINE T == {samples[i].tier : i \in C}
           tiers == [t \in T |-> {i \in C : samples[i].tier = t}]
<1>8. byTier = tiers /\ DOMAIN byTier = T
  BY <1>1 DEF byTier
<1>9. Total([t \in T |-> stats(tiers[t]).count]) = n
  <2>1. tiers \in [T -> SUBSET C]
    OBVIOUS
  <2>2. \A i \in C : \E t \in T : i \in tiers[t]
    OBVIOUS
  <2>3. \A j, k \in T : \A i \in C : (i \in tiers[j] /\ i \in tiers[k]) => j = k
    OBVIOUS
  <2> HIDE DEF C, T, tiers
  <2>4. Total([t \in T |-> Cardinality(tiers[t])]) = Cardinality(C)
    BY <1>2, <2>1, <2>2, <2>3, GroupsAddUp
  <2>5. [t \in T |-> stats(tiers[t]).count] = [t \in T |-> Cardinality(tiers[t])]
    BY StatsOf
  <2> QED
    BY <2>4, <2>5, Zenon
<1>10. Total(Histogram) = n
  <2> DEFINE B == 1 .. Len(HistEdges)
             slot == [b \in B |-> {i \in C : Bucket(samples[i].latency) = b}]
  <2>1. slot \in [B -> SUBSET C]
    OBVIOUS
  <2>2. \A i \in C : \E b \in B : i \in slot[b]
    BY BucketIs
  <2>3. \A j, k \in B : \A i \in C : (i \in slot[j] /\ i \in slot[k]) => j = k
    OBVIOUS
  <2>4. Histogram = [b \in B |-> Cardinality(slot[b])]
    <3>1. Histogram =
            [b \in B |-> Cardinality({i \in C : Bucket(samples[i].latency) = b})]
      BY <1>1, Zenon DEF Histogram
    <3>2. \A b \in B : slot[b] = {i \in C : Bucket(samples[i].latency) = b}
      OBVIOUS
    <3> HIDE DEF slot, B, C
    <3> QED
      BY <3>1, <3>2, Zenon
  <2> HIDE DEF C, B, slot
  <2>5. Total([b \in B |-> Cardinality(slot[b])]) = Cardinality(C)
    BY <1>2, <2>1, <2>2, <2>3, GroupsAddUp
  <2> QED
    BY <2>4, <2>5, Zenon
<1>11. ASSUME n > 0
       PROVE  /\ 2 * Cardinality(UpTo(A, all.p50)) >= n
              /\ 2 * Cardinality(Below(A, all.p50)) < n
              /\ all.p50 <= all.p90 /\ all.p90 <= all.p99 /\ all.p99 <= all.top
  <2> DEFINE r50 == Greatest(1, Least((1 * n + 2 - 1) \div 2, n))
             r90 == Greatest(1, Least((9 * n + 10 - 1) \div 10, n))
             r99 == Greatest(1, Least((99 * n + 100 - 1) \div 100, n))
  <2>1. /\ r50 \in 1 .. n /\ r90 \in 1 .. n /\ r99 \in 1 .. n
        /\ r50 <= r90 /\ r90 <= r99 /\ r99 <= n
        /\ 2 * r50 >= n /\ 2 * (r50 - 1) < n
    <3>1. n \in Nat \ {0}
      BY <1>2, <1>11
    <3> HIDE DEF n
    <3> QED
      BY <3>1, PercentileRanks
  <2>2. Cardinality(Clean(A)) = n
    BY <1>1, Zenon
  <2>3. /\ pct(A, 1, 2) = Ranked(A, r50)
        /\ pct(A, 9, 10) = Ranked(A, r90)
        /\ pct(A, 99, 100) = Ranked(A, r99)
    <3> HIDE DEF n, A
    <3> QED
      BY <2>2, Zenon DEF pct
  <2> HIDE DEF r50, r90, r99
  <2>4. /\ all.p50 = Ranked(A, r50) /\ all.p90 = Ranked(A, r90)
        /\ all.p99 = Ranked(A, r99) /\ all.top = Ranked(A, n)
    <3>1. Cardinality(Clean(A)) # 0
      BY <1>2, <1>11
    <3> QED
      BY <2>3, <3>1, StatsOf
  <2>5. n \in 1 .. n
    BY <1>2, <1>11
  <2>6. /\ Cardinality(Below(A, Ranked(A, r50))) < r50
        /\ r50 <= Cardinality(UpTo(A, Ranked(A, r50)))
    BY <1>1, <2>1, RankedIs
  <2>7. /\ Cardinality(Below(A, all.p50)) \in Nat
        /\ Cardinality(UpTo(A, all.p50)) \in Nat
    <3>1. Below(A, all.p50) \in SUBSET A /\ UpTo(A, all.p50) \in SUBSET A
      BY DEF Below, UpTo, Clean
    <3> QED
      BY <3>1, GroupSizes
  <2>8. /\ 2 * Cardinality(UpTo(A, all.p50)) >= n
        /\ 2 * Cardinality(Below(A, all.p50)) < n
    <3> HIDE DEF A, n, all
    <3>1. /\ Cardinality(Below(A, all.p50)) < r50
          /\ r50 <= Cardinality(UpTo(A, all.p50))
      BY <2>4, <2>6, Zenon
    <3> QED
      BY <1>2, <2>1, <2>7, <3>1
  <2>9. /\ Ranked(A, r50) <= Ranked(A, r90)
        /\ Ranked(A, r90) <= Ranked(A, r99)
        /\ Ranked(A, r99) <= Ranked(A, n)
    BY <1>1, <2>1, <2>5, RanksRise
  <2> QED
    BY <2>4, <2>8, <2>9
<1> HIDE DEF all, A, C, K, kinds, T, tiers
<1>12. /\ Total([k \in DOMAIN byKind |-> stats(byKind[k]).count]) = all.count
       /\ Total([k \in DOMAIN byKind |-> stats(byKind[k]).errors]) = all.errors
       /\ Total([t \in DOMAIN byTier |-> stats(byTier[t]).count]) = n
  BY <1>3, <1>5, <1>6, <1>7, <1>8, <1>9, Zenon
<1>13. \A x : /\ Cardinality({i \in Clean(All) : samples[i].latency <= x}) =
                   Cardinality(UpTo(A, x))
              /\ Cardinality({i \in Clean(All) : samples[i].latency < x}) =
                   Cardinality(Below(A, x))
  BY <1>1, Zenon DEF UpTo, Below, C
<1>14. stats(All) = all
  BY <1>1 DEF all
<1> QED
  BY <1>4, <1>10, <1>11, <1>12, <1>13, <1>14, Zenon DEF SummaryAddsUp

\* run.go:330-379: the summary of a phase adds up: each read is counted in one
\* kind and, with or without error, in one tier and one bucket or as an error;
\* the median is one and percentiles rise, for any samples and any buckets.
THEOREM SummaryAlwaysAddsUp == RunSpec => []SummaryAddsUp
<1> USE WorkloadAssumption, ReplayAssumption
<1>1. RunInit => ReplayInv
  BY ReplayInit
<1>2. ReplayInv /\ [RunNext]_(runVars) => ReplayInv'
  BY ReplayStep
<1>3. ReplayInv => SummaryAddsUp
  BY SummaryGood DEF ReplayInv
<1> QED
  BY <1>1, <1>2, <1>3, PTL DEF RunSpec

=============================================================================
