------------------------------ MODULE Seeding ------------------------------
(***************************************************************************)
(* `bench seed`, runSeed and synthFile of src/cmd/bench/edu.go: uploads of *)
(* a catalog shared out to goroutines over an unbuffered channel, stopped  *)
(* by the first error, skipping what is in the bucket already.  The        *)
(* command may be killed at any step and run again.                        *)
(*                                                                         *)
(* A byte of a file is named by its offset.  A synthetic file's is made    *)
(* from the key and the offset alone, so that files of one key and         *)
(* different sizes (another -scale) agree where they overlap.  The real    *)
(* files of -include-dir may have been others when an earlier seeding      *)
(* uploaded them; they stay as they are from the first of these runs on.   *)
(* The progress line is left out.                                          *)
(***************************************************************************)
EXTENDS Naturals, Sequences

CONSTANTS
    Uploaders,  \* -parallel goroutines
    Size,       \* the catalog: Size[u] is the size of upload u
    Included,   \* the uploads that are files of -include-dir
    Others,     \* what such a file may have held before
    MaxSize,    \* bound: sizes that earlier seedings may have left
    Attempts,   \* bound: how often the SDK starts to send one body
    MaxRuns     \* bound: how often the command is run

ASSUME SeedingAssumption ==
    /\ Size \in Seq(Nat)
    /\ Included \subseteq DOMAIN Size
    /\ Others \subseteq Seq(Nat)
    /\ MaxSize \in Nat
    /\ Attempts \in Nat \ {0}
    /\ MaxRuns \in Nat \ {0}

Uploads == DOMAIN Size

VARIABLES
    bucket,     \* the bytes stored under each key, << >> = no object
    existing,   \* sizes from the listing, 0 = not in it
    main,       \* where runSeed is
    next,       \* the upload its loop has come to
    firstErr,   \* firstErr # nil
    result,     \* how the last run ended
    runs,       \* how many runs have begun
    pc, job,    \* where each uploader is, and its u
    pos,        \* synthFile.pos of its body
    body,       \* what the SDK has read and sent of it in this attempt
    tries,      \* attempts begun
    bad         \* its err # nil

mainVars == <<existing, main, next, firstErr, result, runs>>
upVars   == <<pc, job, pos, body, tries, bad>>
vars     == <<bucket, existing, main, next, firstErr, result, runs,
              pc, job, pos, body, tries, bad>>

\* The bytes from offset a up to, but not including, b.
Content(a, b) == [j \in 1 .. (b - a) |-> a + j - 1]

IdleUploaders ==
    /\ pc' = [w \in Uploaders |-> "idle"]
    /\ job' = [w \in Uploaders |-> 0]
    /\ pos' = [w \in Uploaders |-> 0]
    /\ body' = [w \in Uploaders |-> << >>]
    /\ tries' = [w \in Uploaders |-> 0]
    /\ bad' = [w \in Uploaders |-> FALSE]

\* What earlier seedings may have left under the key of u.
Left(u) == {Content(0, n) : n \in 0 .. MaxSize} \union (IF u \in Included THEN Others ELSE {})

Init ==
    /\ bucket \in [Uploads -> UNION {Left(u) : u \in Uploads}]
    /\ \A u \in Uploads : bucket[u] \in Left(u)
    /\ existing = [u \in Uploads |-> 0]
    /\ main = "list" /\ next = 1 /\ firstErr = FALSE /\ result = "none" /\ runs = 1
    /\ pc = [w \in Uploaders |-> "idle"]
    /\ job = [w \in Uploaders |-> 0]
    /\ pos = [w \in Uploaders |-> 0]
    /\ body = [w \in Uploaders |-> << >>]
    /\ tries = [w \in Uploaders |-> 0]
    /\ bad = [w \in Uploaders |-> FALSE]

----------------------------------------------------------------------------
(* runSeed's own goroutine. *)

\* listObjects; a listing that fails is taken for an empty one.
List ==
    /\ main = "list"
    /\ \/ existing' = [u \in Uploads |-> Len(bucket[u])]
       \/ existing' = [u \in Uploads |-> 0]
    /\ main' = "check"
    /\ UNCHANGED <<bucket, next, firstErr, result, runs, upVars>>

\* Look at firstErr before each upload; close(jobs) after the loop.
Check ==
    /\ main = "check"
    /\ main' = IF next > Len(Size) \/ firstErr THEN "wait" ELSE "send"
    /\ UNCHANGED <<bucket, existing, next, firstErr, result, runs, upVars>>

\* jobs <- u meets an uploader's receive.
Send(w) ==
    /\ main = "send"
    /\ pc[w] = "idle"
    /\ job' = [job EXCEPT ![w] = next]
    /\ pc' = [pc EXCEPT ![w] = "begin"]
    /\ next' = next + 1
    /\ main' = "check"
    /\ UNCHANGED <<bucket, existing, firstErr, result, runs, pos, body, tries, bad>>

\* wg.Wait; return firstErr.
Return ==
    /\ main = "wait"
    /\ \A w \in Uploaders : pc[w] = "gone"
    /\ main' = "over"
    /\ result' = IF firstErr THEN "error" ELSE "ok"
    /\ existing' = [u \in Uploads |-> 0] /\ next' = 1 /\ firstErr' = FALSE
    /\ UNCHANGED <<bucket, runs, upVars>>

----------------------------------------------------------------------------
(* An uploader. *)

\* The variables of an iteration go out of scope.
Forget(w) ==
    /\ job' = [job EXCEPT ![w] = 0]
    /\ pos' = [pos EXCEPT ![w] = 0]
    /\ body' = [body EXCEPT ![w] = << >>]
    /\ tries' = [tries EXCEPT ![w] = 0]
    /\ bad' = [bad EXCEPT ![w] = FALSE]

\* The upload is over, with or without an error.
Ends(w, err) ==
    /\ pc' = [pc EXCEPT ![w] = "book"]
    /\ bad' = [bad EXCEPT ![w] = err]

\* existing[u.key] == u.size: nothing to do.
Present(w) ==
    /\ pc[w] = "begin"
    /\ existing[job[w]] = Size[job[w]]
    /\ Ends(w, FALSE)
    /\ UNCHANGED <<bucket, mainVars, job, pos, body, tries>>

\* A file of -include-dir cannot be opened.
OpenFails(w) ==
    /\ pc[w] = "begin"
    /\ job[w] \in Included
    /\ existing[job[w]] # Size[job[w]]
    /\ Ends(w, TRUE)
    /\ UNCHANGED <<bucket, mainVars, job, pos, body, tries>>

\* u.open(), and PutObject begins.
Open(w) ==
    /\ pc[w] = "begin"
    /\ existing[job[w]] # Size[job[w]]
    /\ pc' = [pc EXCEPT ![w] = "put"]
    /\ pos' = [pos EXCEPT ![w] = 0]
    /\ body' = [body EXCEPT ![w] = << >>]
    /\ tries' = [tries EXCEPT ![w] = 1]
    /\ UNCHANGED <<bucket, mainVars, job, bad>>

\* Slip: fills the whole buffer, past the end of the file.
ReadUnclamped(w, len) ==
    /\ pc[w] = "put"
    /\ pos[w] < Size[job[w]]
    /\ body' = [body EXCEPT ![w] = @ \o Content(pos[w], pos[w] + len)]
    /\ pos' = [pos EXCEPT ![w] = @ + len]
    /\ UNCHANGED <<bucket, mainVars, pc, job, tries, bad>>

\* synthFile.Read into a buffer of len bytes.
Read(w, len) ==
    /\ pc[w] = "put"
    /\ pos[w] < Size[job[w]]
    /\ LET rem == Size[job[w]] - pos[w]
           got == IF len > rem THEN rem ELSE len
       IN  /\ body' = [body EXCEPT ![w] = @ \o Content(pos[w], pos[w] + got)]
           /\ pos' = [pos EXCEPT ![w] = @ + got]
    /\ UNCHANGED <<bucket, mainVars, pc, job, tries, bad>>

\* Where synthFile.Seek leaves a file of size bytes read up to p; a negative
\* position is an error and moves nothing.
SeekTo(p, size, offset, whence) ==
    LET abs == CASE whence = "start" -> offset
                 [] whence = "current" -> p + offset
                 [] whence = "end" -> size + offset
    IN  IF abs < 0 THEN p ELSE abs

\* An attempt failed in a way the SDK retries: rewind the body, send it again.
Retry(w) ==
    /\ pc[w] = "put"
    /\ tries[w] < Attempts
    /\ tries' = [tries EXCEPT ![w] = @ + 1]
    /\ pos' = [pos EXCEPT ![w] = SeekTo(@, Size[job[w]], 0, "start")]
    /\ body' = [body EXCEPT ![w] = << >>]
    /\ UNCHANGED <<bucket, mainVars, pc, job, bad>>

\* All ContentLength bytes are sent, so that the object may be there.
Sent(w) == pc[w] = "put" /\ Len(body[w]) = Size[job[w]]

\* The store has the object and says so.
PutDone(w) ==
    /\ Sent(w)
    /\ bucket' = [bucket EXCEPT ![job[w]] = body[w]]
    /\ Ends(w, FALSE)
    /\ UNCHANGED <<mainVars, job, pos, body, tries>>

\* PutObject returns an error; the object may be there all the same.
PutFails(w) ==
    /\ pc[w] = "put"
    /\ \/ UNCHANGED bucket
       \/ Sent(w) /\ bucket' = [bucket EXCEPT ![job[w]] = body[w]]
    /\ Ends(w, TRUE)
    /\ UNCHANGED <<mainVars, job, pos, body, tries>>

\* Slip: the latest upload decides.
BookLatest(w) ==
    /\ pc[w] = "book"
    /\ firstErr' = bad[w]
    /\ pc' = [pc EXCEPT ![w] = "idle"]
    /\ Forget(w)
    /\ UNCHANGED <<bucket, existing, main, next, result, runs>>

\* Slip: an uploader that failed returns.
BookAndQuit(w) ==
    /\ pc[w] = "book"
    /\ firstErr' = (firstErr \/ bad[w])
    /\ pc' = [pc EXCEPT ![w] = IF bad[w] THEN "gone" ELSE "idle"]
    /\ Forget(w)
    /\ UNCHANGED <<bucket, existing, main, next, result, runs>>

\* Under mu: keep the first error.  Then receive again.
Book(w) ==
    /\ pc[w] = "book"
    /\ firstErr' = (firstErr \/ bad[w])
    /\ pc' = [pc EXCEPT ![w] = "idle"]
    /\ Forget(w)
    /\ UNCHANGED <<bucket, existing, main, next, result, runs>>

\* jobs is closed: wg.Done.
Leave(w) ==
    /\ pc[w] = "idle"
    /\ main = "wait"
    /\ pc' = [pc EXCEPT ![w] = "gone"]
    /\ UNCHANGED <<bucket, mainVars, job, pos, body, tries, bad>>

----------------------------------------------------------------------------
(* The user. *)

\* The command is killed.  Bodies that are sent may be stored.
Kill ==
    /\ main # "over"
    /\ \E stored \in SUBSET {w \in Uploaders : Sent(w)} :
        bucket' = [u \in Uploads |->
                    IF \E w \in stored : job[w] = u THEN Content(0, Size[u]) ELSE bucket[u]]
    /\ main' = "over"
    /\ result' = "killed"
    /\ IdleUploaders
    /\ existing' = [u \in Uploads |-> 0] /\ next' = 1 /\ firstErr' = FALSE
    /\ UNCHANGED runs

\* It is run again.
RunAgain ==
    /\ main = "over"
    /\ runs < MaxRuns
    /\ runs' = runs + 1
    /\ main' = "list"
    /\ IdleUploaders
    /\ UNCHANGED <<bucket, existing, next, firstErr, result>>

Uploader(w) ==
    \/ Present(w) \/ OpenFails(w) \/ Open(w)
    \/ \E len \in 1 .. MaxSize : Read(w, len)
    \/ Retry(w) \/ PutDone(w) \/ PutFails(w)
    \/ Book(w) \/ Leave(w)

Main == List \/ Check \/ (\E w \in Uploaders : Send(w)) \/ Return

Over == main = "over" /\ runs = MaxRuns /\ UNCHANGED vars

Next == Main \/ (\E w \in Uploaders : Uploader(w)) \/ Kill \/ RunAgain \/ Over

Spec == Init /\ [][Next]_vars

\* The scheduler runs every goroutine, and every PUT ends.
FairSpec == Spec /\ WF_vars(Main) /\ \A w \in Uploaders : WF_vars(Uploader(w))

----------------------------------------------------------------------------
(* Properties. *)

\* The types of runSeed's and the uploaders' variables.
TypeOK ==
    /\ bucket \in [Uploads -> Seq(Nat)]
    /\ existing \in [Uploads -> Nat]
    /\ main \in {"list", "check", "send", "wait", "over"}
    /\ next \in 1 .. (Len(Size) + 1)
    /\ firstErr \in BOOLEAN
    /\ result \in {"none", "ok", "error", "killed"}
    /\ runs \in 1 .. MaxRuns
    /\ pc \in [Uploaders -> {"idle", "begin", "put", "book", "gone"}]
    /\ job \in [Uploaders -> Uploads \union {0}]
    /\ \A w \in Uploaders : pc[w] \in {"begin", "put", "book"} => job[w] # 0
    /\ pos \in [Uploaders -> Nat]
    /\ \A w \in Uploaders : job[w] # 0 => pos[w] <= Size[job[w]]
    /\ body \in [Uploaders -> Seq(Nat)]
    /\ tries \in [Uploaders -> 0 .. Attempts]
    /\ bad \in [Uploaders -> BOOLEAN]

Whole(u) == bucket[u] = Content(0, Size[u])

\* What an included file held before is still there, and of the file's size.
Passes(u) == u \in Included /\ bucket[u] \in Others /\ Len(bucket[u]) = Size[u]

\* edu.go:213: a seeding that reports no error has left every file of the
\* catalog in the bucket, whole, whatever earlier runs left there, failed to
\* send or did not live to see; but a file of -include-dir can be an earlier
\* one that is exactly as long.  (A file of no bytes is another matter:
\* existing has 0 for keys it does not have, and the upload is skipped.)
SuccessMeansUploaded ==
    (main = "over" /\ result = "ok") =>
        \A u \in Uploads : Size[u] > 0 => Whole(u) \/ Passes(u)

\* edu.go:202-213: the producer is never left alone with its unbuffered send,
\* nor the wait group with a lost goroutine, wherever the uploads fail.
SeedingEnds == main = "list" ~> main = "over"

=============================================================================
