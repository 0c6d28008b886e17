-------------------------------- MODULE Replay --------------------------------
(***************************************************************************)
(* `bench run' (cmd/bench/run.go): the sessions are drawn once and         *)
(* replayed in every phase, against S3 or through the proxy.  In a phase   *)
(* main hands the sessions to students, each a goroutine, over an          *)
(* unbuffered channel; a student makes the reads of a session one after    *)
(* the other and appends a sample of each to a shared slice.               *)
(*                                                                         *)
(* A read's answer is any of Answers: how S3 or the proxy can answer,      *)
(* external to this program.  The progress printer is left out, and so are *)
(* the files, but for those whose failure ends the run.                    *)
(***************************************************************************)
EXTENDS Workload

CONSTANTS
    Students,       \* goroutines of a phase
    SessionCount,   \* -sessions
    Phases,         \* -phases
    Answers,        \* [reached, status, cut, header, latency] of a read
    HistEdges,      \* upper edges of the histogram's buckets
    MaxReads        \* bound: workloads with more reads are drawn, but not replayed

ASSUME ReplayAssumption ==
    /\ Students # {} /\ IsFiniteSet(Students)
    /\ SessionCount \in Nat \ {0}
    /\ Phases \in Seq(STRING)
    /\ Answers \subseteq [reached : BOOLEAN, status : Nat, cut : Nat, header : STRING, latency : Nat]
    /\ HistEdges \in Seq(Nat) /\ HistEdges # << >>
    /\ MaxReads \in Nat

VARIABLES
    work,       \* sessions drawn
    stage,       \* where main is: "draw", "phase", "serve", "join", "report", "ok", "failed"
    phase,      \* which of the phases is next or under way
    sent,       \* sessions handed out in it
    gone,       \* students that have returned
    reading,    \* the session and the read that each student is at, or None
    samples     \* the phase's samples

None == <<0, 0>>

runVars == <<work, stage, phase, sent, gone, reading, samples>>

RunInit ==
    /\ work = << >>
    /\ stage = "draw"
    /\ phase = 1
    /\ sent = 0
    /\ gone = Students
    /\ reading = [w \in Students |-> None]
    /\ samples = << >>

\* All reads of a workload, each as its session and its place there.
Reads(sessions) ==
    UNION {{<<s, k>> : k \in 1 .. Len(sessions[s].reqs)} : s \in 1 .. Len(sessions)}

----------------------------------------------------------------------------
(* Main. *)

\* No client, no listing, or nothing listed.
ListFails ==
    /\ stage = "draw" /\ work = << >>
    /\ stage' = "failed"
    /\ UNCHANGED <<work, phase, sent, gone, reading, samples>>

Draw ==
    /\ stage = "draw" /\ Len(work) < SessionCount
    /\ \E s \in Drawable : work' = Append(work, s)
    /\ stage' = IF Len(work') = SessionCount THEN "phase" ELSE "draw"
    /\ UNCHANGED <<phase, sent, gone, reading, samples>>

\* The directory for the results, or requests.csv in it, cannot be made.
OutFails ==
    /\ stage = "phase" /\ phase = 1
    /\ stage' = "failed"
    /\ UNCHANGED <<work, phase, sent, gone, reading, samples>>

\* The reader of the phase is there: S3, or a proxy that answers the ping.
BeginPhase ==
    /\ stage = "phase" /\ phase <= Len(Phases)
    /\ Phases[phase] \in {"direct", "proxy-cold", "proxy-warm"}
    /\ Cardinality(Reads(work)) <= MaxReads
    /\ stage' = "serve"
    /\ sent' = 0
    /\ samples' = << >>
    /\ gone' = {}
    /\ UNCHANGED <<work, phase, reading>>

\* An unknown phase, or a proxy that does not answer the ping.
PhaseFails ==
    /\ stage = "phase" /\ phase <= Len(Phases)
    /\ Phases[phase] # "direct"
    /\ stage' = "failed"
    /\ UNCHANGED <<work, phase, sent, gone, reading, samples>>

Receiving(w) == w \notin gone /\ reading[w] = None

\* next <- s, as a student receives.
Hand(w) ==
    /\ stage = "serve" /\ sent < Len(work)
    /\ Receiving(w)
    /\ sent' = sent + 1
    /\ reading' = [reading EXCEPT ![w] = <<sent + 1, 1>>]
    /\ UNCHANGED <<work, stage, phase, gone, samples>>

\* close(next)
CloseNext ==
    /\ stage = "serve" /\ sent = Len(work)
    /\ stage' = "join"
    /\ UNCHANGED <<work, phase, sent, gone, reading, samples>>

\* Slip: goes on as soon as a student is gone.
JoinEarly ==
    /\ stage = "join"
    /\ gone # {}
    /\ stage' = "report"
    /\ UNCHANGED <<work, phase, sent, gone, reading, samples>>

\* wg.Wait()
Join ==
    /\ stage = "join"
    /\ gone = Students
    /\ stage' = "report"
    /\ UNCHANGED <<work, phase, sent, gone, reading, samples>>

\* The summary is made.  The phase's rows are written too, but the program asks for
\* no error of that, and goes on in the same way whether requests.csv has them or not.
Report ==
    /\ stage = "report"
    /\ phase' = phase + 1
    /\ stage' = "phase"
    /\ UNCHANGED <<work, sent, gone, reading, samples>>

\* summary.json is written, or cannot be.
Finish ==
    /\ stage = "phase" /\ phase > Len(Phases)
    /\ stage' \in {"ok", "failed"}
    /\ UNCHANGED <<work, phase, sent, gone, reading, samples>>

----------------------------------------------------------------------------
(* The students. *)

\* The bytes that come of an answer to a read of length.
Came(length, a) == IF a.reached THEN length - a.cut ELSE 0

\* What s3Reader.read makes of it: the tier, how many bytes, and whether it failed.
S3Read(length, a) ==
    LET served == a.reached /\ a.status = 206
    IN [tier |-> "s3", n |-> IF served THEN Came(length, a) ELSE 0, err |-> ~served]

\* And proxyReader.read, which reads the body whatever the status.
ProxyRead(length, a) ==
    [tier |-> IF ~a.reached THEN "" ELSE IF a.header = "" THEN "proxy" ELSE a.header,
     n |-> Came(length, a),
     err |-> ~a.reached \/ a.status # 206]

\* A short read is an error too.
Sample(s, k, a) ==
    LET length == work[s].reqs[k].length
        r == IF Phases[phase] = "direct" THEN S3Read(length, a) ELSE ProxyRead(length, a)
    IN [at |-> <<s, k>>, tier |-> r.tier, n |-> r.n,
        err |-> r.err \/ r.n # length, latency |-> a.latency]

\* The read after the one at r, if its session has more.
Following(r) == IF r[2] < Len(work[r[1]].reqs) THEN <<r[1], r[2] + 1>> ELSE None

\* Slip: gives up after an error.
ReadUntilError(w) ==
    /\ reading[w] # None
    /\ \E a \in Answers :
        LET x == Sample(reading[w][1], reading[w][2], a) IN
        /\ samples' = Append(samples, x)
        /\ reading' = [reading EXCEPT ![w] = IF x.err THEN None ELSE Following(@)]
        /\ gone' = IF x.err THEN gone \union {w} ELSE gone
    /\ UNCHANGED <<work, stage, phase, sent>>

\* A read, and its sample under the mutex.
ReadNext(w) ==
    /\ reading[w] # None
    /\ \E a \in Answers : samples' = Append(samples, Sample(reading[w][1], reading[w][2], a))
    /\ reading' = [reading EXCEPT ![w] = Following(@)]
    /\ UNCHANGED <<work, stage, phase, sent, gone>>

\* The channel is closed.
LeavePhase(w) ==
    /\ Receiving(w)
    /\ stage = "join"
    /\ gone' = gone \union {w}
    /\ UNCHANGED <<work, stage, phase, sent, reading, samples>>

----------------------------------------------------------------------------
(* summarize, over the samples of a phase; a group is a set of their indices. *)

All == 1 .. Len(samples)
Clean(g) == {i \in g : ~samples[i].err}
KindOf(i) == Kind[work[samples[i].at[1]].obj]

\* sorted[r - 1]: the r-th smallest latency of a group's reads without error.
Ranked(g, r) ==
    CHOOSE x \in {samples[i].latency : i \in Clean(g)} :
        /\ Cardinality({i \in Clean(g) : samples[i].latency < x}) < r
        /\ r <= Cardinality({i \in Clean(g) : samples[i].latency <= x})

\* Slip: takes the place counted from 0 for one counted from 1.
pctBelow(g, num, den) ==
    LET n == Cardinality(Clean(g))
    IN Ranked(g, Greatest(1, Least(((num * n + den - 1) \div den) - 1, n)))

\* The latency at ceil(q * n), for q = num / den.
pct(g, num, den) ==
    LET n == Cardinality(Clean(g))
    IN Ranked(g, Greatest(1, Least((num * n + den - 1) \div den, n)))

stats(g) ==
    LET n == Cardinality(Clean(g))
        errors == Cardinality(g \ Clean(g))
    IN IF n = 0 THEN [count |-> Cardinality(g), errors |-> errors]
       ELSE [count |-> Cardinality(g), errors |-> errors,
             p50 |-> pct(g, 1, 2), p90 |-> pct(g, 9, 10), p99 |-> pct(g, 99, 100),
             top |-> Ranked(g, n)]

byKind == [k \in {KindOf(i) : i \in All} |-> {i \in All : KindOf(i) = k}]
byTier == [t \in {samples[i].tier : i \in Clean(All)} |-> {i \in Clean(All) : samples[i].tier = t}]

\* The first bucket whose edge is not below the latency, or the last one.
Bucket(latency) == Min({b \in 1 .. Len(HistEdges) : HistEdges[b] >= latency} \union {Len(HistEdges)})

Histogram == [b \in 1 .. Len(HistEdges) |-> Cardinality({i \in Clean(All) : Bucket(samples[i].latency) = b})]

----------------------------------------------------------------------------

Unreplayed == stage = "phase" /\ Cardinality(Reads(work)) > MaxReads

RunOver == (stage \in {"ok", "failed"} \/ Unreplayed) /\ UNCHANGED runVars

RunMain ==
    \/ ListFails \/ Draw \/ OutFails
    \/ BeginPhase \/ PhaseFails \/ CloseNext \/ Join \/ Report \/ Finish

RunNext ==
    \/ RunMain
    \/ \E w \in Students : Hand(w) \/ ReadNext(w) \/ LeavePhase(w)
    \/ RunOver

RunSpec == RunInit /\ [][RunNext]_runVars

\* Goroutines run, every read ends, and the random draws are not all in vain.
\* (The proxy's reader has a timeout of two minutes; S3's has none.)
RunFairSpec ==
    /\ RunSpec
    /\ WF_runVars(RunMain)
    /\ WF_runVars(\E w \in Students : Hand(w))
    /\ \A w \in Students : WF_runVars(ReadNext(w) \/ LeavePhase(w))

----------------------------------------------------------------------------
(* Properties. *)

\* workload.go:11-13, 35-41: what a session asks for is what a student at that
\* file would read.  Every read is of bytes that the object has; reads with
\* seq > 0 go on where the one before stopped; a video is only ever read
\* forward, seeking included, so that no byte of it is asked for twice; and the
\* cap holds unless the first read alone is over it.
SessionsAreRuns ==
    \A i \in 1 .. Len(work) :
        LET reqs == work[i].reqs
            video == Kind[work[i].obj] = "video"
            end(k) == reqs[k].off + reqs[k].length
        IN /\ \A k \in 1 .. Len(reqs) :
                /\ 0 <= reqs[k].off /\ reqs[k].length > 0 /\ end(k) <= Length[work[i].obj]
                /\ reqs[k].seq > 0 =>
                    k > 1 /\ reqs[k - 1].seq = reqs[k].seq - 1 /\ reqs[k].off = end(k - 1)
           /\ video => \A j, k \in 1 .. Len(reqs) : j < k => end(j) <= reqs[k].off
           /\ (MaxBytes > 0 /\ Len(reqs) > 1) => BytesOf(reqs, Len(reqs)) <= MaxBytes

\* run.go:58, "same seed => identical requests every phase": when a phase is
\* summarised, each read of the workload has exactly one sample, whichever
\* student made it, failed reads included, and those of a session are in its
\* order.
EveryReadSampledOnce ==
    stage = "report" =>
        /\ {samples[i].at : i \in All} = Reads(work)
        /\ \A i, j \in All :
            (i < j /\ samples[i].at[1] = samples[j].at[1]) => samples[i].at[2] < samples[j].at[2]

\* The sum of a function's values.
Total(f) == Cardinality(UNION {{x} \X (1 .. f[x]) : x \in DOMAIN f})

\* The summary tells one story: kinds, and tiers with errors, add up to all
\* reads; every read without error is in one bucket, however slow; the median
\* has half of them at or below it, less than half below; percentiles rise.
SummaryAddsUp ==
    stage = "report" =>
        LET all == stats(All)
            good == all.count - all.errors
        IN /\ Total([k \in DOMAIN byKind |-> stats(byKind[k]).count]) = all.count
           /\ Total([k \in DOMAIN byKind |-> stats(byKind[k]).errors]) = all.errors
           /\ Total([t \in DOMAIN byTier |-> stats(byTier[t]).count]) = good
           /\ Total(Histogram) = good
           /\ good > 0 =>
                /\ 2 * Cardinality({i \in Clean(All) : samples[i].latency <= all.p50}) >= good
                /\ 2 * Cardinality({i \in Clean(All) : samples[i].latency < all.p50}) < good
                /\ all.p50 <= all.p90 /\ all.p90 <= all.p99 /\ all.p99 <= all.top

\* The benchmark comes to an end: no student leaves main stuck in next <- s or
\* wg.Wait(), whatever its reads bring, and sessions are found for the workload.
BenchEnds == <>(stage \in {"ok", "failed"} \/ Unreplayed)

=============================================================================
