-------------------------- MODULE VelocityTracker ---------------------------
(***************************************************************************)
(* What VelocityTracker keeps of one object, and when Record sends the     *)
(* prefetcher ahead (src/internal/engine/predictor.go).  All requests for  *)
(* the object share it.  Record reads the clock before it takes the lock,  *)
(* and calls Schedule after it has released it.                            *)
(*                                                                         *)
(* Velocities are whole numbers, Unit for a chunk per tick of the clock,   *)
(* rounded; a positive one stays positive when it is halved, as a float64  *)
(* does for a thousand times.  Evict has no caller and is left out.        *)
(***************************************************************************)
EXTENDS Integers, Sequences

CONSTANTS
    Handlers,           \* goroutines that call Record for this object
    MaxChunk,           \* bound: the chunks of the object are 0 .. MaxChunk
    MaxTime,            \* bound: ticks of the clock
    Unit,               \* the velocity of one chunk per tick
    StreakThreshold,    \* TrackerConfig.StreakThreshold
    VelocityThreshold   \* TrackerConfig.VelocityThresholdChunksPerSec, in parts of Unit

\* 27: Unit is fine enough for two roundings not to matter.
ASSUME VelocityTrackerAssumption ==
    /\ MaxChunk \in Nat /\ MaxTime \in Nat
    /\ Unit \in Nat /\ Unit >= MaxTime
    /\ StreakThreshold \in Nat
    /\ VelocityThreshold \in Nat /\ VelocityThreshold >= 27

VARIABLES
    clock,
    hpc,        \* where each handler is
    chunk,      \* its argument chunkIndex
    now,        \* the time it read
    exists,     \* states[objectKey] is there
    last,       \* lastChunkIndex
    lastAt,     \* lastReadAt
    streak,     \* streakLen
    ewma,       \* velocityEWMA
    trail,      \* history: the last StreakThreshold chunks that made a difference
    steady,     \* history: all reads so far were sequential, and as fast as VelocityThreshold
    burst       \* history: how many reads have been sequential and twice that fast
                \* since the last one that was not

callVars  == <<clock, chunk, now>>
vars == <<clock, hpc, chunk, now, exists, last, lastAt, streak, ewma, trail, steady, burst>>

Chunk == 0 .. MaxChunk

Init ==
    /\ clock = 0
    /\ hpc = [h \in Handlers |-> "idle"]
    /\ chunk = [h \in Handlers |-> 0]
    /\ now = [h \in Handlers |-> 0]
    /\ exists = FALSE
    /\ last = 0 /\ lastAt = 0 /\ streak = 0 /\ ewma = 0
    /\ trail = << >>
    /\ steady = TRUE
    /\ burst = 0

Tick ==
    /\ clock < MaxTime
    /\ clock' = clock + 1
    /\ UNCHANGED <<hpc, chunk, now, exists, last, lastAt, streak, ewma, trail, steady, burst>>

\* Record(objectKey, c) reads the clock.
Record(h, c) ==
    /\ hpc[h] = "idle"
    /\ hpc' = [hpc EXCEPT ![h] = "lock"]
    /\ chunk' = [chunk EXCEPT ![h] = c]
    /\ now' = [now EXCEPT ![h] = clock]
    /\ UNCHANGED <<clock, exists, last, lastAt, streak, ewma, trail, steady, burst>>

Goes(h, to) ==
    /\ hpc[h] = "lock"
    /\ hpc' = [hpc EXCEPT ![h] = to]
    /\ UNCHANGED callVars

\* The last StreakThreshold entries of the trail with c at its end.
Extended(c) ==
    LET t == Append(trail, c) IN
    IF Len(t) > StreakThreshold THEN Tail(t) ELSE t

\* The object is new to the tracker.
FirstRead(h) ==
    /\ ~exists
    /\ exists' = TRUE
    /\ last' = chunk[h]
    /\ lastAt' = now[h]
    /\ streak' = 1
    /\ trail' = Extended(chunk[h])
    /\ Goes(h, "idle")
    /\ UNCHANGED <<ewma, steady, burst>>

\* Another read of the last chunk.
SameChunk(h) ==
    /\ exists
    /\ chunk[h] = last
    /\ Goes(h, "idle")
    /\ UNCHANGED <<exists, last, lastAt, streak, ewma, trail, steady, burst>>

instant(h) == Unit \div (now[h] - lastAt)

\* Slip: averages the first measurement with zero.
BlendFromZero(e, v) == (3 * v + 7 * e) \div 10

\* 0.3 * v + 0.7 * e, or the first measurement.
Blend(e, v) == IF e = 0 THEN v ELSE (3 * v + 7 * e) \div 10

Sequential(h) == chunk[h] = last + 1 /\ now[h] - lastAt > 0

\* shouldPrefetch
Armed(s, v) == s >= StreakThreshold /\ v >= VelocityThreshold

\* The next chunk, read after the last one.
SequentialRead(h) ==
    /\ exists /\ chunk[h] # last
    /\ Sequential(h)
    /\ ewma' = Blend(ewma, instant(h))
    /\ streak' = streak + 1
    /\ last' = chunk[h]
    /\ lastAt' = now[h]
    /\ trail' = Extended(chunk[h])
    /\ steady' = (steady /\ instant(h) >= VelocityThreshold)
    /\ burst' = IF instant(h) >= 2 * VelocityThreshold THEN burst + 1 ELSE 0
    /\ Goes(h, IF Armed(streak', ewma') THEN "schedule" ELSE "idle")
    /\ UNCHANGED exists

\* Slip: does not reset the streak.
OtherReadKeeping(h) ==
    /\ exists /\ chunk[h] # last
    /\ ~Sequential(h)
    /\ ewma' = (ewma + 1) \div 2
    /\ last' = chunk[h]
    /\ lastAt' = now[h]
    /\ trail' = Extended(chunk[h])
    /\ steady' = FALSE
    /\ burst' = 0
    /\ Goes(h, IF Armed(streak, ewma') THEN "schedule" ELSE "idle")
    /\ UNCHANGED <<exists, streak>>

\* Slip: begins the streak without the chunk that was read.
OtherReadUncounted(h) ==
    /\ exists /\ chunk[h] # last
    /\ ~Sequential(h)
    /\ ewma' = (ewma + 1) \div 2
    /\ streak' = 0
    /\ last' = chunk[h]
    /\ lastAt' = now[h]
    /\ trail' = Extended(chunk[h])
    /\ steady' = FALSE
    /\ burst' = 0
    /\ Goes(h, IF Armed(streak', ewma') THEN "schedule" ELSE "idle")
    /\ UNCHANGED exists

\* Another chunk, or one whose time is not after the last one's.
OtherRead(h) ==
    /\ exists /\ chunk[h] # last
    /\ ~Sequential(h)
    /\ ewma' = (ewma + 1) \div 2
    /\ streak' = 1
    /\ last' = chunk[h]
    /\ lastAt' = now[h]
    /\ trail' = Extended(chunk[h])
    /\ steady' = FALSE
    /\ burst' = 0
    /\ Goes(h, IF Armed(streak', ewma') THEN "schedule" ELSE "idle")
    /\ UNCHANGED exists

\* Schedule(objectKey, chunkIndex + 1), and Record returns.
Schedule(h) ==
    /\ hpc[h] = "schedule"
    /\ hpc' = [hpc EXCEPT ![h] = "idle"]
    /\ UNCHANGED <<clock, chunk, now, exists, last, lastAt, streak, ewma, trail, steady, burst>>

Next ==
    \/ Tick
    \/ \E h \in Handlers :
        \/ \E c \in Chunk : Record(h, c)
        \/ FirstRead(h) \/ SameChunk(h) \/ SequentialRead(h) \/ OtherRead(h)
        \/ Schedule(h)

Spec == Init /\ [][Next]_vars

----------------------------------------------------------------------------
(* Properties. *)

\* The types of the tracker's state.
TypeOK ==
    /\ clock \in 0 .. MaxTime
    /\ hpc \in [Handlers -> {"idle", "lock", "schedule"}]
    /\ chunk \in [Handlers -> Chunk]
    /\ now \in [Handlers -> 0 .. MaxTime]
    /\ exists \in BOOLEAN
    /\ last \in Chunk
    /\ lastAt \in 0 .. MaxTime
    /\ streak \in 0 .. MaxChunk + 1
    /\ ewma \in 0 .. Unit
    /\ trail \in Seq(Chunk) /\ Len(trail) <= StreakThreshold
    /\ steady \in BOOLEAN
    /\ burst \in 0 .. MaxChunk + 1

\* Some handler leaves the lock with shouldPrefetch set.
Fires == \E h \in Handlers : hpc[h] # "schedule" /\ hpc'[h] = "schedule"

\* configs/proxy.config.yaml:55: the prefetcher is only sent ahead of
\* StreakThreshold chunks in a row, whoever read them: requests that mix in
\* other chunks, or overtake one another, cannot make up a streak.
PrefetchFollowsARun ==
    [][Fires =>
        /\ Len(trail') = StreakThreshold
        /\ \A j \in 1 .. StreakThreshold : trail'[j] = last' - (StreakThreshold - j)]_vars

\* configs/proxy.config.yaml:59: a reader that is fast and sequential from its
\* first read on is prefetched for at its StreakThreshold-th chunk, and at each one
\* after it.
SteadyReaderIsServed ==
    [][(steady' /\ streak' # streak /\ streak' > 1 /\ streak' >= StreakThreshold) => Fires]_vars

\* No past keeps a fast reader waiting.  After any breaks, overtakings and slow
\* reads, StreakThreshold chunks in a row (three, if it is less), each but the first
\* read at twice the velocity threshold, are prefetched for, and so is each one
\* more.  (At the threshold itself the average can stay just below it for good.)
FastReaderRecovers ==
    [][(burst' > burst /\ burst' >= 2 /\ burst' + 1 >= StreakThreshold) => Fires]_vars

=============================================================================
