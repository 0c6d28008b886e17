------------------------ MODULE VelocityTrackerProofs ------------------------
(***************************************************************************)
(* Proofs about VelocityTracker for any number of handlers, any thresholds *)
(* and any behaviour of the clock within its bound.  TrailKept ties the    *)
(* streak, a number, to the chunks it stands for; SpeedKept ties the       *)
(* smoothed velocity to what was measured, BurstKept to the last two       *)
(* measurements alone.                                                     *)
(***************************************************************************)
EXTENDS VelocityTracker, SequenceTheorems, TLAPS

----------------------------------------------------------------------------
(* Arithmetic of the smoothing. *)

\* A smoothed velocity lies between the measurement and what it was before.
LEMMA BlendBetween ==
    ASSUME NEW e \in Nat, NEW v \in Nat, NEW b \in Nat
    PROVE  /\ Blend(e, v) \in Nat
           /\ (e <= b /\ v <= b) => Blend(e, v) <= b
           /\ (v >= b /\ (e >= b \/ e = 0)) => Blend(e, v) >= b
  BY DEF Blend

\* From any velocity the first measurement of twice b brings the average above
\* 0.6 * b, roundings included, and the second one to b.
LEMMA BlendRecovers ==
    ASSUME NEW e \in Nat, NEW v \in Nat, NEW b \in Nat, b >= 27, v >= 2 * b
    PROVE  /\ 10 * Blend(e, v) >= 6 * b - 9
           /\ 10 * e >= 6 * b - 9 => Blend(e, v) >= b
<1>1. CASE e = 0
  BY <1>1 DEF Blend
<1>2. CASE e # 0
  <2>1. Blend(e, v) = (3 * v + 7 * e) \div 10
    BY <1>2 DEF Blend
  <2> DEFINE q == (3 * v + 7 * e) \div 10
  <2>2. q \in Nat /\ 10 * q >= 3 * v + 7 * e - 9
    OBVIOUS
  <2> HIDE DEF q
  <2>3. 10 * q >= 6 * b - 9
    BY <2>2
  <2>4. ASSUME 10 * e >= 6 * b - 9 PROVE q >= b
    <3>1. 100 * q >= 60 * b + 70 * e - 90
      BY <2>2
    <3>2. 70 * e >= 42 * b - 63
      BY <2>4
    <3> QED
      BY <2>2, <3>1, <3>2
  <2> QED
    BY <2>1, <2>3, <2>4 DEF q
<1> QED
  BY <1>1, <1>2

\* Halving, rounded up, does not raise a velocity.
LEMMA HalfIsLess == \A e \in Nat : (e + 1) \div 2 \in Nat /\ (e + 1) \div 2 <= e
  OBVIOUS

\* A quotient of naturals is one, and no greater.
LEMMA Quotients == \A a \in Nat, b \in Nat \ {0} : a \div b \in Nat /\ a \div b <= a
<1> SUFFICES ASSUME NEW a \in Nat, NEW b \in Nat \ {0}
             PROVE  a \div b \in Nat /\ a \div b <= a
  OBVIOUS
<1> DEFINE q == a \div b
<1>1. q \in Nat /\ b * q <= a
  OBVIOUS
<1> HIDE DEF q
<1>2. q <= b * q
  BY <1>1
<1>3. q <= a
  BY <1>1, <1>2
<1> QED
  BY <1>1, <1>3 DEF q

----------------------------------------------------------------------------
(* The trail. *)

\* What Extended makes of a trail: the chunk at its end, the others kept.
LEMMA ExtendedTrail ==
    ASSUME trail \in Seq(Chunk), Len(trail) <= StreakThreshold, NEW c \in Chunk
    PROVE  LET n == Len(trail)
               m == IF n < StreakThreshold THEN n + 1 ELSE StreakThreshold
           IN /\ Extended(c) \in Seq(Chunk) /\ Len(Extended(c)) = m
              /\ m > 0 => Extended(c)[m] = c
              /\ \A j \in 1 .. m - 1 : Extended(c)[m - j] = trail[n + 1 - j]
<1> DEFINE n == Len(trail)
           t == Append(trail, c)
<1>1. StreakThreshold \in Nat /\ n \in Nat /\ n <= StreakThreshold
  BY VelocityTrackerAssumption
<1>2. /\ t \in Seq(Chunk) /\ Len(t) = n + 1 /\ t[n + 1] = c
      /\ \A k \in 1 .. n : t[k] = trail[k]
  OBVIOUS
<1>3. Extended(c) = IF n + 1 > StreakThreshold THEN Tail(t) ELSE t
  BY <1>2 DEF Extended
<1> HIDE DEF t
<1>4. CASE n < StreakThreshold
  BY <1>1, <1>2, <1>3, <1>4
<1>5. CASE n = StreakThreshold
  <2>1. /\ Tail(t) \in Seq(Chunk) /\ Len(Tail(t)) = n
        /\ \A k \in 1 .. n : Tail(t)[k] = t[k + 1]
    BY <1>1, <1>2
  <2>2. Extended(c) = Tail(t)
    BY <1>1, <1>3, <1>5
  <2>3. n > 0 => Extended(c)[n] = c
    BY <1>1, <1>2, <2>1, <2>2
  <2>4. \A j \in 1 .. n - 1 : Extended(c)[n - j] = trail[n + 1 - j]
    <3> SUFFICES ASSUME NEW j \in 1 .. n - 1 PROVE Extended(c)[n - j] = trail[n + 1 - j]
      OBVIOUS
    <3>1. n - j \in 1 .. n /\ n + 1 - j \in 1 .. n /\ (n - j) + 1 = n + 1 - j
      BY <1>1
    <3> QED
      BY <1>2, <2>1, <2>2, <3>1
  <2> QED
    BY <1>1, <1>5, <2>1, <2>2, <2>3, <2>4
<1> QED
  BY <1>1, <1>4, <1>5

----------------------------------------------------------------------------
(* The inductive invariant, in parts. *)

\* A streak has at least one read, and cannot have begun before chunk 0.
StreakKept ==
    /\ exists => streak >= 1 /\ streak <= last + 1
    /\ ~exists => streak = 0 /\ ewma = 0

\* The last streak chunks, as far as the trail goes back, were read in a row.
TrailKept ==
    exists =>
        /\ streak <= Len(trail) \/ Len(trail) = StreakThreshold
        /\ \A j \in 0 .. Len(trail) - 1 : j < streak => trail[Len(trail) - j] = last - j

\* The velocity reaches the threshold with the first measurement if all were fast.
SpeedKept ==
    steady => ewma >= VelocityThreshold \/ (ewma = 0 /\ streak <= 1)

\* The reads of a burst are part of the streak; the first raises the velocity near
\* the threshold and the second above it, from wherever it was.
BurstKept ==
    /\ burst > 0 => exists /\ burst < streak /\ 10 * ewma >= 6 * VelocityThreshold - 9
    /\ burst > 1 => ewma >= VelocityThreshold

Inv == TypeOK /\ StreakKept /\ TrailKept /\ SpeedKept /\ BurstKept

\* A fresh tracker knows nothing.
LEMMA InitInv == Init => Inv
<1> USE VelocityTrackerAssumption
<1> SUFFICES ASSUME Init PROVE Inv
  OBVIOUS
<1>1. TypeOK
  <2>1. trail \in Seq(Chunk) /\ Len(trail) <= StreakThreshold
    BY DEF Init
  <2>2. steady \in BOOLEAN /\ exists \in BOOLEAN
    BY DEF Init
  <2>3. /\ clock \in 0 .. MaxTime /\ lastAt \in 0 .. MaxTime
        /\ streak \in 0 .. MaxChunk + 1 /\ ewma \in 0 .. Unit /\ last \in Chunk
        /\ burst \in 0 .. MaxChunk + 1
    BY DEF Init, Chunk
  <2>4. /\ hpc \in [Handlers -> {"idle", "lock", "schedule"}]
        /\ chunk \in [Handlers -> Chunk] /\ now \in [Handlers -> 0 .. MaxTime]
    BY DEF Init, Chunk
  <2> QED
    BY <2>1, <2>2, <2>3, <2>4 DEF TypeOK
<1> QED
  BY <1>1 DEF Init, Inv, StreakKept, TrailKept, SpeedKept, BurstKept

\* What a handler does outside the lock leaves the tracker's state alone.
LEMMA OutsideStep ==
    ASSUME Inv, NEW h \in Handlers,
           Tick \/ (\E c \in Chunk : Record(h, c)) \/ SameChunk(h) \/ Schedule(h)
    PROVE  Inv'
<1>1. UNCHANGED <<exists, last, lastAt, streak, ewma, trail, steady, burst>>
  BY DEF Tick, Record, SameChunk, Schedule
<1>2. TypeOK'
  <2>1. CASE Tick
    BY <1>1, <2>1, VelocityTrackerAssumption DEF Inv, TypeOK, Tick
  <2>2. CASE \E c \in Chunk : Record(h, c)
    BY <1>1, <2>2 DEF Inv, TypeOK, Record
  <2>3. CASE SameChunk(h)
    BY <1>1, <2>3 DEF Inv, TypeOK, SameChunk, Goes, callVars
  <2>4. CASE Schedule(h)
    BY <1>1, <2>4 DEF Inv, TypeOK, Schedule
  <2> QED
    BY <2>1, <2>2, <2>3, <2>4
<1> QED
  BY <1>1, <1>2 DEF Inv, StreakKept, TrailKept, SpeedKept, BurstKept

\* The trail after a read that made a difference: if the streak goes on, so does
\* the run, and else it begins with this chunk.
LEMMA TrailStep ==
    ASSUME Inv, NEW c \in Chunk, trail' = Extended(c), last' = c, exists',
           \/ streak' = 1
           \/ exists /\ streak' = streak + 1 /\ c = last + 1
    PROVE  TrailKept' /\ trail' \in Seq(Chunk) /\ Len(trail') <= StreakThreshold
<1> DEFINE n == Len(trail)
           m == IF n < StreakThreshold THEN n + 1 ELSE StreakThreshold
<1>1. /\ trail \in Seq(Chunk) /\ n \in Nat /\ n <= StreakThreshold
      /\ StreakThreshold \in Nat /\ m \in Nat /\ c \in Nat /\ streak \in Nat /\ last \in Nat
  BY VelocityTrackerAssumption DEF Inv, TypeOK, Chunk
<1>2. /\ trail' \in Seq(Chunk) /\ Len(trail') = m
      /\ m > 0 => trail'[m] = c
      /\ \A j \in 1 .. m - 1 : trail'[m - j] = trail[n + 1 - j]
  BY <1>1, ExtendedTrail
<1>3. CASE streak' = 1
  <2>1. 1 <= m \/ m = StreakThreshold
    BY <1>1
  <2>2. \A j \in 0 .. m - 1 : j < streak' => trail'[m - j] = last' - j
    BY <1>1, <1>2, <1>3
  <2> QED
    BY <1>1, <1>2, <1>3, <2>1, <2>2 DEF TrailKept
<1>4. CASE exists /\ streak' = streak + 1 /\ c = last + 1
  <2>1. /\ streak <= n \/ n = StreakThreshold
        /\ \A j \in 0 .. n - 1 : j < streak => trail[n - j] = last - j
    BY <1>4 DEF Inv, TrailKept
  <2>2. streak' <= m \/ m = StreakThreshold
    BY <1>1, <1>4, <2>1
  <2>3. ASSUME NEW j \in 0 .. m - 1, j < streak' PROVE trail'[m - j] = last' - j
    <3>1. CASE j = 0
      BY <1>1, <1>2, <3>1
    <3>2. CASE j > 0
      <4>1. j - 1 \in 0 .. n - 1 /\ j - 1 < streak /\ n - (j - 1) = n + 1 - j
        BY <1>1, <1>4, <2>3, <3>2
      <4>2. trail[n - (j - 1)] = last - (j - 1)
        BY <2>1, <4>1
      <4>3. trail'[m - j] = trail[n + 1 - j]
        BY <1>1, <1>2, <3>2
      <4> QED
        BY <1>1, <1>4, <4>1, <4>2, <4>3
    <3> QED
      BY <1>1, <3>1, <3>2
  <2> QED
    BY <1>1, <1>2, <2>2, <2>3 DEF TrailKept
<1> QED
  BY <1>3, <1>4

\* The first read of an object.
LEMMA FirstReadStep == ASSUME Inv, NEW h \in Handlers, FirstRead(h) PROVE Inv'
<1> USE VelocityTrackerAssumption
<1>1. /\ exists' = TRUE /\ last' = chunk[h] /\ lastAt' = now[h] /\ streak' = 1
      /\ trail' = Extended(chunk[h]) /\ UNCHANGED <<clock, chunk, now, ewma, steady, burst>>
      /\ hpc' = [hpc EXCEPT ![h] = "idle"] /\ ~exists
  BY DEF FirstRead, Goes, callVars
<1>2. chunk[h] \in Chunk /\ now[h] \in 0 .. MaxTime
  BY DEF Inv, TypeOK
<1>3. TrailKept' /\ trail' \in Seq(Chunk) /\ Len(trail') <= StreakThreshold
  BY <1>1, <1>2, TrailStep
<1>4. TypeOK'
  BY <1>1, <1>2, <1>3 DEF Inv, TypeOK
<1>5. StreakKept' /\ SpeedKept' /\ BurstKept'
  BY <1>1, <1>2 DEF Inv, TypeOK, StreakKept, SpeedKept, BurstKept, Chunk
<1> QED
  BY <1>3, <1>4, <1>5 DEF Inv

\* The next chunk: the streak grows and the velocity is averaged.
LEMMA SequentialReadStep == ASSUME Inv, NEW h \in Handlers, SequentialRead(h) PROVE Inv'
<1> USE VelocityTrackerAssumption
<1>1. /\ exists /\ exists' = exists /\ last' = chunk[h] /\ lastAt' = now[h]
      /\ chunk[h] = last + 1 /\ now[h] - lastAt > 0
      /\ streak' = streak + 1 /\ trail' = Extended(chunk[h])
      /\ ewma' = Blend(ewma, instant(h))
      /\ UNCHANGED <<clock, chunk, now>>
      /\ hpc' \in {[hpc EXCEPT ![h] = "idle"], [hpc EXCEPT ![h] = "schedule"]}
  BY DEF SequentialRead, Sequential, Goes, callVars
<1>2. steady' = (steady /\ instant(h) >= VelocityThreshold)
  BY DEF SequentialRead
<1>11. burst' = IF instant(h) >= 2 * VelocityThreshold THEN burst + 1 ELSE 0
  BY DEF SequentialRead
<1>3. /\ chunk[h] \in Chunk /\ now[h] \in 0 .. MaxTime /\ lastAt \in 0 .. MaxTime
      /\ ewma \in Nat /\ ewma <= Unit /\ streak \in Nat /\ last \in Nat /\ Unit \in Nat
  BY DEF Inv, TypeOK, Chunk
<1>4. instant(h) \in Nat /\ instant(h) <= Unit
  <2>1. now[h] - lastAt \in Nat \ {0}
    BY <1>1, <1>3
  <2> QED
    BY <1>3, <2>1, Quotients DEF instant
<1>5. ewma' \in Nat /\ ewma' <= Unit
  BY <1>1, <1>3, <1>4, BlendBetween
<1>6. TrailKept' /\ trail' \in Seq(Chunk) /\ Len(trail') <= StreakThreshold
  BY <1>1, <1>3, TrailStep
<1>7. StreakKept'
  BY <1>1, <1>3 DEF Inv, StreakKept
<1>10. BurstKept' /\ burst' \in 0 .. MaxChunk + 1
  <2>1. burst \in Nat /\ (burst > 0 => burst < streak) /\ streak >= 1
    BY <1>1 DEF Inv, TypeOK, BurstKept, StreakKept
  <2>2. CASE ~(instant(h) >= 2 * VelocityThreshold)
    <3>1. burst' = 0
      BY <1>11, <2>2
    <3> QED
      BY <3>1, <1>3 DEF BurstKept, Inv, TypeOK
  <2>3. CASE instant(h) >= 2 * VelocityThreshold
    <3>1. burst' = burst + 1
      BY <1>11, <2>3
    <3>2. /\ 10 * ewma' >= 6 * VelocityThreshold - 9
          /\ 10 * ewma >= 6 * VelocityThreshold - 9 => ewma' >= VelocityThreshold
      BY <1>1, <1>3, <1>4, <2>3, BlendRecovers
    <3>3. burst > 0 => 10 * ewma >= 6 * VelocityThreshold - 9
      BY DEF Inv, BurstKept
    <3>4. burst' < streak' /\ streak' <= MaxChunk + 1
      BY <1>1, <1>3, <1>7, <2>1, <3>1 DEF StreakKept, Chunk
    <3> QED
      BY <1>1, <1>3, <2>1, <3>1, <3>2, <3>3, <3>4 DEF BurstKept
  <2> QED
    BY <2>2, <2>3
<1>8. TypeOK'
  <2>1. hpc' \in [Handlers -> {"idle", "lock", "schedule"}]
    BY <1>1 DEF Inv, TypeOK
  <2>2. streak' \in 0 .. MaxChunk + 1
    BY <1>1, <1>3, <1>7 DEF StreakKept, Chunk
  <2>3. steady' \in BOOLEAN
    BY <1>2
  <2> QED
    BY <1>1, <1>3, <1>5, <1>6, <1>10, <2>1, <2>2, <2>3 DEF Inv, TypeOK
<1>9. SpeedKept'
  <2>1. ASSUME steady' PROVE ewma' >= VelocityThreshold
    <3>1. instant(h) >= VelocityThreshold /\ (ewma >= VelocityThreshold \/ ewma = 0)
      BY <1>2, <2>1 DEF Inv, SpeedKept
    <3> QED
      BY <1>1, <1>3, <1>4, <3>1, BlendBetween
  <2> QED
    BY <2>1 DEF SpeedKept
<1> QED
  BY <1>6, <1>7, <1>8, <1>9, <1>10 DEF Inv

\* Any other read: the streak begins anew and the velocity is halved.
LEMMA OtherReadStep == ASSUME Inv, NEW h \in Handlers, OtherRead(h) PROVE Inv'
<1> USE VelocityTrackerAssumption
<1>1. /\ exists /\ exists' = exists /\ last' = chunk[h] /\ lastAt' = now[h]
      /\ streak' = 1 /\ trail' = Extended(chunk[h])
      /\ ewma' = (ewma + 1) \div 2 /\ steady' = FALSE
      /\ burst' = 0 /\ UNCHANGED <<clock, chunk, now>>
      /\ hpc' \in {[hpc EXCEPT ![h] = "idle"], [hpc EXCEPT ![h] = "schedule"]}
  BY DEF OtherRead, Goes, callVars
<1>2. chunk[h] \in Chunk /\ now[h] \in 0 .. MaxTime /\ ewma \in Nat /\ ewma <= Unit /\ Unit \in Nat
  BY DEF Inv, TypeOK
<1>3. ewma' \in Nat /\ ewma' <= ewma
  BY <1>1, <1>2, HalfIsLess
<1>4. TrailKept' /\ trail' \in Seq(Chunk) /\ Len(trail') <= StreakThreshold
  BY <1>1, <1>2, TrailStep
<1>5. TypeOK'
  <2>1. hpc' \in [Handlers -> {"idle", "lock", "schedule"}]
    BY <1>1 DEF Inv, TypeOK
  <2>2. ewma' \in 0 .. Unit /\ streak' \in 0 .. MaxChunk + 1 /\ burst' \in 0 .. MaxChunk + 1
    BY <1>1, <1>2, <1>3
  <2>3. steady' \in BOOLEAN
    BY <1>1 DEF Inv, TypeOK
  <2> QED
    BY <1>1, <1>2, <1>4, <2>1, <2>2, <2>3 DEF Inv, TypeOK
<1>6. StreakKept'
  BY <1>1, <1>2 DEF StreakKept, Chunk
<1>7. SpeedKept'
  BY <1>1 DEF SpeedKept
<1> QED
  BY <1>1, <1>4, <1>5, <1>6, <1>7 DEF Inv, BurstKept

----------------------------------------------------------------------------
(* The theorems. *)

\* Every step keeps the invariant.
LEMMA NextInv == Inv /\ [Next]_vars => Inv'
<1> SUFFICES ASSUME Inv, [Next]_vars PROVE Inv'
  OBVIOUS
<1>1. CASE UNCHANGED vars
  BY <1>1 DEF vars, Inv, TypeOK, StreakKept, TrailKept, SpeedKept, BurstKept
<1>2. CASE Tick
  <2>1. UNCHANGED <<exists, last, lastAt, streak, ewma, trail, steady, burst>> /\ TypeOK'
    BY <1>2, VelocityTrackerAssumption DEF Tick, Inv, TypeOK
  <2> QED
    BY <2>1 DEF Inv, StreakKept, TrailKept, SpeedKept, BurstKept
<1> QED
  BY <1>1, <1>2, OutsideStep, FirstReadStep, SequentialReadStep, OtherReadStep DEF Next

\* The invariant holds of every tracker.
THEOREM Invariance == Spec => []Inv
  BY InitInv, NextInv, PTL DEF Spec

\* The tracker's state keeps its types; a streak is never longer than the object
\* (predictor.go:10-38).
THEOREM TypesHold == Spec => []TypeOK
  BY Invariance, PTL DEF Inv

\* Handlers that interleave, or overtake one another between clock and lock, make
\* up no streak: prefetching follows StreakThreshold chunks in a row (predictor.go:62-95).
THEOREM RunsAreReal == Spec => PrefetchFollowsARun
<1> DEFINE Run ==
        Fires =>
            /\ Len(trail') = StreakThreshold
            /\ \A j \in 1 .. StreakThreshold : trail'[j] = last' - (StreakThreshold - j)
<1>1. Inv /\ [Next]_vars => [Run]_vars
  <2> SUFFICES ASSUME Inv, [Next]_vars, Fires
               PROVE  /\ Len(trail') = StreakThreshold
                      /\ \A j \in 1 .. StreakThreshold : trail'[j] = last' - (StreakThreshold - j)
    OBVIOUS
  <2>1. Inv'
    BY NextInv
  <2>2. PICK g \in Handlers : hpc[g] # "schedule" /\ hpc'[g] = "schedule"
    BY DEF Fires
  <2>3. exists' /\ streak' >= StreakThreshold
    <3>1. ASSUME NEW h \in Handlers, hpc' = [hpc EXCEPT ![h] = "idle"] PROVE FALSE
      BY <2>2, <3>1 DEF Inv, TypeOK
    <3>2. ASSUME NEW h \in Handlers, NEW c \in Chunk, Record(h, c) PROVE FALSE
      BY <2>2, <3>2 DEF Record, Inv, TypeOK
    <3>3. ASSUME NEW h \in Handlers, FirstRead(h) \/ SameChunk(h) \/ Schedule(h) PROVE FALSE
      BY <3>1, <3>3 DEF FirstRead, SameChunk, Schedule, Goes
    <3>4. ASSUME NEW h \in Handlers, SequentialRead(h) PROVE exists' /\ streak' >= StreakThreshold
      BY <3>1, <3>4 DEF SequentialRead, Goes, Armed
    <3>5. ASSUME NEW h \in Handlers, OtherRead(h) PROVE exists' /\ streak' >= StreakThreshold
      BY <3>1, <3>5 DEF OtherRead, Goes, Armed
    <3>6. ~ Tick /\ ~ UNCHANGED vars
      BY <2>2 DEF Tick, vars
    <3> QED
      BY <3>2, <3>3, <3>4, <3>5, <3>6 DEF Next
  <2>4. /\ Len(trail') \in Nat /\ Len(trail') <= StreakThreshold /\ streak' \in Nat
        /\ last' \in Nat /\ StreakThreshold \in Nat
    BY <2>1, VelocityTrackerAssumption DEF Inv, TypeOK, Chunk
  <2>5. /\ streak' <= Len(trail') \/ Len(trail') = StreakThreshold
        /\ \A j \in 0 .. Len(trail') - 1 : j < streak' => trail'[Len(trail') - j] = last' - j
    BY <2>1, <2>3 DEF Inv, TrailKept
  <2>6. Len(trail') = StreakThreshold
    BY <2>3, <2>4, <2>5
  <2>7. ASSUME NEW j \in 1 .. StreakThreshold PROVE trail'[j] = last' - (StreakThreshold - j)
    <3>1. /\ StreakThreshold - j \in 0 .. Len(trail') - 1 /\ StreakThreshold - j < streak'
          /\ Len(trail') - (StreakThreshold - j) = j
      BY <2>3, <2>4, <2>6
    <3> QED
      BY <2>5, <3>1
  <2> QED
    BY <2>6, <2>7
<1> QED
  BY <1>1, Invariance, PTL DEF Spec, PrefetchFollowsARun

\* A reader that is fast and sequential from the start is prefetched for, at every
\* chunk from the StreakThreshold-th on (predictor.go:62-95).
THEOREM SteadyReadersAreServed == Spec => SteadyReaderIsServed
<1> DEFINE Served ==
        (steady' /\ streak' # streak /\ streak' > 1 /\ streak' >= StreakThreshold) => Fires
<1>1. Inv /\ [Next]_vars => [Served]_vars
  <2> SUFFICES ASSUME Inv, [Next]_vars, steady', streak' # streak, streak' > 1,
                      streak' >= StreakThreshold
               PROVE  Fires
    OBVIOUS
  <2>1. Inv'
    BY NextInv
  <2>2. PICK h \in Handlers : SequentialRead(h)
    <3>1. ASSUME NEW h \in Handlers, NEW c \in Chunk, Record(h, c) PROVE FALSE
      BY <3>1 DEF Record
    <3>2. ASSUME NEW h \in Handlers, FirstRead(h) PROVE FALSE
      BY <3>2 DEF FirstRead
    <3>3. ASSUME NEW h \in Handlers, SameChunk(h) \/ Schedule(h) PROVE FALSE
      BY <3>3 DEF SameChunk, Schedule
    <3>4. ASSUME NEW h \in Handlers, OtherRead(h) PROVE FALSE
      BY <3>4 DEF OtherRead
    <3>5. ~ Tick /\ ~ UNCHANGED vars
      BY DEF Tick, vars
    <3> QED
      BY <3>1, <3>2, <3>3, <3>4, <3>5 DEF Next
  <2>3. ewma' >= VelocityThreshold
    BY <2>1 DEF Inv, SpeedKept, TypeOK
  <2>4. hpc[h] = "lock" /\ hpc' = [hpc EXCEPT ![h] = "schedule"]
    BY <2>2, <2>3 DEF SequentialRead, Armed, Goes
  <2> QED
    BY <2>4 DEF Fires, Inv, TypeOK
<1> QED
  BY <1>1, Invariance, PTL DEF Spec, SteadyReaderIsServed

\* Whatever the object's readers did before, StreakThreshold chunks in a row that
\* are read fast enough are prefetched for (predictor.go:62-95).
THEOREM FastReadersRecover == Spec => FastReaderRecovers
<1> DEFINE Recovers ==
        (burst' > burst /\ burst' >= 2 /\ burst' + 1 >= StreakThreshold) => Fires
<1>1. Inv /\ [Next]_vars => [Recovers]_vars
  <2> SUFFICES ASSUME Inv, [Next]_vars, burst' > burst, burst' >= 2,
                      burst' + 1 >= StreakThreshold
               PROVE  Fires
    OBVIOUS
  <2>1. Inv'
    BY NextInv
  <2>2. burst \in Nat /\ burst' \in Nat /\ burst' # burst
    BY <2>1 DEF Inv, TypeOK
  <2>3. PICK h \in Handlers : SequentialRead(h)
    <3>1. ASSUME NEW h \in Handlers, NEW c \in Chunk, Record(h, c) PROVE FALSE
      BY <2>2, <3>1 DEF Record
    <3>2. ASSUME NEW h \in Handlers, FirstRead(h) \/ SameChunk(h) \/ Schedule(h) PROVE FALSE
      BY <2>2, <3>2 DEF FirstRead, SameChunk, Schedule
    <3>3. ASSUME NEW h \in Handlers, OtherRead(h) PROVE FALSE
      BY <3>3 DEF OtherRead
    <3>4. ~ Tick /\ ~ UNCHANGED vars
      BY <2>2 DEF Tick, vars
    <3> QED
      BY <3>1, <3>2, <3>3, <3>4 DEF Next
  <2>4. ewma' >= VelocityThreshold /\ streak' >= StreakThreshold
    <3>1. burst' > 0 /\ burst' > 1
      BY <2>2
    <3>2. burst' < streak' /\ ewma' >= VelocityThreshold
      BY <2>1, <3>1 DEF Inv, BurstKept
    <3>3. streak' \in Nat
      BY <2>1 DEF Inv, TypeOK
    <3>4. streak' >= StreakThreshold
      <4> SUFFICES ASSUME NEW b \in Nat, NEW n \in Nat, b + 1 >= StreakThreshold, b < n
                   PROVE  n >= StreakThreshold
        BY <2>2, <3>2, <3>3
      <4> QED
        BY VelocityTrackerAssumption
    <3> QED
      BY <3>2, <3>4
  <2>5. hpc[h] = "lock" /\ hpc' = [hpc EXCEPT ![h] = "schedule"]
    BY <2>3, <2>4 DEF SequentialRead, Armed, Goes
  <2> QED
    BY <2>5 DEF Fires, Inv, TypeOK
<1> QED
  BY <1>1, Invariance, PTL DEF Spec, FastReaderRecovers

=============================================================================
