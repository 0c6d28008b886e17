------------------------- MODULE PrefetchPoolProofs -------------------------
(***************************************************************************)
(* Proofs about PrefetchPool for any number of handlers and workers, any   *)
(* queue and any look-ahead.  The conservation laws are inductive by       *)
(* themselves, since a step moves at most one goroutine from one place to  *)
(* another (OneMoves).  The types need to know that a handler at its       *)
(* metrics still has that job to go (SendsLeft), and that only a shutdown  *)
(* that timed out makes a handler panic needs what main has seen when it   *)
(* is where (ShutdownInOrder).                                             *)
(***************************************************************************)
EXTENDS PrefetchPool, FiniteSetTheorems, TLAPS

\* What a condition counts for.
Ind(b) == IF b THEN 1 ELSE 0

\* Two finite sets that agree on everything but x.
LEMMA OneMoves ==
    ASSUME NEW F, NEW G, IsFiniteSet(F), IsFiniteSet(G), NEW x,
           \A y : y # x => (y \in F <=> y \in G)
    PROVE  Cardinality(G) = Cardinality(F) - Ind(x \in F) + Ind(x \in G)
<1>1. Cardinality(F) \in Nat /\ Cardinality(G) \in Nat
  BY FS_CardinalityType
<1>2. CASE x \in F <=> x \in G
  <2>1. F = G
    BY <1>2
  <2>2. Ind(x \in F) = Ind(x \in G) /\ Ind(x \in F) \in {0, 1}
    BY <2>1 DEF Ind
  <2> QED
    BY <1>1, <2>1, <2>2
<1>3. CASE x \in F /\ x \notin G
  <2>1. G = F \ {x}
    BY <1>3
  <2>2. Cardinality(G) = Cardinality(F) - 1
    BY <1>3, <2>1, FS_RemoveElement
  <2> QED
    BY <1>1, <1>3, <2>2 DEF Ind
<1>4. CASE x \notin F /\ x \in G
  <2>1. G = F \union {x}
    BY <1>4
  <2>2. Cardinality(G) = Cardinality(F) + 1
    BY <1>4, <2>1, FS_AddElement
  <2> QED
    BY <1>1, <1>4, <2>2 DEF Ind
<1> QED
  BY <1>2, <1>3, <1>4

\* The handlers in A when only h moves.
LEMMA HandlerMoves ==
    ASSUME NEW h \in Handlers, NEW A,
           \A g \in Handlers : g # h => hpc'[g] = hpc[g]
    PROVE  /\ Cardinality(HandlersAt(A)) \in Nat
           /\ Cardinality({g \in Handlers : hpc'[g] \in A}) =
                Cardinality(HandlersAt(A)) - Ind(hpc[h] \in A) + Ind(hpc'[h] \in A)
<1> DEFINE F == HandlersAt(A)
           G == {g \in Handlers : hpc'[g] \in A}
<1>1. IsFiniteSet(F) /\ IsFiniteSet(G)
  BY PrefetchPoolAssumption, FS_Subset DEF HandlersAt
<1>2. (h \in F) = (hpc[h] \in A) /\ (h \in G) = (hpc'[h] \in A)
  BY DEF HandlersAt
<1>3. \A y : y # h => (y \in F <=> y \in G)
  BY DEF HandlersAt
<1>4. Cardinality(F) \in Nat
  BY <1>1, FS_CardinalityType
<1>5. Cardinality(G) = Cardinality(F) - Ind(h \in F) + Ind(h \in G)
  <2> HIDE DEF F, G
  <2> QED
    BY <1>1, <1>3, OneMoves
<1> QED
  BY <1>2, <1>4, <1>5 DEF Ind

\* The workers in A when only w moves.
LEMMA WorkerMoves ==
    ASSUME NEW w \in Workers, NEW A,
           \A v \in Workers : v # w => wpc'[v] = wpc[v]
    PROVE  /\ Cardinality(WorkersAt(A)) \in Nat
           /\ Cardinality({v \in Workers : wpc'[v] \in A}) =
                Cardinality(WorkersAt(A)) - Ind(wpc[w] \in A) + Ind(wpc'[w] \in A)
<1> DEFINE F == WorkersAt(A)
           G == {v \in Workers : wpc'[v] \in A}
<1>1. IsFiniteSet(F) /\ IsFiniteSet(G)
  BY PrefetchPoolAssumption, FS_Subset DEF WorkersAt
<1>2. (w \in F) = (wpc[w] \in A) /\ (w \in G) = (wpc'[w] \in A)
  BY DEF WorkersAt
<1>3. \A y : y # w => (y \in F <=> y \in G)
  BY DEF WorkersAt
<1>4. Cardinality(F) \in Nat
  BY <1>1, FS_CardinalityType
<1>5. Cardinality(G) = Cardinality(F) - Ind(w \in F) + Ind(w \in G)
  <2> HIDE DEF F, G
  <2> QED
    BY <1>1, <1>3, OneMoves
<1> QED
  BY <1>2, <1>4, <1>5 DEF Ind

----------------------------------------------------------------------------
(* The four counts of the conservation laws, and what a step does to them. *)

NSent    == Cardinality(HandlersAt({"sent"}))
NBetween == Cardinality(HandlersAt({"sent", "counted"}))
NTaken   == Cardinality(WorkersAt({"taken"}))
NBusy    == Cardinality(WorkersAt({"taken", "look", "fetch"}))

\* All four are numbers.
LEMMA CountsAreNumbers == NSent \in Nat /\ NBetween \in Nat /\ NTaken \in Nat /\ NBusy \in Nat
<1>1. \A A : IsFiniteSet(HandlersAt(A)) /\ IsFiniteSet(WorkersAt(A))
  BY PrefetchPoolAssumption, FS_Subset DEF HandlersAt, WorkersAt
<1> QED
  BY <1>1, FS_CardinalityType DEF NSent, NBetween, NTaken, NBusy

\* Handler h goes to "to".
LEMMA HandlerCounts ==
    ASSUME NEW h \in Handlers, NEW to, TypeOK, hpc' = [hpc EXCEPT ![h] = to]
    PROVE  /\ NSent' = NSent - Ind(hpc[h] \in {"sent"}) + Ind(to \in {"sent"})
           /\ NBetween' = NBetween - Ind(hpc[h] \in {"sent", "counted"})
                                   + Ind(to \in {"sent", "counted"})
<1>1. hpc'[h] = to /\ \A g \in Handlers : g # h => hpc'[g] = hpc[g]
  BY DEF TypeOK
<1>2. NSent' = NSent - Ind(hpc[h] \in {"sent"}) + Ind(hpc'[h] \in {"sent"})
  BY <1>1, HandlerMoves DEF NSent, HandlersAt
<1>3. NBetween' = NBetween - Ind(hpc[h] \in {"sent", "counted"})
                           + Ind(hpc'[h] \in {"sent", "counted"})
  BY <1>1, HandlerMoves DEF NBetween, HandlersAt
<1> QED
  BY <1>1, <1>2, <1>3

\* Worker w goes to "to".
LEMMA WorkerCounts ==
    ASSUME NEW w \in Workers, NEW to, TypeOK, wpc' = [wpc EXCEPT ![w] = to]
    PROVE  /\ NTaken' = NTaken - Ind(wpc[w] \in {"taken"}) + Ind(to \in {"taken"})
           /\ NBusy' = NBusy - Ind(wpc[w] \in {"taken", "look", "fetch"})
                             + Ind(to \in {"taken", "look", "fetch"})
<1>1. wpc'[w] = to /\ \A v \in Workers : v # w => wpc'[v] = wpc[v]
  BY DEF TypeOK
<1>2. NTaken' = NTaken - Ind(wpc[w] \in {"taken"}) + Ind(wpc'[w] \in {"taken"})
  BY <1>1, WorkerMoves DEF NTaken, WorkersAt
<1>3. NBusy' = NBusy - Ind(wpc[w] \in {"taken", "look", "fetch"})
                     + Ind(wpc'[w] \in {"taken", "look", "fetch"})
  BY <1>1, WorkerMoves DEF NBusy, WorkersAt
<1> QED
  BY <1>1, <1>2, <1>3

\* Nobody moves.
LEMMA CountsStay ==
    /\ UNCHANGED hpc => UNCHANGED <<NSent, NBetween>>
    /\ UNCHANGED wpc => UNCHANGED <<NTaken, NBusy>>
  BY DEF NSent, NBetween, NTaken, NBusy, HandlersAt, WorkersAt

----------------------------------------------------------------------------
(* The inductive invariant. *)

\* A handler that has sent a job has not counted it off yet.
SendsLeft == \A h \in Handlers : hpc[h] \in {"sent", "counted"} => left[h] > 0

\* main closes the channel in Stop, which it reaches when all handlers are idle
\* and will stay so, or when Shutdown has given up on them.
ShutdownInOrder ==
    /\ closed => mpc \in {"wait", "exited"}
    /\ (mpc \in {"stop", "close", "wait"} \/ closed) /\ ~timedOut =>
           \A h \in Handlers : hpc[h] = "idle"

Inv == TypeOK /\ SendsLeft /\ CountsAddUp /\ ShutdownInOrder /\ PanicOnlyAfterTimeout

\* The pool starts with no job, nobody at work and main serving.
LEMMA InitInv == Init => Inv
<1> SUFFICES ASSUME Init PROVE Inv
  OBVIOUS
<1>1. TypeOK
  <2>1. 0 \in 0 .. QueueDepth /\ 0 \in 0 .. LookAhead /\ 0 \in 0 .. MaxCalls
    BY PrefetchPoolAssumption
  <2>2. /\ hpc \in [Handlers -> {"idle", "send", "sent", "counted"}]
        /\ left \in [Handlers -> 0 .. LookAhead]
        /\ wpc \in [Workers -> {"ready", "taken", "look", "fetch", "done"}]
    BY <2>1 DEF Init
  <2>3. waiting \in 0 .. QueueDepth /\ calls \in 0 .. MaxCalls
    BY <2>1 DEF Init
  <2>4. /\ closed \in BOOLEAN /\ cancelled \in BOOLEAN
        /\ timedOut \in BOOLEAN /\ panicked \in BOOLEAN
    BY DEF Init
  <2>5. /\ gauge \in Int /\ queued \in Nat /\ dropped \in Nat
        /\ completed \in Nat /\ errors \in Nat /\ skipped \in Nat
        /\ mpc \in {"serving", "shutdown", "stop", "close", "wait", "exited"}
    BY DEF Init
  <2> QED
    BY <2>2, <2>3, <2>4, <2>5 DEF TypeOK
<1>4. SendsLeft /\ ShutdownInOrder /\ PanicOnlyAfterTimeout
  BY DEF Init, SendsLeft, ShutdownInOrder, PanicOnlyAfterTimeout
<1>2. /\ HandlersAt({"sent"}) = {} /\ HandlersAt({"sent", "counted"}) = {}
      /\ WorkersAt({"taken"}) = {} /\ WorkersAt({"taken", "look", "fetch"}) = {}
  BY DEF Init, HandlersAt, WorkersAt
<1>3. CountsAddUp
  BY <1>2, FS_EmptySet DEF Init, CountsAddUp, GaugeAccountsForQueue, JobsConserved
<1> QED
  BY <1>1, <1>3, <1>4 DEF Inv

\* The types hold after every step, and a handler's job is still to be counted off.
LEMMA NextTypes == TypeOK /\ SendsLeft /\ [Next]_vars => TypeOK' /\ SendsLeft'
<1> SUFFICES ASSUME TypeOK, SendsLeft, [Next]_vars PROVE TypeOK' /\ SendsLeft'
  OBVIOUS
<1> USE PrefetchPoolAssumption
<1>1. ASSUME NEW h \in Handlers, Begin(h) PROVE TypeOK' /\ SendsLeft'
  BY <1>1 DEF TypeOK, SendsLeft, Begin, chanVars, metricVars
<1>2. ASSUME NEW h \in Handlers, Send(h) PROVE TypeOK' /\ SendsLeft'
  BY <1>2 DEF TypeOK, SendsLeft, Send, chanVars, metricVars
<1>3. ASSUME NEW h \in Handlers, CountQueued(h) PROVE TypeOK' /\ SendsLeft'
  BY <1>3 DEF TypeOK, SendsLeft, CountQueued, chanVars, metricVars
<1>4. ASSUME NEW h \in Handlers, CountGauge(h) PROVE TypeOK' /\ SendsLeft'
  BY <1>4 DEF TypeOK, SendsLeft, CountGauge, chanVars, metricVars
<1>5. ASSUME NEW h \in Handlers, Drop(h) PROVE TypeOK' /\ SendsLeft'
  BY <1>5 DEF TypeOK, SendsLeft, Drop, chanVars, metricVars
<1>6. ASSUME NEW h \in Handlers, SendPanics(h) PROVE TypeOK' /\ SendsLeft'
  BY <1>6 DEF TypeOK, SendsLeft, SendPanics, chanVars, metricVars
<1>7. ASSUME NEW h \in Handlers, ScheduleEnds(h) PROVE TypeOK' /\ SendsLeft'
  BY <1>7 DEF TypeOK, SendsLeft, ScheduleEnds, chanVars, metricVars
<1>8. ASSUME NEW w \in Workers, SeeCancelled(w) PROVE TypeOK' /\ SendsLeft'
  BY <1>8 DEF TypeOK, SendsLeft, SeeCancelled, Goes, metricVars
<1>9. ASSUME NEW w \in Workers, Take(w) PROVE TypeOK' /\ SendsLeft'
  BY <1>9 DEF TypeOK, SendsLeft, Take, Goes, metricVars
<1>10. ASSUME NEW w \in Workers, SeeClosed(w) PROVE TypeOK' /\ SendsLeft'
  BY <1>10 DEF TypeOK, SendsLeft, SeeClosed, Goes, metricVars
<1>11. ASSUME NEW w \in Workers, Uncount(w) PROVE TypeOK' /\ SendsLeft'
  BY <1>11 DEF TypeOK, SendsLeft, Uncount, Goes, metricVars
<1>12. ASSUME NEW w \in Workers, Skip(w) PROVE TypeOK' /\ SendsLeft'
  BY <1>12 DEF TypeOK, SendsLeft, Skip, Goes, metricVars
<1>13. ASSUME NEW w \in Workers, StartFetch(w) PROVE TypeOK' /\ SendsLeft'
  BY <1>13 DEF TypeOK, SendsLeft, StartFetch, Goes, metricVars
<1>14. ASSUME NEW w \in Workers, Fetched(w) PROVE TypeOK' /\ SendsLeft'
  BY <1>14 DEF TypeOK, SendsLeft, Fetched, Goes, metricVars
<1>15. ASSUME NEW w \in Workers, FetchFails(w) PROVE TypeOK' /\ SendsLeft'
  BY <1>15 DEF TypeOK, SendsLeft, FetchFails, Goes, metricVars
<1>16. ASSUME Signal PROVE TypeOK' /\ SendsLeft'
  BY <1>16 DEF TypeOK, SendsLeft, Signal, MainGoes, metricVars
<1>17. ASSUME ShutdownDone PROVE TypeOK' /\ SendsLeft'
  BY <1>17 DEF TypeOK, SendsLeft, ShutdownDone, MainGoes, metricVars
<1>18. ASSUME ShutdownTimesOut PROVE TypeOK' /\ SendsLeft'
  BY <1>18 DEF TypeOK, SendsLeft, ShutdownTimesOut, MainGoes, metricVars
<1>19. ASSUME CancelWorkers PROVE TypeOK' /\ SendsLeft'
  BY <1>19 DEF TypeOK, SendsLeft, CancelWorkers, MainGoes, metricVars
<1>20. ASSUME CloseJobs PROVE TypeOK' /\ SendsLeft'
  BY <1>20 DEF TypeOK, SendsLeft, CloseJobs, MainGoes, metricVars
<1>21. ASSUME WaitReturns PROVE TypeOK' /\ SendsLeft'
  BY <1>21 DEF TypeOK, SendsLeft, WaitReturns, MainGoes, metricVars
<1>22. ASSUME ServerFails PROVE TypeOK' /\ SendsLeft'
  BY <1>22 DEF TypeOK, SendsLeft, ServerFails, MainGoes, metricVars
<1>23. ASSUME UNCHANGED vars PROVE TypeOK' /\ SendsLeft'
  BY <1>23 DEF TypeOK, SendsLeft, vars
<1> QED
  BY <1>1, <1>2, <1>3, <1>4, <1>5, <1>6, <1>7, <1>8, <1>9, <1>10, <1>11, <1>12,
     <1>13, <1>14, <1>15, <1>16, <1>17, <1>18, <1>19, <1>20, <1>21, <1>22, <1>23
  DEF Next, ScheduleStep, WorkerStep, FetchStep, StopStep, Exited

\* The gauge and the jobs stay accounted for.
LEMMA NextCounts == TypeOK /\ CountsAddUp /\ [Next]_vars => CountsAddUp'
<1> DEFINE Law == /\ gauge = waiting + NTaken - NBetween
                  /\ queued + NSent = waiting + NBusy + skipped + completed + errors
<1> SUFFICES ASSUME TypeOK, Law, [Next]_vars PROVE Law'
  BY DEF CountsAddUp, GaugeAccountsForQueue, JobsConserved, NSent, NBetween, NTaken, NBusy
<1>n. /\ NSent \in Nat /\ NBetween \in Nat /\ NTaken \in Nat /\ NBusy \in Nat
      /\ waiting \in Int /\ gauge \in Int /\ queued \in Int /\ completed \in Int
      /\ errors \in Int /\ skipped \in Int
  BY CountsAreNumbers, PrefetchPoolAssumption DEF TypeOK
<1>1. ASSUME NEW h \in Handlers, Begin(h) PROVE Law'
  <2>1. UNCHANGED <<NTaken, NBusy>>
    BY <1>1, CountsStay DEF Begin
  <2>2. /\ NSent' = NSent - Ind(hpc[h] \in {"sent"}) + Ind("send" \in {"sent"})
        /\ NBetween' = NBetween - Ind(hpc[h] \in {"sent", "counted"})
                                + Ind("send" \in {"sent", "counted"})
    BY <1>1, HandlerCounts DEF Begin
  <2> QED
    BY <1>1, <1>n, <2>1, <2>2 DEF Begin, Ind, chanVars, metricVars
<1>2. ASSUME NEW h \in Handlers, Send(h) PROVE Law'
  <2>1. UNCHANGED <<NTaken, NBusy>>
    BY <1>2, CountsStay DEF Send
  <2>2. /\ NSent' = NSent - Ind(hpc[h] \in {"sent"}) + Ind("sent" \in {"sent"})
        /\ NBetween' = NBetween - Ind(hpc[h] \in {"sent", "counted"})
                                + Ind("sent" \in {"sent", "counted"})
    BY <1>2, HandlerCounts DEF Send
  <2> QED
    BY <1>2, <1>n, <2>1, <2>2 DEF Send, Ind, chanVars, metricVars
<1>3. ASSUME NEW h \in Handlers, CountQueued(h) PROVE Law'
  <2>1. UNCHANGED <<NTaken, NBusy>>
    BY <1>3, CountsStay DEF CountQueued
  <2>2. /\ NSent' = NSent - Ind(hpc[h] \in {"sent"}) + Ind("counted" \in {"sent"})
        /\ NBetween' = NBetween - Ind(hpc[h] \in {"sent", "counted"})
                                + Ind("counted" \in {"sent", "counted"})
    BY <1>3, HandlerCounts DEF CountQueued
  <2> QED
    BY <1>3, <1>n, <2>1, <2>2 DEF CountQueued, Ind, chanVars, metricVars
<1>4. ASSUME NEW h \in Handlers, CountGauge(h) PROVE Law'
  <2>1. UNCHANGED <<NTaken, NBusy>>
    BY <1>4, CountsStay DEF CountGauge
  <2>2. /\ NSent' = NSent - Ind(hpc[h] \in {"sent"}) + Ind("send" \in {"sent"})
        /\ NBetween' = NBetween - Ind(hpc[h] \in {"sent", "counted"})
                                + Ind("send" \in {"sent", "counted"})
    BY <1>4, HandlerCounts DEF CountGauge
  <2> QED
    BY <1>4, <1>n, <2>1, <2>2 DEF CountGauge, Ind, chanVars, metricVars
<1>5. ASSUME NEW h \in Handlers, Drop(h) PROVE Law'
  <2>1. UNCHANGED <<NSent, NBetween, NTaken, NBusy>>
    BY <1>5, CountsStay DEF Drop
  <2> QED
    BY <1>5, <2>1 DEF Drop, chanVars
<1>6. ASSUME NEW h \in Handlers, SendPanics(h) PROVE Law'
  <2>1. UNCHANGED <<NTaken, NBusy>>
    BY <1>6, CountsStay DEF SendPanics
  <2>2. /\ NSent' = NSent - Ind(hpc[h] \in {"sent"}) + Ind("idle" \in {"sent"})
        /\ NBetween' = NBetween - Ind(hpc[h] \in {"sent", "counted"})
                                + Ind("idle" \in {"sent", "counted"})
    BY <1>6, HandlerCounts DEF SendPanics
  <2> QED
    BY <1>6, <1>n, <2>1, <2>2 DEF SendPanics, Ind, chanVars, metricVars
<1>7. ASSUME NEW h \in Handlers, ScheduleEnds(h) PROVE Law'
  <2>1. UNCHANGED <<NTaken, NBusy>>
    BY <1>7, CountsStay DEF ScheduleEnds
  <2>2. /\ NSent' = NSent - Ind(hpc[h] \in {"sent"}) + Ind("idle" \in {"sent"})
        /\ NBetween' = NBetween - Ind(hpc[h] \in {"sent", "counted"})
                                + Ind("idle" \in {"sent", "counted"})
    BY <1>7, HandlerCounts DEF ScheduleEnds
  <2> QED
    BY <1>7, <1>n, <2>1, <2>2 DEF ScheduleEnds, Ind, chanVars, metricVars
<1>8. ASSUME NEW w \in Workers, SeeCancelled(w) PROVE Law'
  <2>1. UNCHANGED <<NSent, NBetween>>
    BY <1>8, CountsStay DEF SeeCancelled, Goes
  <2>2. /\ NTaken' = NTaken - Ind(wpc[w] \in {"taken"}) + Ind("done" \in {"taken"})
        /\ NBusy' = NBusy - Ind(wpc[w] \in {"taken", "look", "fetch"})
                          + Ind("done" \in {"taken", "look", "fetch"})
    BY <1>8, WorkerCounts DEF SeeCancelled, Goes
  <2> QED
    BY <1>8, <1>n, <2>1, <2>2 DEF SeeCancelled, Goes, Ind, metricVars
<1>9. ASSUME NEW w \in Workers, Take(w) PROVE Law'
  <2>1. UNCHANGED <<NSent, NBetween>>
    BY <1>9, CountsStay DEF Take, Goes
  <2>2. /\ NTaken' = NTaken - Ind(wpc[w] \in {"taken"}) + Ind("taken" \in {"taken"})
        /\ NBusy' = NBusy - Ind(wpc[w] \in {"taken", "look", "fetch"})
                          + Ind("taken" \in {"taken", "look", "fetch"})
    BY <1>9, WorkerCounts DEF Take, Goes
  <2> QED
    BY <1>9, <1>n, <2>1, <2>2 DEF Take, Goes, Ind, metricVars
<1>10. ASSUME NEW w \in Workers, SeeClosed(w) PROVE Law'
  <2>1. UNCHANGED <<NSent, NBetween>>
    BY <1>10, CountsStay DEF SeeClosed, Goes
  <2>2. /\ NTaken' = NTaken - Ind(wpc[w] \in {"taken"}) + Ind("done" \in {"taken"})
        /\ NBusy' = NBusy - Ind(wpc[w] \in {"taken", "look", "fetch"})
                          + Ind("done" \in {"taken", "look", "fetch"})
    BY <1>10, WorkerCounts DEF SeeClosed, Goes
  <2> QED
    BY <1>10, <1>n, <2>1, <2>2 DEF SeeClosed, Goes, Ind, metricVars
<1>11. ASSUME NEW w \in Workers, Uncount(w) PROVE Law'
  <2>1. UNCHANGED <<NSent, NBetween>>
    BY <1>11, CountsStay DEF Uncount, Goes
  <2>2. /\ NTaken' = NTaken - Ind(wpc[w] \in {"taken"}) + Ind("look" \in {"taken"})
        /\ NBusy' = NBusy - Ind(wpc[w] \in {"taken", "look", "fetch"})
                          + Ind("look" \in {"taken", "look", "fetch"})
    BY <1>11, WorkerCounts DEF Uncount, Goes
  <2> QED
    BY <1>11, <1>n, <2>1, <2>2 DEF Uncount, Goes, Ind, metricVars
<1>12. ASSUME NEW w \in Workers, Skip(w) PROVE Law'
  <2>1. UNCHANGED <<NSent, NBetween>>
    BY <1>12, CountsStay DEF Skip, Goes
  <2>2. /\ NTaken' = NTaken - Ind(wpc[w] \in {"taken"}) + Ind("ready" \in {"taken"})
        /\ NBusy' = NBusy - Ind(wpc[w] \in {"taken", "look", "fetch"})
                          + Ind("ready" \in {"taken", "look", "fetch"})
    BY <1>12, WorkerCounts DEF Skip, Goes
  <2> QED
    BY <1>12, <1>n, <2>1, <2>2 DEF Skip, Goes, Ind, metricVars
<1>13. ASSUME NEW w \in Workers, StartFetch(w) PROVE Law'
  <2>1. UNCHANGED <<NSent, NBetween>>
    BY <1>13, CountsStay DEF StartFetch, Goes
  <2>2. /\ NTaken' = NTaken - Ind(wpc[w] \in {"taken"}) + Ind("fetch" \in {"taken"})
        /\ NBusy' = NBusy - Ind(wpc[w] \in {"taken", "look", "fetch"})
                          + Ind("fetch" \in {"taken", "look", "fetch"})
    BY <1>13, WorkerCounts DEF StartFetch, Goes
  <2> QED
    BY <1>13, <1>n, <2>1, <2>2 DEF StartFetch, Goes, Ind, metricVars
<1>14. ASSUME NEW w \in Workers, Fetched(w) PROVE Law'
  <2>1. UNCHANGED <<NSent, NBetween>>
    BY <1>14, CountsStay DEF Fetched, Goes
  <2>2. /\ NTaken' = NTaken - Ind(wpc[w] \in {"taken"}) + Ind("ready" \in {"taken"})
        /\ NBusy' = NBusy - Ind(wpc[w] \in {"taken", "look", "fetch"})
                          + Ind("ready" \in {"taken", "look", "fetch"})
    BY <1>14, WorkerCounts DEF Fetched, Goes
  <2> QED
    BY <1>14, <1>n, <2>1, <2>2 DEF Fetched, Goes, Ind, metricVars
<1>15. ASSUME NEW w \in Workers, FetchFails(w) PROVE Law'
  <2>1. UNCHANGED <<NSent, NBetween>>
    BY <1>15, CountsStay DEF FetchFails, Goes
  <2>2. /\ NTaken' = NTaken - Ind(wpc[w] \in {"taken"}) + Ind("ready" \in {"taken"})
        /\ NBusy' = NBusy - Ind(wpc[w] \in {"taken", "look", "fetch"})
                          + Ind("ready" \in {"taken", "look", "fetch"})
    BY <1>15, WorkerCounts DEF FetchFails, Goes
  <2> QED
    BY <1>15, <1>n, <2>1, <2>2 DEF FetchFails, Goes, Ind, metricVars
<1>16. ASSUME UNCHANGED <<waiting, hpc, wpc, metricVars, skipped>> PROVE Law'
  BY <1>16, CountsStay DEF metricVars
<1>17. CASE \/ Signal \/ ServerFails \/ ShutdownDone \/ ShutdownTimesOut \/ StopStep
            \/ UNCHANGED vars
  <2>1. UNCHANGED <<waiting, hpc, wpc, metricVars, skipped>>
    BY <1>17
    DEF Signal, ServerFails, ShutdownDone, ShutdownTimesOut, StopStep, CancelWorkers, CloseJobs,
        WaitReturns, MainGoes, vars, metricVars
  <2> QED
    BY <1>16, <2>1
<1> QED
  BY <1>1, <1>2, <1>3, <1>4, <1>5, <1>6, <1>7, <1>8, <1>9, <1>10, <1>11, <1>12,
     <1>13, <1>14, <1>15, <1>17
  DEF Next, ScheduleStep, WorkerStep, FetchStep, Exited

\* A handler is made to panic only after main has given up on the handlers.
LEMMA NextOrder ==
    TypeOK /\ ShutdownInOrder /\ PanicOnlyAfterTimeout /\ [Next]_vars =>
        ShutdownInOrder' /\ PanicOnlyAfterTimeout'
<1> SUFFICES ASSUME TypeOK, ShutdownInOrder, PanicOnlyAfterTimeout, [Next]_vars
             PROVE  ShutdownInOrder' /\ PanicOnlyAfterTimeout'
  OBVIOUS
<1> USE DEF ShutdownInOrder, PanicOnlyAfterTimeout
<1>1. ASSUME NEW h \in Handlers, Begin(h) PROVE ShutdownInOrder' /\ PanicOnlyAfterTimeout'
  BY <1>1 DEF TypeOK, Begin, chanVars
<1>2. ASSUME NEW h \in Handlers, ScheduleStep(h)
      PROVE  ShutdownInOrder' /\ PanicOnlyAfterTimeout'
  <2>1. hpc[h] # "idle" /\ UNCHANGED <<closed, mpc, timedOut>>
    BY <1>2 DEF ScheduleStep, Send, CountQueued, CountGauge, Drop, SendPanics,
                ScheduleEnds, chanVars
  <2>2. (mpc \in {"stop", "close", "wait"} \/ closed) => timedOut
    BY <2>1
  <2>3. panicked' => panicked \/ closed
    BY <1>2 DEF ScheduleStep, Send, CountQueued, CountGauge, Drop, SendPanics, ScheduleEnds
  <2> QED
    BY <2>1, <2>2, <2>3
<1>3. ASSUME NEW w \in Workers, WorkerStep(w) \/ FetchStep(w)
      PROVE  ShutdownInOrder' /\ PanicOnlyAfterTimeout'
  <2>1. UNCHANGED <<closed, hpc, mpc, timedOut, panicked>>
    BY <1>3 DEF WorkerStep, FetchStep, SeeCancelled, Take, SeeClosed, Uncount, Skip,
                StartFetch, Fetched, FetchFails, Goes
  <2> QED
    BY <2>1
<1>4. CASE Signal
  BY <1>4 DEF Signal, MainGoes
<1>5. CASE ShutdownDone
  BY <1>5 DEF ShutdownDone, MainGoes, HandlersAt
<1>6. CASE ShutdownTimesOut
  BY <1>6 DEF ShutdownTimesOut, MainGoes
<1>7. CASE StopStep
  BY <1>7 DEF StopStep, CancelWorkers, CloseJobs, WaitReturns, MainGoes
<1>8. CASE ServerFails
  BY <1>8 DEF ServerFails, MainGoes
<1>9. CASE UNCHANGED vars
  BY <1>9 DEF vars
<1> QED
  BY <1>1, <1>2, <1>3, <1>4, <1>5, <1>6, <1>7, <1>8, <1>9 DEF Next, Exited

----------------------------------------------------------------------------
(* The theorems. *)

\* The invariant holds of every behaviour.
THEOREM Invariance == Spec => []Inv
<1>1. Inv /\ [Next]_vars => Inv'
  BY NextTypes, NextCounts, NextOrder DEF Inv
<1> QED
  BY InitInv, <1>1, PTL DEF Spec

\* The channel never holds more than QueueDepth jobs, and all variables keep
\* their types (prefetch.go).
THEOREM TypesHold == Spec => []TypeOK
  BY Invariance, PTL DEF Inv

\* The metrics and the channel tell one story in any interleaving of the channel
\* operations and the increments after them (prefetch.go:126-139, 166-206).
THEOREM NoJobIsLost == Spec => []CountsAddUp
  BY Invariance, PTL DEF Inv

\* As long as Shutdown sees all handlers idle, no Schedule meets the closed
\* channel (main.go:143-160, prefetch.go:107-112).
THEOREM PanicsComeFromTimeouts == Spec => []PanicOnlyAfterTimeout
  BY Invariance, PTL DEF Inv

=============================================================================
