---------------------------- MODULE PrefetchPool ----------------------------
(***************************************************************************)
(* The prefetch pool (src/internal/engine/prefetch.go) from start to exit: *)
(* handlers call Schedule (through VelocityTracker.Record), workers take   *)
(* jobs from the channel, and main shuts the HTTP server down, then the    *)
(* pool (src/cmd/proxy/main.go:143-160 and the deferred Stop of line 79).  *)
(*                                                                         *)
(* Jobs are told apart by nothing here, so the channel is the number of    *)
(* jobs in it; which chunk a job names, and whether that chunk is in RAM   *)
(* already, is left open.  A metric changes in a step of its own, after    *)
(* the channel operation it reports.                                       *)
(***************************************************************************)
EXTENDS Integers, FiniteSets

CONSTANTS
    Handlers,   \* goroutines that serve requests
    Workers,    \* PrefetchConfig.Workers goroutines
    QueueDepth, \* PrefetchConfig.QueueDepth
    LookAhead,  \* PrefetchConfig.LookAhead
    MaxCalls    \* bound: calls of Schedule in a behaviour

ASSUME PrefetchPoolAssumption ==
    /\ QueueDepth \in Nat \ {0}
    /\ LookAhead \in Nat
    /\ MaxCalls \in Nat
    /\ IsFiniteSet(Handlers) /\ IsFiniteSet(Workers)

VARIABLES
    waiting,    \* len(jobs)
    closed,     \* close(jobs) has happened
    cancelled,  \* the workers' context is cancelled
    hpc, left,  \* where each handler is, and the sends its Schedule has left
    wpc,        \* where each worker is
    mpc,        \* where main is
    gauge,      \* PrefetchQueueLength
    queued, dropped, completed, errors, \* PrefetchQueued, Dropped, Hits, Errors
    skipped,    \* history: jobs whose chunk was in RAM already, counted nowhere
    calls,      \* calls of Schedule so far, for the bound
    timedOut,   \* history: Shutdown gave up on running handlers
    panicked    \* history: a send on the closed channel

chanVars   == <<waiting, closed>>
metricVars == <<gauge, queued, dropped, completed, errors>>
vars == <<waiting, closed, cancelled, hpc, left, wpc, mpc, gauge, queued, dropped,
          completed, errors, skipped, calls, timedOut, panicked>>

Init ==
    /\ waiting = 0
    /\ closed = FALSE
    /\ cancelled = FALSE
    /\ hpc = [h \in Handlers |-> "idle"]
    /\ left = [h \in Handlers |-> 0]
    /\ wpc = [w \in Workers |-> "ready"]
    /\ mpc = "serving"
    /\ gauge = 0
    /\ queued = 0
    /\ dropped = 0
    /\ completed = 0
    /\ errors = 0
    /\ skipped = 0
    /\ calls = 0
    /\ timedOut = FALSE
    /\ panicked = FALSE

Alive == mpc # "exited"

HandlersAt(S) == {h \in Handlers : hpc[h] \in S}
WorkersAt(S) == {w \in Workers : wpc[w] \in S}

----------------------------------------------------------------------------
(* Handlers: Schedule. *)

\* A request makes Record call Schedule.  Once Shutdown has seen every handler
\* idle no request is served any more; if it gave up, the open connections are.
Begin(h) ==
    /\ mpc \in {"serving", "shutdown"} \/ (timedOut /\ Alive)
    /\ hpc[h] = "idle"
    /\ calls < MaxCalls
    /\ hpc' = [hpc EXCEPT ![h] = "send"]
    /\ left' = [left EXCEPT ![h] = LookAhead]
    /\ calls' = calls + 1
    /\ UNCHANGED <<chanVars, cancelled, wpc, mpc, metricVars, skipped, timedOut, panicked>>

\* Slip: queues without a limit.
SendUnbounded(h) ==
    /\ Alive
    /\ hpc[h] = "send" /\ left[h] > 0
    /\ ~closed
    /\ waiting' = waiting + 1
    /\ hpc' = [hpc EXCEPT ![h] = "sent"]
    /\ UNCHANGED <<closed, cancelled, left, wpc, mpc, metricVars, skipped, calls,
                   timedOut, panicked>>

\* case p.jobs <- job
Send(h) ==
    /\ Alive
    /\ hpc[h] = "send" /\ left[h] > 0
    /\ ~closed
    /\ waiting < QueueDepth
    /\ waiting' = waiting + 1
    /\ hpc' = [hpc EXCEPT ![h] = "sent"]
    /\ UNCHANGED <<closed, cancelled, left, wpc, mpc, metricVars, skipped, calls,
                   timedOut, panicked>>

\* PrefetchQueued.Inc()
CountQueued(h) ==
    /\ Alive
    /\ hpc[h] = "sent"
    /\ queued' = queued + 1
    /\ hpc' = [hpc EXCEPT ![h] = "counted"]
    /\ UNCHANGED <<chanVars, cancelled, left, wpc, mpc, gauge, dropped, completed, errors,
                   skipped, calls, timedOut, panicked>>

\* PrefetchQueueLength.Inc(), and the next job.
CountGauge(h) ==
    /\ Alive
    /\ hpc[h] = "counted"
    /\ gauge' = gauge + 1
    /\ hpc' = [hpc EXCEPT ![h] = "send"]
    /\ left' = [left EXCEPT ![h] = @ - 1]
    /\ UNCHANGED <<chanVars, cancelled, wpc, mpc, queued, dropped, completed, errors,
                   skipped, calls, timedOut, panicked>>

\* Slip: has no default case.
DropBlocking(h) == FALSE

\* default: the channel is full, and the job is dropped.
Drop(h) ==
    /\ Alive
    /\ hpc[h] = "send" /\ left[h] > 0
    /\ ~closed
    /\ waiting = QueueDepth
    /\ dropped' = dropped + 1
    /\ left' = [left EXCEPT ![h] = @ - 1]
    /\ UNCHANGED <<chanVars, cancelled, hpc, wpc, mpc, gauge, queued, completed, errors,
                   skipped, calls, timedOut, panicked>>

\* Sending on a closed channel panics, default or not; net/http recovers, and
\* the request is lost.
SendPanics(h) ==
    /\ Alive
    /\ hpc[h] = "send" /\ left[h] > 0
    /\ closed
    /\ panicked' = TRUE
    /\ hpc' = [hpc EXCEPT ![h] = "idle"]
    /\ left' = [left EXCEPT ![h] = 0]
    /\ UNCHANGED <<chanVars, cancelled, wpc, mpc, metricVars, skipped, calls, timedOut>>

\* The loop is over, and Schedule returns.
ScheduleEnds(h) ==
    /\ Alive
    /\ hpc[h] = "send" /\ left[h] = 0
    /\ hpc' = [hpc EXCEPT ![h] = "idle"]
    /\ UNCHANGED <<chanVars, cancelled, left, wpc, mpc, metricVars, skipped, calls,
                   timedOut, panicked>>

----------------------------------------------------------------------------
(* Workers. *)

Goes(w, from, to) ==
    /\ Alive
    /\ wpc[w] = from
    /\ wpc' = [wpc EXCEPT ![w] = to]
    /\ UNCHANGED <<closed, cancelled, hpc, left, mpc, calls, timedOut, panicked>>

\* select takes ctx.Done(), which it may whether or not jobs are waiting.
SeeCancelled(w) ==
    /\ cancelled
    /\ Goes(w, "ready", "done")
    /\ UNCHANGED <<waiting, metricVars, skipped>>

\* select takes a job, which it may whether or not the context is cancelled.
Take(w) ==
    /\ waiting > 0
    /\ waiting' = waiting - 1
    /\ Goes(w, "ready", "taken")
    /\ UNCHANGED <<metricVars, skipped>>

\* The channel is closed and drained: !ok.
SeeClosed(w) ==
    /\ closed /\ waiting = 0
    /\ Goes(w, "ready", "done")
    /\ UNCHANGED <<waiting, metricVars, skipped>>

\* PrefetchQueueLength.Dec()
Uncount(w) ==
    /\ Goes(w, "taken", "look")
    /\ gauge' = gauge - 1
    /\ UNCHANGED <<waiting, queued, dropped, completed, errors, skipped>>

\* fetchAndCache finds the chunk in RAM.
Skip(w) ==
    /\ Goes(w, "look", "ready")
    /\ skipped' = skipped + 1
    /\ UNCHANGED <<waiting, metricVars>>

\* It does not, and asks the backend.
StartFetch(w) ==
    /\ Goes(w, "look", "fetch")
    /\ UNCHANGED <<waiting, metricVars, skipped>>

\* The chunk arrives and goes to the hot tier.
Fetched(w) ==
    /\ Goes(w, "fetch", "ready")
    /\ completed' = completed + 1
    /\ UNCHANGED <<waiting, gauge, queued, dropped, errors, skipped>>

\* Slip: ends the worker with the job.
FetchFailsQuits(w) ==
    /\ Goes(w, "fetch", "done")
    /\ errors' = errors + 1
    /\ UNCHANGED <<waiting, gauge, queued, dropped, completed, skipped>>

\* Slip: counts no error.
FetchFailsUncounted(w) ==
    /\ Goes(w, "fetch", "ready")
    /\ UNCHANGED <<waiting, metricVars, skipped>>

\* The backend fails, or the context is cancelled.
FetchFails(w) ==
    /\ Goes(w, "fetch", "ready")
    /\ errors' = errors + 1
    /\ UNCHANGED <<waiting, gauge, queued, dropped, completed, skipped>>

----------------------------------------------------------------------------
(* main. *)

MainGoes(from, to) ==
    /\ mpc = from
    /\ mpc' = to
    /\ UNCHANGED <<waiting, hpc, left, wpc, metricVars, skipped, calls, panicked>>

\* SIGINT or SIGTERM: proxySrv.Shutdown is called.
Signal ==
    /\ MainGoes("serving", "shutdown")
    /\ UNCHANGED <<closed, cancelled, timedOut>>

\* One of the three servers cannot listen, or stops: log.Fatal ends the process
\* without the deferred Stop.
ServerFails ==
    /\ MainGoes("serving", "exited") \/ MainGoes("shutdown", "exited")
    /\ UNCHANGED <<closed, cancelled, timedOut>>

\* Slip: does not wait for the handlers.
ShutdownAtOnce ==
    /\ MainGoes("shutdown", "stop")
    /\ UNCHANGED <<closed, cancelled, timedOut>>

\* Shutdown has seen every connection idle.
ShutdownDone ==
    /\ HandlersAt({"idle"}) = Handlers
    /\ MainGoes("shutdown", "stop")
    /\ UNCHANGED <<closed, cancelled, timedOut>>

\* Or its 30 seconds are over; main only logs the error.
ShutdownTimesOut ==
    /\ timedOut' = TRUE
    /\ MainGoes("shutdown", "stop")
    /\ UNCHANGED <<closed, cancelled>>

\* Slip: leaves the context alone.
CancelForgotten ==
    /\ MainGoes("stop", "close")
    /\ UNCHANGED <<closed, cancelled, timedOut>>

\* Stop: cancelFn()
CancelWorkers ==
    /\ cancelled' = TRUE
    /\ MainGoes("stop", "close")
    /\ UNCHANGED <<closed, timedOut>>

\* close(p.jobs)
CloseJobs ==
    /\ closed' = TRUE
    /\ MainGoes("close", "wait")
    /\ UNCHANGED <<cancelled, timedOut>>

\* p.wg.Wait() returns, and main too: the goroutines that are left end with it.
WaitReturns ==
    /\ WorkersAt({"done"}) = Workers
    /\ MainGoes("wait", "exited")
    /\ UNCHANGED <<closed, cancelled, timedOut>>

Exited == ~Alive /\ UNCHANGED vars

----------------------------------------------------------------------------

ScheduleStep(h) ==
    \/ Send(h) \/ CountQueued(h) \/ CountGauge(h)
    \/ Drop(h) \/ SendPanics(h) \/ ScheduleEnds(h)

\* The GET of a prefetch ends; the HTTP client has no timeout of its own.
FetchStep(w) == Fetched(w) \/ FetchFails(w)

WorkerStep(w) ==
    \/ SeeCancelled(w) \/ Take(w) \/ SeeClosed(w)
    \/ Uncount(w) \/ Skip(w) \/ StartFetch(w)

StopStep == CancelWorkers \/ CloseJobs \/ WaitReturns

Next ==
    \/ \E h \in Handlers : Begin(h) \/ ScheduleStep(h)
    \/ \E w \in Workers : WorkerStep(w) \/ FetchStep(w)
    \/ Signal \/ ServerFails \/ ShutdownDone \/ ShutdownTimesOut \/ StopStep
    \/ Exited

Spec == Init /\ [][Next]_vars

\* Runnable goroutines run.  Shutdown ends, at the latest when its time is up.
\* A GET is sure to end only when its context is cancelled, and nothing makes
\* the signal or a request come.
FairSpec ==
    /\ Spec
    /\ \A h \in Handlers : WF_vars(ScheduleStep(h))
    /\ \A w \in Workers : WF_vars(WorkerStep(w)) /\ WF_vars(cancelled /\ FetchStep(w))
    /\ WF_vars(ShutdownDone \/ ShutdownTimesOut)
    /\ WF_vars(StopStep)

----------------------------------------------------------------------------
(* Properties. *)

\* The types of the pool's variables; the channel holds at most QueueDepth jobs.
TypeOK ==
    /\ waiting \in 0 .. QueueDepth
    /\ closed \in BOOLEAN
    /\ cancelled \in BOOLEAN
    /\ hpc \in [Handlers -> {"idle", "send", "sent", "counted"}]
    /\ left \in [Handlers -> 0 .. LookAhead]
    /\ wpc \in [Workers -> {"ready", "taken", "look", "fetch", "done"}]
    /\ mpc \in {"serving", "shutdown", "stop", "close", "wait", "exited"}
    /\ gauge \in Int
    /\ queued \in Nat /\ dropped \in Nat /\ completed \in Nat /\ errors \in Nat
    /\ skipped \in Nat
    /\ calls \in 0 .. MaxCalls
    /\ timedOut \in BOOLEAN
    /\ panicked \in BOOLEAN

\* The gauge is off the length of the channel by exactly the jobs that are
\* between a channel operation and its metric: the error never accumulates,
\* whatever the order of the increments and decrements, panics included.  (A
\* scrape may therefore see -1, although prometheus.go:63 calls it a number of
\* jobs.)
GaugeAccountsForQueue ==
    gauge = waiting + Cardinality(WorkersAt({"taken"}))
                    - Cardinality(HandlersAt({"sent", "counted"}))

\* No accepted job is lost or done twice: it waits, or a worker has it, or it
\* was skipped, stored or reported as an error.
JobsConserved ==
    queued + Cardinality(HandlersAt({"sent"})) =
        waiting + Cardinality(WorkersAt({"taken", "look", "fetch"}))
                + skipped + completed + errors

\* The metrics and the channel tell one story: no job is miscounted or lost.
CountsAddUp == GaugeAccountsForQueue /\ JobsConserved

\* The order of main.go, server first and pool last, protects the handlers: a
\* send can meet the closed channel only after Shutdown gave up on a handler.
PanicOnlyAfterTimeout == panicked => timedOut

\* main.go:79: Stop, once reached, returns, although the workers may go on
\* taking jobs from the closed channel and a GET was hanging.
StopReturns == mpc = "stop" ~> mpc = "exited"

\* README.md:45, non-blocking sends: Schedule returns to its handler even if
\* every worker hangs in a GET for ever.
ScheduleReturns == \A h \in Handlers : hpc[h] # "idle" ~> (hpc[h] = "idle" \/ ~Alive)

\* Backpressure ends: if every GET ends, a full channel gets room again, for
\* no failure of a job takes its worker with it.
FullQueueMoves ==
    (\A w \in Workers : []<>(wpc[w] # "fetch")) =>
        (waiting = QueueDepth ~> (waiting < QueueDepth \/ cancelled \/ ~Alive))

=============================================================================
