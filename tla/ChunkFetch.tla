----------------------------- MODULE ChunkFetch -----------------------------
(***************************************************************************)
(* Coalesced chunk fetches: Backend.FetchChunkShared and fetchChunk        *)
(* (src/internal/proxy/backend.go) as their two callers run them, with a   *)
(* buffer of cache.BufferPool (src/internal/cache/pool.go):                *)
(*   - a request goroutine in Handler.resolveChunk after both cache tiers  *)
(*     missed (src/internal/proxy/handler.go:172-187);                     *)
(*   - a prefetch worker in Prefetcher.fetchAndCache                       *)
(*     (src/internal/engine/prefetch.go:114-131).                          *)
(* Both take a buffer, call the backend, copy the bytes out and give the   *)
(* buffer back.  What they do with the copy (the caches) is elsewhere.     *)
(*                                                                         *)
(* A step is what one goroutine does under Backend.mu, or between two      *)
(* points where another goroutine can observe it.  Contents are tracked    *)
(* byte by byte as the chunk each byte came from; Stale is a byte that the *)
(* buffer's present user has not written, whatever its last user left.     *)
(***************************************************************************)
EXTENDS Naturals, Sequences

CONSTANTS
    Callers,    \* goroutines that fetch chunks: requests and prefetch workers
    Keys,       \* cache.ChunkKey values
    Flights,    \* *flight objects; unreferenced ones are garbage, hence reusable
    Buffers,    \* *[]byte objects of the pool
    ChunkSize,  \* cache.ChunkSize
    ChunkLen,   \* bytes of the object that each chunk holds, 0 past its end
    NoFlight, NoBuffer, NoKey, Stale

ASSUME ChunkFetchAssumption ==
    /\ ChunkSize \in Nat \ {0}
    /\ ChunkLen \in [Keys -> 0 .. ChunkSize]
    /\ NoFlight \notin Flights
    /\ NoBuffer \notin Buffers
    /\ NoKey \notin Keys
    /\ Stale \notin Keys

VARIABLES
    inflight,   \* Backend.inflight; NoFlight = the key is not in the map
    flight,     \* the fields of each flight object
    free,       \* buffers in the pool, or that New would allocate
    mem,        \* the bytes of each buffer
    pc,         \* where each goroutine is
    key,        \* chunk it asked for
    buf,        \* buffer it holds
    ref,        \* its local f (leader) or existing (waiter)
    n,          \* named result n: bytes in its buffer
    failed,     \* named result err # nil
    cancelled   \* ctx.Err() # nil for its context

pubVars   == <<inflight, flight>>
bufVars   == <<free, mem>>
localVars == <<pc, key, buf, ref, n, failed, cancelled>>
vars      == <<inflight, flight, free, mem, pc, key, buf, ref, n, failed, cancelled>>

Byte == Keys \union {Stale}

\* The first m bytes of buffer b, copied: make([]byte, m) and copy.
Prefix(b, m) == [i \in 1 .. m |-> mem[b][i]]

\* Slip: cuts the pooled buffer to the copied length.
OverwriteResliced(bytes, s, m) == s

\* Buffer contents after its first m bytes are replaced by those of s.
Overwrite(bytes, s, m) == [i \in 1 .. ChunkSize |-> IF i <= m THEN s[i] ELSE bytes[i]]

\* The first m bytes of chunk k, as the object store sends them.
Body(k, m) == [i \in 1 .. m |-> k]

\* &flight{done: make(chan struct{})}.  waited stands for waiters > 0, the only
\* thing the code asks of the counter.  got is a history field: how many bytes
\* this flight's GET delivered.
FreshFlight == [done |-> FALSE, data |-> << >>, err |-> FALSE, waited |-> FALSE, got |-> 0]

Init ==
    /\ inflight = [k \in Keys |-> NoFlight]
    /\ flight = [f \in Flights |-> FreshFlight]
    /\ free = Buffers
    /\ mem = [b \in Buffers |-> [i \in 1 .. ChunkSize |-> Stale]]
    /\ pc = [c \in Callers |-> "idle"]
    /\ key = [c \in Callers |-> NoKey]
    /\ buf = [c \in Callers |-> NoBuffer]
    /\ ref = [c \in Callers |-> NoFlight]
    /\ n = [c \in Callers |-> 0]
    /\ failed = [c \in Callers |-> FALSE]
    /\ cancelled = [c \in Callers |-> FALSE]

----------------------------------------------------------------------------
(* The environment. *)

\* BufferPool.Get: a used buffer or a new one.
PoolGet(c) ==
    \E b \in free :
        /\ free' = free \ {b}
        /\ buf' = [buf EXCEPT ![c] = b]

\* BufferPool.Put.
PoolPut(c) ==
    /\ free' = free \union {buf[c]}
    /\ buf' = [buf EXCEPT ![c] = NoBuffer]

\* A caller reaches the backend with chunk k: Pool.Get, then FetchChunkShared.
Begin(c, k) ==
    /\ pc[c] = "idle"
    /\ PoolGet(c)
    /\ pc' = [pc EXCEPT ![c] = "enter"]
    /\ key' = [key EXCEPT ![c] = k]
    /\ UNCHANGED <<inflight, flight, mem, ref, n, failed, cancelled>>

\* The client goes away, or the prefetcher is stopped.
Cancel(c) ==
    /\ pc[c] # "idle"
    /\ ~cancelled[c]
    /\ cancelled' = [cancelled EXCEPT ![c] = TRUE]
    /\ UNCHANGED <<inflight, flight, free, mem, pc, key, buf, ref, n, failed>>

----------------------------------------------------------------------------
(* FetchChunkShared: the loop that elects a leader. *)

\* Slip: does not look for a flight first.
LeadUnchecked(c) ==
    /\ pc[c] = "enter"
    /\ \E f \in Flights :
        /\ \A d \in Callers : ref[d] # f
        /\ flight' = [flight EXCEPT ![f] = FreshFlight]
        /\ inflight' = [inflight EXCEPT ![key[c]] = f]
        /\ ref' = [ref EXCEPT ![c] = f]
    /\ pc' = [pc EXCEPT ![c] = "fetch"]
    /\ UNCHANGED <<free, mem, key, buf, n, failed, cancelled>>

\* Nobody is fetching the chunk: publish a flight and become its leader.
Lead(c) ==
    /\ pc[c] = "enter"
    /\ inflight[key[c]] = NoFlight
    /\ \E f \in Flights :
        /\ \A d \in Callers : ref[d] # f
        /\ flight' = [flight EXCEPT ![f] = FreshFlight]
        /\ inflight' = [inflight EXCEPT ![key[c]] = f]
        /\ ref' = [ref EXCEPT ![c] = f]
    /\ pc' = [pc EXCEPT ![c] = "fetch"]
    /\ UNCHANGED <<free, mem, key, buf, n, failed, cancelled>>

\* Slip: does not count itself among the waiters.
JoinUncounted(c) ==
    /\ pc[c] = "enter"
    /\ inflight[key[c]] # NoFlight
    /\ ref' = [ref EXCEPT ![c] = inflight[key[c]]]
    /\ pc' = [pc EXCEPT ![c] = "wait"]
    /\ UNCHANGED <<inflight, flight, free, mem, key, buf, n, failed, cancelled>>

\* Somebody is: count oneself as a waiter of that flight.
Join(c) ==
    /\ pc[c] = "enter"
    /\ inflight[key[c]] # NoFlight
    /\ flight' = [flight EXCEPT ![inflight[key[c]]].waited = TRUE]
    /\ ref' = [ref EXCEPT ![c] = inflight[key[c]]]
    /\ pc' = [pc EXCEPT ![c] = "wait"]
    /\ UNCHANGED <<inflight, free, mem, key, buf, n, failed, cancelled>>

\* return 0, true, ctx.Err(): the waiter's flight variable goes out of scope.
WaiterFails(c) ==
    /\ pc' = [pc EXCEPT ![c] = "return"]
    /\ ref' = [ref EXCEPT ![c] = NoFlight]
    /\ n' = [n EXCEPT ![c] = 0]
    /\ failed' = [failed EXCEPT ![c] = TRUE]
    /\ UNCHANGED <<inflight, flight, free, mem, key, buf, cancelled>>

\* select takes ctx.Done().
WaitCancelled(c) ==
    /\ pc[c] = "wait"
    /\ cancelled[c]
    /\ WaiterFails(c)

\* select takes done, and the leader succeeded: copy(*buf, existing.data).
WaitServed(c) ==
    /\ pc[c] = "wait"
    /\ flight[ref[c]].done
    /\ ~flight[ref[c]].err
    /\ LET data == flight[ref[c]].data IN
        /\ mem' = [mem EXCEPT ![buf[c]] = Overwrite(@, data, Len(data))]
        /\ n' = [n EXCEPT ![c] = Len(data)]
    /\ failed' = [failed EXCEPT ![c] = FALSE]
    /\ ref' = [ref EXCEPT ![c] = NoFlight]
    /\ pc' = [pc EXCEPT ![c] = "return"]
    /\ UNCHANGED <<inflight, flight, free, key, buf, cancelled>>

\* Slip: retries without looking at its own context.
WaitLeaderFailedNoCheck(c) ==
    /\ pc[c] = "wait"
    /\ flight[ref[c]].done
    /\ flight[ref[c]].err
    /\ pc' = [pc EXCEPT ![c] = "enter"]
    /\ ref' = [ref EXCEPT ![c] = NoFlight]
    /\ UNCHANGED <<inflight, flight, free, mem, key, buf, n, failed, cancelled>>

\* Slip: takes the leader's error for its own.
WaitLeaderFailedInherits(c) ==
    /\ pc[c] = "wait"
    /\ flight[ref[c]].done
    /\ flight[ref[c]].err
    /\ WaiterFails(c)

\* select takes done, and the leader failed: give up if cancelled too, else go
\* round the loop again.
WaitLeaderFailed(c) ==
    /\ pc[c] = "wait"
    /\ flight[ref[c]].done
    /\ flight[ref[c]].err
    /\ \/ /\ cancelled[c]
          /\ WaiterFails(c)
       \/ /\ ~cancelled[c]
          /\ pc' = [pc EXCEPT ![c] = "enter"]
          /\ ref' = [ref EXCEPT ![c] = NoFlight]
          /\ UNCHANGED <<inflight, flight, free, mem, key, buf, n, failed, cancelled>>

----------------------------------------------------------------------------
(* fetchChunk: one ranged GetObject and one io.ReadFull into the buffer. *)

\* The GET ends: m bytes of the chunk are in the buffer, and fetchChunk returns
\* (0, err) if bad and (m, nil) otherwise.
FetchEnds(c, m, bad) ==
    /\ pc[c] = "fetch"
    /\ mem' = [mem EXCEPT ![buf[c]] = Overwrite(@, Body(key[c], m), m)]
    /\ n' = [n EXCEPT ![c] = IF bad THEN 0 ELSE m]
    /\ failed' = [failed EXCEPT ![c] = bad]
    /\ pc' = [pc EXCEPT ![c] = "settle"]
    /\ UNCHANGED <<inflight, flight, free, key, buf, ref, cancelled>>

\* The whole chunk arrives.  A last chunk shorter than ChunkSize ends ReadFull
\* with io.ErrUnexpectedEOF, which fetchChunk accepts.
FetchWhole(c) ==
    /\ pc[c] = "fetch"
    /\ ChunkLen[key[c]] > 0
    /\ FetchEnds(c, ChunkLen[key[c]], FALSE)

\* The connection closes before the announced length: net/http reports the same
\* io.ErrUnexpectedEOF, so the m bytes received count as a short last chunk.
FetchCut(c) ==
    /\ pc[c] = "fetch"
    /\ \E m \in 0 .. ChunkLen[key[c]] :
        /\ m < ChunkLen[key[c]]
        /\ FetchEnds(c, m, FALSE)

\* GetObject fails (no such range, refused, cancelled), or the body does with
\* another error after m bytes.
FetchFails(c) ==
    /\ pc[c] = "fetch"
    /\ \E m \in 0 .. ChunkLen[key[c]] :
        /\ m < ChunkSize
        /\ FetchEnds(c, m, TRUE)

----------------------------------------------------------------------------
(* FetchChunkShared: the leader settles its flight. *)

\* Slip: gives the buffer back too early, and its caller does again.
SettleReleasing(c) ==
    /\ pc[c] = "settle"
    /\ inflight' = [inflight EXCEPT ![key[c]] = NoFlight]
    /\ flight' = [flight EXCEPT
                    ![ref[c]].data = IF ~failed[c] /\ flight[ref[c]].waited
                                     THEN Prefix(buf[c], n[c]) ELSE << >>,
                    ![ref[c]].err = failed[c],
                    ![ref[c]].got = n[c]]
    /\ free' = free \union {buf[c]}
    /\ pc' = [pc EXCEPT ![c] = "close"]
    /\ UNCHANGED <<mem, key, buf, ref, n, failed, cancelled>>

\* Slip: returns on an error before it unpublishes the flight.
SettleOnlySuccess(c) ==
    /\ pc[c] = "settle"
    /\ IF failed[c] THEN UNCHANGED pubVars
       ELSE /\ inflight' = [inflight EXCEPT ![key[c]] = NoFlight]
            /\ flight' = [flight EXCEPT
                            ![ref[c]].data = IF flight[ref[c]].waited
                                             THEN Prefix(buf[c], n[c]) ELSE << >>,
                            ![ref[c]].got = n[c]]
    /\ pc' = [pc EXCEPT ![c] = IF failed[c] THEN "return" ELSE "close"]
    /\ ref' = [ref EXCEPT ![c] = IF failed[c] THEN NoFlight ELSE @]
    /\ UNCHANGED <<free, mem, key, buf, n, failed, cancelled>>

\* Under Backend.mu: unpublish, copy the bytes if somebody waits, set err.
Settle(c) ==
    /\ pc[c] = "settle"
    /\ inflight' = [inflight EXCEPT ![key[c]] = NoFlight]
    /\ flight' = [flight EXCEPT
                    ![ref[c]].data = IF ~failed[c] /\ flight[ref[c]].waited
                                     THEN Prefix(buf[c], n[c]) ELSE << >>,
                    ![ref[c]].err = failed[c],
                    ![ref[c]].got = n[c]]
    /\ pc' = [pc EXCEPT ![c] = "close"]
    /\ UNCHANGED <<free, mem, key, buf, ref, n, failed, cancelled>>

\* Slip: does not close the channel.
CloseForgotten(c) ==
    /\ pc[c] = "close"
    /\ ref' = [ref EXCEPT ![c] = NoFlight]
    /\ pc' = [pc EXCEPT ![c] = "return"]
    /\ UNCHANGED <<inflight, flight, free, mem, key, buf, n, failed, cancelled>>

\* close(f.done), and FetchChunkShared returns to its caller.
Close(c) ==
    /\ pc[c] = "close"
    /\ flight' = [flight EXCEPT ![ref[c]].done = TRUE]
    /\ ref' = [ref EXCEPT ![c] = NoFlight]
    /\ pc' = [pc EXCEPT ![c] = "return"]
    /\ UNCHANGED <<inflight, free, mem, key, buf, n, failed, cancelled>>

\* The caller copies its n bytes out (or reports the error); its deferred
\* Pool.Put gives the buffer back.
Return(c) ==
    /\ pc[c] = "return"
    /\ PoolPut(c)
    /\ mem' = [mem EXCEPT ![buf[c]] = [i \in 1 .. ChunkSize |-> Stale]]
    /\ key' = [key EXCEPT ![c] = NoKey]
    /\ n' = [n EXCEPT ![c] = 0]
    /\ failed' = [failed EXCEPT ![c] = FALSE]
    /\ cancelled' = [cancelled EXCEPT ![c] = FALSE]
    /\ pc' = [pc EXCEPT ![c] = "idle"]
    /\ UNCHANGED <<inflight, flight, ref>>

----------------------------------------------------------------------------

\* What a goroutine inside the call does by itself.  The object store answering
\* the GET (FetchWhole, FetchCut, FetchFails) is among it.
Step(c) ==
    \/ Lead(c) \/ Join(c)
    \/ WaitCancelled(c) \/ WaitServed(c) \/ WaitLeaderFailed(c)
    \/ FetchWhole(c) \/ FetchCut(c) \/ FetchFails(c)
    \/ Settle(c) \/ Close(c) \/ Return(c)

Next ==
    \E c \in Callers :
        \/ \E k \in Keys : Begin(c, k)
        \/ Cancel(c)
        \/ Step(c)

Spec == Init /\ [][Next]_vars

\* The Go scheduler runs every runnable goroutine, and every GET ends.  Nothing
\* makes a client ask, or go away.
FairSpec == Spec /\ \A c \in Callers : WF_vars(Step(c))

----------------------------------------------------------------------------
(* Properties. *)

PcValues == {"idle", "enter", "wait", "fetch", "settle", "close", "return"}

Data == UNION {[1 .. m -> Byte] : m \in 0 .. ChunkSize}

Flight == [done : BOOLEAN, data : Data, err : BOOLEAN, waited : BOOLEAN,
           got : 0 .. ChunkSize]

\* The types of backend.go's and the callers' variables.
TypeOK ==
    /\ inflight \in [Keys -> Flights \union {NoFlight}]
    /\ flight \in [Flights -> Flight]
    /\ free \in SUBSET Buffers
    /\ mem \in [Buffers -> [1 .. ChunkSize -> Byte]]
    /\ pc \in [Callers -> PcValues]
    /\ key \in [Callers -> Keys \union {NoKey}]
    /\ buf \in [Callers -> Buffers \union {NoBuffer}]
    /\ ref \in [Callers -> Flights \union {NoFlight}]
    /\ n \in [Callers -> 0 .. ChunkSize]
    /\ failed \in [Callers -> BOOLEAN]
    /\ cancelled \in [Callers -> BOOLEAN]

\* backend.go:30-31: callers asking for a chunk that is in flight wait for it
\* instead of issuing a duplicate GET.
OneGetPerChunk ==
    \A c, d \in Callers :
        (pc[c] = "fetch" /\ pc[d] = "fetch" /\ c # d) => key[c] # key[d]

\* The bytes a caller is about to copy out of its pooled buffer are bytes of
\* the chunk it asked for, whatever the buffer held before, whoever else uses
\* the pool meanwhile, and whether it led or joined the fetch.
DeliveredBytesAreTheChunks ==
    \A c \in Callers :
        (pc[c] = "return" /\ ~failed[c]) =>
            \A i \in 1 .. n[c] : mem[buf[c]][i] = key[c]

\* A waiter woken by a successful leader finds all the bytes the GET delivered:
\* the leader never skips the copy (f.waiters > 0, backend.go:143-150) when a
\* waiter got in.
WaiterFindsWhatTheGetDelivered ==
    \A c \in Callers :
        (pc[c] = "wait" /\ flight[ref[c]].done /\ ~flight[ref[c]].err) =>
            Len(flight[ref[c]].data) = flight[ref[c]].got

\* Goroutine c still owes flight f its close(done).
Leading(c, f) == pc[c] \in {"fetch", "settle", "close"} /\ ref[c] = f

\* Nobody waits on a flight that nobody will close: on every path, a failed
\* GET and a cancelled leader included, the leader settles and closes.
NoOrphanedWaiter ==
    \A c \in Callers :
        (pc[c] = "wait" /\ ~flight[ref[c]].done) =>
            \E d \in Callers : Leading(d, ref[c])

\* handler.go:91-92: a backend failure can still become a 502.  A body that the
\* backend cut short must then not come back as a successful fetch.
CutBodyIsAnError ==
    \A c \in Callers :
        (pc[c] = "return" /\ ~failed[c]) => n[c] = ChunkLen[key[c]]

\* How far a call has come, seen from outside: a waiter is served, or has to ask
\* again, as soon as its flight is settled under Backend.mu, before it wakes up.
Outcome(c) == IF failed[c] THEN "failed" ELSE "answered"

Status ==
    [c \in Callers |->
        CASE pc[c] = "idle" -> "idle"
          [] pc[c] = "enter" -> "asking"
          [] pc[c] \in {"fetch", "settle"} -> "leading"
          [] pc[c] \in {"close", "return"} -> Outcome(c)
          [] pc[c] = "wait" ->
                IF inflight[key[c]] = ref[c] THEN "attached"
                ELSE IF flight[ref[c]].err THEN "asking" ELSE "answered"]

Amount ==
    [c \in Callers |->
        CASE pc[c] \in {"close", "return"} -> n[c]
          [] pc[c] = "wait" /\ inflight[key[c]] # ref[c] -> flight[ref[c]].got
          [] OTHER -> 0]

Shared == INSTANCE CoalescedGet
            WITH status <- Status, want <- key, amount <- Amount, gone <- cancelled

\* FetchChunkShared implements CoalescedGet: the bytes of a GET go to all who
\* joined it, and its failure to nobody but its leader.
ImplementsCoalescedGet == Shared!SafeSpec

\* The same, and every caller gets on.
ServesEveryCaller == Shared!Spec

\* Every waiter is woken: however the leader's GET ends, however many join.
WaitEnds == \A c \in Callers : pc[c] = "wait" ~> pc[c] # "wait"

\* And served: a call that goes round the loop again and again meets a leader
\* that fails each time.  If leaders ever stop failing, all calls return.
OnlyFailuresStarve ==
    <>[](\A d \in Callers : ~(pc[d] = "settle" /\ failed[d])) =>
        \A c \in Callers : pc[c] # "idle" ~> pc[c] = "idle"

\* backend.go:126-139: no call waits for ever, and none asks for ever but for an
\* endless run of failures.
CallsGetOn == WaitEnds /\ OnlyFailuresStarve

\* A call whose context is cancelled returns, even if its leaders keep failing
\* and new leaders keep taking their place (backend.go:136-138).
CancelledCallReturns == \A c \in Callers : cancelled[c] ~> pc[c] = "idle"

=============================================================================
