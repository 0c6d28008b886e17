---------------------------- MODULE TieredCache ----------------------------
(***************************************************************************)
(* The tiers together: handlers and prefetch workers over one shard of the *)
(* RAM tier, the disk tier that its evictions fill, and the backend.       *)
(*                                                                         *)
(* The RAM tier is HotCache itself, the shared fetches are CoalescedGet,   *)
(* which ChunkFetch implements.  A Put of the disk tier is one step, as    *)
(* ColdCache shows it to be unless another Put of the chunk overlaps it;   *)
(* then the file may come out short.  The data of a chunk is its length.   *)
(*                                                                         *)
(* The object does not change.  Which chunks are prefetched, and when, is  *)
(* left open (VelocityTracker, PrefetchPool).  Each request may be one of  *)
(* the admin UI's, which compares two snapshots of the hit counters.       *)
(***************************************************************************)
EXTENDS Integers, Sequences, FiniteSetsExt

CONSTANTS
    Handlers,       \* goroutines in ServeHTTP
    Prefetchers,    \* prefetch workers
    Last,           \* the object has chunks 0 to Last
    ChunkLen,       \* the length of each
    Capacity,       \* shard.capacity
    MaxPuts,        \* bound: eviction goroutines at a time
    MaxWork,        \* bound: requests and jobs
    Absent, NoKey

Callers == Handlers \union Prefetchers
Keys == 0 .. Last
Lens == UNION {0 .. ChunkLen[k] : k \in Keys}

ASSUME TieredCacheAssumption ==
    /\ Last \in Nat
    /\ ChunkLen \in [Keys -> Nat]
    /\ Capacity \in Int
    /\ MaxPuts \in Nat \ {0}
    /\ MaxWork \in Nat
    /\ Handlers \intersect Prefetchers = {}
    /\ Absent \notin Lens
    /\ NoKey \notin Keys

VARIABLES
    items, order, used, handed, since,  \* HotCache
    status, want, amount, gone,         \* CoalescedGet
    disk,       \* the file of each chunk, Absent = none
    puts,       \* how many eviction goroutines write each chunk and length
    sized,      \* Backend.sizes has the object
    pc, chunk, last,    \* where a goroutine is, its chunk, the last of its range
    data,       \* what ColdCache.Get gave it
    led,        \* its joined is FALSE
    own,        \* the tiers that its chunks came from
    moved,      \* the hit counters that moved since the UI's first snapshot
    work,       \* requests and jobs that may still begin
    known,      \* history: chunks that a GET delivered
    lost,       \* history: chunks that a failed write, or an exit, lost
    spoilt      \* history: chunks that a GET or overlapping Puts cut short

hotVars    == <<items, order, used, handed, since>>
fetchVars  == <<status, want, amount, gone>>
diskVars   == <<disk, puts>>
callerVars == <<pc, chunk, last, data, led, own, moved>>
history    == <<known, lost, spoilt>>
vars       == <<items, order, used, handed, since, status, want, amount, gone, disk, puts, sized,
                pc, chunk, last, data, led, own, moved, work, known, lost, spoilt>>

Hot == INSTANCE HotCache WITH Chunks <- Lens, Size <- [d \in Lens |-> d]

Fetches == INSTANCE CoalescedGet

Init ==
    /\ Hot!Init
    /\ Fetches!Init
    /\ disk = [k \in Keys |-> Absent]
    /\ puts = [p \in Keys \X Lens |-> 0]
    /\ sized = FALSE
    /\ pc = [c \in Callers |-> "idle"]
    /\ chunk = [c \in Callers |-> 0]
    /\ last = [c \in Callers |-> 0]
    /\ data = [c \in Callers |-> 0]
    /\ led = [c \in Callers |-> FALSE]
    /\ own = [c \in Callers |-> {}]
    /\ moved = [c \in Callers |-> {}]
    /\ work = MaxWork
    /\ known = {} /\ lost = {} /\ spoilt = {}

----------------------------------------------------------------------------
(* Requests and jobs. *)

\* A range of the object is asked for; the UI has taken its first snapshot.
Request(c, from, to) ==
    /\ c \in Handlers /\ pc[c] = "idle"
    /\ work > 0 /\ work' = work - 1
    /\ pc' = [pc EXCEPT ![c] = "size"]
    /\ chunk' = [chunk EXCEPT ![c] = from]
    /\ last' = [last EXCEPT ![c] = to]
    /\ UNCHANGED <<hotVars, fetchVars, diskVars, sized, data, led, own, moved, history>>

\* ObjectSize: from the map, or from a HEAD that fills it.
ObjectSize(c) ==
    /\ pc[c] = "size"
    /\ \/ sized' = TRUE /\ pc' = [pc EXCEPT ![c] = "hot"]
       \/ ~sized /\ UNCHANGED sized /\ pc' = [pc EXCEPT ![c] = "reply"]
    /\ UNCHANGED <<hotVars, fetchVars, diskVars, chunk, last, data, led, own, moved, work, history>>

\* A worker takes a job.
Job(c, k) ==
    /\ c \in Prefetchers /\ pc[c] = "idle"
    /\ work > 0 /\ work' = work - 1
    /\ pc' = [pc EXCEPT ![c] = "hot"]
    /\ chunk' = [chunk EXCEPT ![c] = k]
    /\ last' = [last EXCEPT ![c] = k]
    /\ UNCHANGED <<hotVars, fetchVars, diskVars, sized, data, led, own, moved, history>>

Forget(c) ==
    /\ chunk' = [chunk EXCEPT ![c] = 0]
    /\ last' = [last EXCEPT ![c] = 0]

\* The client has the answer, and the UI its second snapshot.
Reply(c) ==
    /\ pc[c] = "reply"
    /\ pc' = [pc EXCEPT ![c] = "idle"]
    /\ own' = [own EXCEPT ![c] = {}]
    /\ moved' = [moved EXCEPT ![c] = {}]
    /\ Forget(c)
    /\ UNCHANGED <<hotVars, fetchVars, diskVars, sized, data, led, work, history>>

\* Slip: goes on to the chunk behind the range.
ResolvedFurther(c, t) ==
    \/ /\ c \in Prefetchers
       /\ pc' = [pc EXCEPT ![c] = "idle"]
       /\ Forget(c)
       /\ UNCHANGED own
    \/ /\ c \in Handlers
       /\ own' = [own EXCEPT ![c] = @ \union {t}]
       /\ pc' = [pc EXCEPT ![c] = IF chunk[c] = last[c] THEN "reply" ELSE "hot"]
       /\ chunk' = [chunk EXCEPT ![c] = @ + 1]
       /\ UNCHANGED last

\* The caller is done with its chunk, from tier t: the job is over, or the
\* loop of ServeHTTP goes on.
Resolved(c, t) ==
    \/ /\ c \in Prefetchers
       /\ pc' = [pc EXCEPT ![c] = "idle"]
       /\ Forget(c)
       /\ UNCHANGED own
    \/ /\ c \in Handlers
       /\ own' = [own EXCEPT ![c] = @ \union {t}]
       /\ pc' = [pc EXCEPT ![c] = IF chunk[c] = last[c] THEN "reply" ELSE "hot"]
       /\ chunk' = [chunk EXCEPT ![c] = IF @ = last[c] THEN @ ELSE @ + 1]
       /\ UNCHANGED last

\* A hit counter moves, under all requests that are on their way.
Count(t) == moved' = [c \in Callers |-> IF c \in Handlers /\ pc[c] # "idle"
                                        THEN moved[c] \union {t} ELSE moved[c]]

----------------------------------------------------------------------------
(* The tiers: resolveChunk and fetchAndCache. *)

HotHit(c) ==
    /\ pc[c] = "hot"
    /\ Hot!Hit(chunk[c])
    /\ IF c \in Handlers THEN Count("hot") ELSE UNCHANGED moved
    /\ Resolved(c, "hot")
    /\ UNCHANGED <<fetchVars, diskVars, sized, data, led, work, history>>

\* A worker does not ask the disk tier.
HotMiss(c) ==
    /\ pc[c] = "hot"
    /\ items[chunk[c]] = Absent
    /\ pc' = [pc EXCEPT ![c] = IF c \in Handlers THEN "cold" ELSE "ask"]
    /\ UNCHANGED <<hotVars, fetchVars, diskVars, sized, chunk, last, data, led, own, moved, work, history>>

\* Slip: counts the hit as a miss.
ColdHitUncounted(c) ==
    /\ pc[c] = "cold"
    /\ disk[chunk[c]] # Absent
    /\ data' = [data EXCEPT ![c] = disk[chunk[c]]]
    /\ pc' = [pc EXCEPT ![c] = "promote"]
    /\ UNCHANGED <<hotVars, fetchVars, diskVars, sized, chunk, last, led, own, moved, work, history>>

ColdHit(c) ==
    /\ pc[c] = "cold"
    /\ disk[chunk[c]] # Absent
    /\ data' = [data EXCEPT ![c] = disk[chunk[c]]]
    /\ pc' = [pc EXCEPT ![c] = "promote"]
    /\ Count("cold")
    /\ UNCHANGED <<hotVars, fetchVars, diskVars, sized, chunk, last, led, own, work, history>>

\* There is no file, or it cannot be read.
ColdMiss(c) ==
    /\ pc[c] = "cold"
    /\ pc' = [pc EXCEPT ![c] = "ask"]
    /\ UNCHANGED <<hotVars, fetchVars, diskVars, sized, chunk, last, data, led, own, moved, work, history>>

\* A goroutine for each chunk that the step evicts.
evictOnHot == puts' = [p \in Keys \X Lens |-> IF p \in handed' THEN puts[p] + 1 ELSE puts[p]]

\* How many eviction goroutines write a chunk, and how many there are.
PutsOf(k) == MapThenSumSet(LAMBDA d : puts[<<k, d>>], Lens)
Putting == MapThenSumSet(PutsOf, Keys)

\* HotCache.Put.
HotPut(k, d) ==
    /\ Hot!Replace(k, d) \/ Hot!Insert(k, d)
    /\ evictOnHot
    /\ Putting' <= MaxPuts
    /\ UNCHANGED disk

\* What came from the disk goes back into RAM.
Promote(c) ==
    /\ pc[c] = "promote"
    /\ HotPut(chunk[c], data[c])
    /\ data' = [data EXCEPT ![c] = 0]
    /\ Resolved(c, "cold")
    /\ UNCHANGED <<fetchVars, sized, led, moved, work, history>>

\* FetchChunkShared is called,
Ask(c) ==
    /\ pc[c] = "ask"
    /\ Fetches!Ask(c, chunk[c])
    /\ pc' = [pc EXCEPT ![c] = "fetch"]
    /\ UNCHANGED <<hotVars, diskVars, sized, chunk, last, data, led, own, moved, work, history>>

\* leads or joins a GET,
Elect(c) ==
    /\ \/ Fetches!Start(c) /\ led' = [led EXCEPT ![c] = TRUE]
       \/ Fetches!Attach(c) /\ led' = [led EXCEPT ![c] = FALSE]
    /\ UNCHANGED <<hotVars, diskVars, sized, pc, chunk, last, data, own, moved, work, history>>

\* which ends well, or with a body that is cut,
Delivered(c) ==
    /\ Fetches!GetDelivers(c)
    /\ known' = known \union {want[c]}
    /\ spoilt' = IF amount'[c] < ChunkLen[want[c]] THEN spoilt \union {want[c]} ELSE spoilt
    /\ UNCHANGED <<hotVars, diskVars, sized, callerVars, work, lost>>

\* or badly; or the caller is cancelled as it waits, and gives up.  (Cancelled
\* as it leads, its GET fails.)
NotDelivered(c) ==
    /\ \/ Fetches!GetFails(c)
       \/ status[c] = "attached" /\ Fetches!GoAway(c)
       \/ ~led[c] /\ Fetches!GiveUp(c)
    /\ UNCHANGED <<hotVars, diskVars, sized, callerVars, work, history>>

\* Slip: takes it that somebody else has cached what it fetched.
StoreNothing(c) ==
    /\ pc[c] = "fetch" /\ status[c] = "answered"
    /\ Fetches!Return(c)
    /\ led' = [led EXCEPT ![c] = FALSE]
    /\ UNCHANGED <<hotVars, diskVars>>
    /\ Resolved(c, "inflight")
    /\ UNCHANGED <<sized, data, moved, work, history>>

\* It returns: its leader caches the chunk.  (A worker that joined does so too:
\* FetchChunk does not tell it.)
Store(c) ==
    /\ pc[c] = "fetch" /\ status[c] = "answered"
    /\ Fetches!Return(c)
    /\ led' = [led EXCEPT ![c] = FALSE]
    /\ \/ /\ led[c] \/ c \in Prefetchers
          /\ HotPut(chunk[c], amount[c])
          /\ Resolved(c, "backend")
       \/ /\ ~led[c] /\ c \in Handlers
          /\ UNCHANGED <<hotVars, diskVars>>
          /\ Resolved(c, "inflight")
    /\ UNCHANGED <<sized, data, moved, work, history>>

\* It returns an error: a 502, or a job that is dropped.
FetchFailed(c) ==
    /\ pc[c] = "fetch" /\ status[c] = "failed"
    /\ Fetches!Return(c)
    /\ led' = [led EXCEPT ![c] = FALSE]
    /\ \/ c \in Handlers /\ pc' = [pc EXCEPT ![c] = "reply"] /\ UNCHANGED <<chunk, last>>
       \/ c \in Prefetchers /\ pc' = [pc EXCEPT ![c] = "idle"] /\ Forget(c)
    /\ UNCHANGED <<hotVars, diskVars, sized, data, own, moved, work, history>>

----------------------------------------------------------------------------
(* The disk tier, and the end of the process. *)

\* Slip: publishes the file whether it was written or not.
EndPutPublishing(k, d) ==
    /\ puts[<<k, d>>] > 0
    /\ puts' = [puts EXCEPT ![<<k, d>>] = @ - 1]
    /\ \E cut \in 0 .. d : disk' = [disk EXCEPT ![k] = cut]
    /\ UNCHANGED <<hotVars, fetchVars, sized, callerVars, work, history>>

\* An eviction goroutine ends: ColdCache.Put has replaced the file, which may
\* be cut if another Put of the chunk overlaps; or it has failed.  (What a Put
\* spoils that has itself ended by then is spoilt here when the other one ends.)
EndPut(k, d) ==
    /\ puts[<<k, d>>] > 0
    /\ puts' = [puts EXCEPT ![<<k, d>>] = @ - 1]
    /\ \/ disk' = [disk EXCEPT ![k] = d] /\ UNCHANGED <<lost, spoilt>>
       \/ /\ PutsOf(k) > 1
          /\ \E cut \in 0 .. d : disk' = [disk EXCEPT ![k] = cut]
          /\ spoilt' = spoilt \union {k}
          /\ UNCHANGED lost
       \/ lost' = lost \union {k} /\ UNCHANGED <<disk, spoilt>>
    /\ UNCHANGED <<hotVars, fetchVars, sized, callerVars, work, known>>

\* The process ends and another starts: only the files are left.
Restart ==
    /\ items' = [k \in Keys |-> Absent] /\ order' = << >> /\ used' = 0
    /\ handed' = {} /\ since' = [k \in Keys |-> {}]
    /\ status' = [c \in Callers |-> "idle"] /\ want' = [c \in Callers |-> NoKey]
    /\ amount' = [c \in Callers |-> 0] /\ gone' = [c \in Callers |-> FALSE]
    /\ puts' = [p \in Keys \X Lens |-> 0]
    /\ sized' = FALSE
    /\ pc' = [c \in Callers |-> "idle"]
    /\ chunk' = [c \in Callers |-> 0] /\ last' = [c \in Callers |-> 0]
    /\ data' = [c \in Callers |-> 0] /\ led' = [c \in Callers |-> FALSE]
    /\ own' = [c \in Callers |-> {}] /\ moved' = [c \in Callers |-> {}]
    /\ lost' = lost \union {k \in known : disk[k] = Absent}
    /\ UNCHANGED <<disk, work, known, spoilt>>

Caller(c) ==
    \/ ObjectSize(c) \/ HotHit(c) \/ HotMiss(c) \/ ColdHit(c) \/ ColdMiss(c) \/ Promote(c)
    \/ Ask(c) \/ Elect(c) \/ Delivered(c) \/ NotDelivered(c) \/ Store(c) \/ FetchFailed(c)
    \/ Reply(c)

Next ==
    \/ \E c \in Callers :
        \/ \E from \in Keys : \E to \in from .. Last : Request(c, from, to)
        \/ \E k \in Keys : Job(c, k)
        \/ Caller(c)
    \/ \E k \in Keys, d \in Lens : EndPut(k, d)
    \/ Restart

Spec == Init /\ [][Next]_vars

----------------------------------------------------------------------------
(* Properties. *)

\* The types of what the tiers and the callers hold; a caller has a place in
\* CoalescedGet just as long as it is at its own part of a fetch.
TypeOK ==
    /\ items \in [Keys -> Lens \union {Absent}]
    /\ status \in [Callers -> {"idle", "asking", "leading", "attached", "answered", "failed"}]
    /\ want \in [Callers -> Keys \union {NoKey}]
    /\ amount \in [Callers -> Lens]
    /\ gone \in [Callers -> BOOLEAN]
    /\ disk \in [Keys -> Lens \union {Absent}]
    /\ puts \in [Keys \X Lens -> Nat]
    /\ sized \in BOOLEAN
    /\ pc \in [Callers -> {"idle", "size", "hot", "cold", "promote", "ask", "fetch", "reply"}]
    /\ chunk \in [Callers -> Keys] /\ last \in [Callers -> Keys]
    /\ \A c \in Callers : chunk[c] <= last[c]
    /\ data \in [Callers -> Lens]
    /\ led \in [Callers -> BOOLEAN]
    /\ own \in [Callers -> SUBSET {"hot", "cold", "inflight", "backend"}]
    /\ moved \in [Callers -> SUBSET {"hot", "cold"}]
    /\ \A c \in Callers : pc[c] = "fetch" <=> status[c] # "idle"
    /\ known \subseteq Keys /\ lost \subseteq Keys /\ spoilt \subseteq Keys

\* The chunk is on its way into RAM: a leader has it, or a reader of its file.
InHand(k) ==
    \E c \in Callers :
        /\ chunk[c] = k
        /\ pc[c] = "promote" \/ (pc[c] = "fetch" /\ status[c] = "answered" /\ led[c])

\* handler.go:183, main.go:45: what the backend once delivered is never gone
\* for no reason.  It is in RAM, on its way there, on its way from there to
\* the disk, or on it, until a write to the disk fails or the process ends.
NoChunkVanishes ==
    \A k \in known \ lost :
        \/ items[k] # Absent
        \/ InHand(k)
        \/ \E d \in Lens : puts[<<k, d>>] > 0
        \/ disk[k] # Absent

\* A chunk is short, in whatever tier or hand it is, only if some GET of it was
\* cut or Puts of it have overlapped: the tiers mix up no chunks, and hand on
\* to one another all that they have.
ShortChunksHaveACause ==
    \A k \in Keys \ spoilt :
        /\ items[k] \in {Absent, ChunkLen[k]}
        /\ disk[k] \in {Absent, ChunkLen[k]}
        /\ \A d \in Lens : puts[<<k, d>>] > 0 => d = ChunkLen[k]
        /\ \A c \in Callers :
            (chunk[c] = k /\ pc[c] = "promote") => data[c] = ChunkLen[k]

\* serveFetch's tier.
UiTier(c) ==
    IF "hot" \in moved[c] THEN "hot" ELSE IF "cold" \in moved[c] THEN "cold" ELSE "backend"

\* ui/handler.go:132-137: the UI tells the tier of its request from counters
\* that every request moves, so it may show too fast a tier, but never one
\* that is slower than the fastest the request was served from.
UiNeverTooSlow ==
    \A c \in Handlers :
        pc[c] = "reply" =>
            /\ "hot" \in own[c] => UiTier(c) = "hot"
            /\ "cold" \in own[c] => UiTier(c) # "backend"

=============================================================================
