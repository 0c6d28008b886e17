# Predictive proxy: formal models

TLA+ models of the range-caching reverse proxy in this repository, TLC
configurations that check them on small instances, and TLAPS proofs of the
properties that matter most for every value of the constants. Paths such as
`backend.go:111` are files under `src/internal/...`; `main.go` is
`src/cmd/proxy/main.go`.

Run, inside this directory,

    tlc -workers 2 -config ChunkFetchSafety.cfg MCChunkFetch.tla
    tlapm ChunkFetchProofs.tla

and likewise for the other configurations and `...Proofs` modules.
`PROJECT.json` lists every run, the source lines of every definition, the
hazards, the findings and the theorems.

## 1. The system

The proxy serves HTTP range requests for objects of an S3-like store. An object
is cut into chunks of 4 MiB, which are cached in RAM and on disk and fetched
ahead when a reader is sequential and fast.

| Component | State | Operations | Talks to |
|---|---|---|---|
| Range handler (`proxy/handler.go`) | none between requests | `ServeHTTP`: parse the range, resolve every chunk (RAM, disk, backend), write the slices | all caches, backend client, tracker; one goroutine per request |
| Backend client (`proxy/backend.go`) | `inflight` map of flights under `mu`; `sizes`, filled once per object | `FetchChunkShared` (coalesced GET), `FetchChunk`, `ObjectSize`, `GetObjectStream` | object store; called by handlers and prefetch workers |
| Buffer pool (`cache/pool.go`) | free 4 MiB buffers | `Get`, `Put` | handlers, prefetch workers |
| RAM cache (`cache/lru.go`) | 256 shards: map, LRU list, byte count under a mutex | `Get`, `Put` (evicts) | `onEvict` starts a goroutine (main.go:45-55) |
| Disk cache (`cache/disk.go`) | files; no state in memory | `Put` (write `.tmp`, rename), `Get`, `Delete` (never called) | eviction goroutines write, handlers read |
| Prefetch pool (`engine/prefetch.go`) | bounded channel of jobs, workers, metrics | `Start`, `Schedule`, worker loop, `Stop` | handlers send, workers call the backend client and the RAM cache |
| Velocity tracker (`engine/predictor.go`) | per object: last chunk and time, streak, velocity, under one mutex | `Record`, `Evict` (never called) | handlers call it, it calls `Schedule` |
| Wiring (`main.go`) | main goroutine | start, signal, shutdown | servers, pool |
| Metrics (`metrics/prometheus.go`) | counters, a gauge, histograms | increments, `Snapshot` | everybody |
| Admin UI (`ui/handler.go`) | none | `serveFetch`: one request to the proxy between two snapshots of the metrics | metrics, proxy |
| Kernel tracker (`ebpf/`) | BPF maps per destination | per-packet update, reads | nothing: `internal/metrics/ebpf.go` refers to it, and no program to that |
| Dataset seeder (`cmd/bench/edu.go`) | job channel, first error, what is in the bucket | `runSeed`, `synthFile` reads and seeks | the object store |
| Load generator (`cmd/bench/run.go`, `workload.go`) | work channel, samples of a phase | `buildSessions`, `runPhase`, `summarize` | the proxy or the object store |

What is hard about it, and what makes each part correct:

* **Coalesced fetches.** Leader, waiters and newcomers of the same chunk meet at
  one mutex, one map and one channel; contexts are cancelled at any moment; the
  bytes live in a pooled buffer. Correct: one GET at a time per chunk, everyone
  who joined gets its bytes and nobody but the leader its error, nobody waits
  for ever.
* **Tiers.** An evicted chunk passes through a goroutine of its own to a file
  with a shared temporary name, while handlers read the file and the process may
  end. Correct: a chunk file is whole.
* **RAM shard.** The byte count, the list and the map are kept by hand. Correct:
  they agree, and eviction is LRU and no more than needed.
* **Prefetch pool.** Handlers, workers and main share a channel that is closed
  while handlers may still send. Correct: no handler is held up, no job lost, no
  panic as long as shutdown waits for the handlers, `Stop` returns.
* **Ranges.** Offsets at borders, objects whose cached size is stale, chunks
  that come short after the headers are out. Correct: exactly the bytes asked
  for, or a body that is visibly too short.
* **Seeding.** Uploads are handed out over an unbuffered channel, fail, are sent
  again from the start, and the command is killed and run again. Correct: success
  means that every file is there, whole (or, for a real file, an earlier version of
  the same size), and the producer is never stuck.
* **Tracker.** All clients of an object share one state, and time is read before
  the lock. Correct: only a real run of fast reads starts prefetching, and such
  a run does, whatever came before it.
* **Load generator.** Students take sessions from one channel and append to one
  slice; reads fail in several ways. Correct: every phase makes the same reads
  and samples each once, what a session asks for is what a student reads, the
  summary counts nothing twice, and a failing server cannot hang the benchmark.

The full list of hazards, each at its line, is in `PROJECT.json`.

## 2. Modules

| Module | Models | Checked by | Proved in |
|---|---|---|---|
| `CoalescedGet` | the promise of `FetchChunkShared`, without flights, buffers, mutex or channel | as a property of `ChunkFetch`; part of `TieredCache` | `ChunkFetchProofs` |
| `ChunkFetch` | `FetchChunkShared`, `fetchChunk` and their callers' use of the pool | `MCChunkFetch`, three configurations | `ChunkFetchProofs` |
| `ColdCache` | disk cache, eviction goroutines, process exit | `MCColdCache`, two | `ColdCacheProofs` |
| `HotCache` | a RAM shard | `MCHotCache`; part of `TieredCache` | `HotCacheProofs` |
| `PrefetchPool` | prefetch pool, `Schedule`, shutdown | `MCPrefetchPool` | `PrefetchPoolProofs` |
| `RangeServing` | one request through `ServeHTTP` | `MCRangeServing` | `RangeServingProofs` |
| `VelocityTracker` | `Record` | `MCVelocityTracker` | `VelocityTrackerProofs` |
| `TieredCache` | the composition: handlers and prefetch workers over `HotCache`, `CoalescedGet` and the disk, with the admin UI's reading of the hit counters | `MCTieredCache` | `TieredCacheProofs` |
| `Seeding` | `bench seed` | `MCSeeding` | `BenchProofs` |
| `Workload` | the sessions that `bench run` can draw | part of `Replay` | `BenchProofs` |
| `Replay` | `bench run`: phases, students, readers, summary | `MCReplay` | `BenchProofs` |

In each module an operator preceded by "Slip:" is a plausible mistake in the
definition after it. No specification uses it; substituting it must break the
property that is aimed at that mistake (`mutants` in `PROJECT.json`), which
shows that the property has teeth.

### ChunkFetch and CoalescedGet

A caller is a request goroutine or a prefetch worker; it takes a buffer
(`Begin`), runs the loop of `backend.go:114-139` (`Lead`, `Join`,
`WaitCancelled`, `WaitServed`, `WaitLeaderFailed`), fetches (`FetchWhole`,
`FetchCut`, `FetchFails`), publishes under the mutex (`Settle`), closes the
channel (`Close`) and returns (`Return`). Each step is one critical section or
the code between two points where others can see it. `Cancel` may come at any
time. Buffers hold for each byte the chunk it came from, so a byte of another
chunk, or of the buffer's last user, is seen. `waiters` is kept as the Boolean
the code asks of it. Flights and buffers that nobody refers to are reused, so
there is no bound on the number of calls.

`FetchCut` is the code's behaviour on a connection that closes early: net/http
returns `io.ErrUnexpectedEOF`, which `fetchChunk` takes for the end of a short
last chunk.

`CoalescedGet` says what callers rely on. `ChunkFetch` implements it under the
mapping `Status`/`Amount`: a waiter counts as served, or as asking again, from
the moment the flight is settled under the mutex, not when it wakes up. The
fairness of the detailed specification also implements the abstract one's.

### ColdCache

A step is a system call (create/truncate, write, rename, remove, open, read),
and reads and writes let the others see single cells. Names refer to file
objects, so a rename under an open file, and two writers of one file, behave as
on POSIX; the file system is assumed to serialise whole writes and truncations
of one file (the inode lock of Linux), which is the kind choice for the code.
`Exit` ends the process between any two steps; the files stay. Three histories:
`overlapped` are the chunks that had two `Put`s at once; `solo` are the `Put`s that
no other `Put` of their chunk has met so far; `broken` are the chunks that something
may have spoilt since a `solo` `Put` last went through.

`RacesHeal` says what is left when overlapping `Put`s have run their course: the
file is whole again and no temporary file stays behind, unless the chunk is `broken`.
Three things break one: a write that fails, an exit in the middle of a `Put`, and
`Put`s that overlap with data of different lengths. The last can happen, since a cut
body is cached as a chunk (see `FetchCut`) and an object may be replaced by a shorter
one: `.tmp` is truncated when a `Put` opens it, not when it writes, so behind a shorter
version that is written last the tail of a longer one stays in the file, for as long as
nobody evicts the chunk again. What ends it is the next `Put` of the chunk that no
other disturbs and that succeeds: its `Rename` takes `broken` back, and `RacesHeal`
speaks of the chunk again.

### HotCache

A shard as its map, its list and its byte count, each operation one step since
the mutex is held throughout. `Insert` runs the whole eviction loop: it takes
the smallest number `m` of victims from the back of the list for which the
loop's condition (`Room`) stops. The sum of a set of chunks' bytes is the number of
their cells, one for each byte. `handed` is what the step gave to `onEvict`;
`since` is a history variable for the LRU property, kept apart from the list
that implements it. `configs/proxy.config.yaml:20` calls the sum of the shards a
total budget; a shard can be over its part of it, since `Replace` evicts nothing and
`Insert` admits a chunk that is longer than the shard. `EvictionIsExact` therefore
speaks of insertions only, and of chunks that fit.

### PrefetchPool

The channel is the number of jobs in it, since nothing in the pool depends on
which chunk a job names. `Schedule` is one step per channel operation and one
per metric, so the gauge can be seen out of step. Workers choose freely between
a job and the cancelled context, as `select` does. Main shuts the server down
(`ShutdownDone` when no handler runs, or `ShutdownTimesOut`), then cancels,
closes and waits. A send on the closed channel panics and is recovered by
net/http. Requests that connections opened before the shutdown bring are
served until `Shutdown` has returned without error, and after a timeout.
`ServerFails` is `log.Fatal` when a server cannot go on: the process ends without
the deferred `Stop`, in whatever state the pool is.

### RangeServing

One request from its method and header to the last byte. A header is what the
parser distinguishes: malformed, or a text before and after the hyphen, each
empty, a number, or junk. Chunks are resolved with any length from 0 to the
chunk size, so stale sizes and cut chunks are included; sent bytes are named by
their offset in the object. Reading the object's size is left open: any size
up to the bound.

### VelocityTracker

One object, any number of concurrent `Record`s: the clock is read (`Record`),
then the locked part runs in one of the code's branches, then `Schedule` is
called. The velocity is an integer of `Unit` per chunk per tick, rounded; the
assumption asks for a `Unit` so fine that the threshold is at least 27, and two
roundings do not matter.

A break halves the average, and slow reads lower it, so a reader that goes on at just
the threshold may never be prefetched for again: the average comes ever nearer and
stays below. `SteadyReaderIsServed` therefore speaks of an object all of whose reads
were sequential and fast since the tracker first saw it. `FastReaderRecovers` speaks of
any past: at twice the threshold two sequential reads are enough
(0.3 * 2 + 0.7 * 0.3 * 2 = 1.02), so the third chunk in a row is followed, or the
`StreakThreshold`-th. `burst` is the history it needs.

### TieredCache

What the tiers do to one another. The RAM tier is an instance of `HotCache`
whose sizes are the lengths of the data, the shared fetches are an instance of
`CoalescedGet` (which `ChunkFetch` implements), and an eviction goroutine writes
its chunk in one step, as `ColdCache` shows it to do unless another `Put` of the
chunk overlaps it: then the file may be cut. A caller goes through
`resolveChunk` or `fetchAndCache` step by step (`HotHit`, `HotMiss`, `ColdHit`,
`ColdMiss`, `Promote`, `Ask`, `Elect`, `Delivered`, `Store`, `FetchFailed`), with
every step of the others in between; `Restart` ends the process at any point and
leaves the files. `known`, `lost` and `spoilt` are histories: what a GET
delivered, what a failed write or a restart lost, what was cut. `own` and
`moved` are what `ui/handler.go` compares: the tiers that served the request,
and the counters that moved between its two snapshots.

### Seeding

`runSeed`'s loop, the uploaders and the bodies they send. `Read` and `SeekTo`
are `synthFile`'s, and the SDK may rewind and resend a body (`Retry`), report an
error although the object was stored (`PutFails`); the command may be killed with
bodies under way (`Kill`) and run again (`RunAgain`), and trusts the listing.

What earlier seedings left in the bucket (`Left`) is, for a synthetic file, a beginning
of it: its bytes come of key and offset alone, so other sizes (`-scale`) agree where they
overlap. The files of `-include-dir` (`Included`) are ordinary files; they may have held
anything (`Others`) when they were uploaded, and are taken not to change from the first
modelled run on. One that was edited and kept its size is not uploaded again
(`edu.go:168`), and the command succeeds with the bytes of before in the bucket, although
`edu.go:85` calls these files "uploaded as-is". `SuccessMeansUploaded` allows exactly that
(`Passes`): what passes for an included file is one of its earlier states, and as long as
the file. A file of no bytes counts as present, because the map of existing sizes gives 0
for a missing key; `SuccessMeansUploaded` says so by leaving it out.

### Workload and Replay

`Workload` has for every object the set of read sequences that `videoReads`,
`pdfReads` and `sequential` can produce, with `capBytes`; what the code draws at
random is a choice from all values it can draw. In `Replay` main draws the
sessions, hands them to the students over the unbuffered channel (`Hand` is the
send and the receive at once), closes it, waits and summarises; a student makes
one read per step and appends its sample. `Report` makes the summary of a phase. The rows
that it writes to `requests.csv` are not modelled: the errors of `cw.Write` and `cw.Flush`
are dropped (`run.go:105`, `run.go:137`, `run.go:141`), so nothing the program does depends
on them, and nothing is claimed about the file. `S3Read` and `ProxyRead` are what the
two readers make of an answer. The operators from `All` to `Histogram` are
`summarize`, `stats` and `pct`; groups of samples are sets of their indices, and
the sorted slice is replaced by the rank of a value. Where `Seeding` has the same
name for something of `bench seed`, that of `bench run` is another (`RunSpec`,
`ReadNext`, `stage` for where main is), so that `BenchProofs` can see both.

## 3. Runs and bounds

| Run | Shows | Bounds, and why they are enough |
|---|---|---|
| `chunk_fetch_safety` | `OneGetPerChunk`, `DeliveredBytesAreTheChunks`, `WaiterFindsWhatTheGetDelivered`, `NoOrphanedWaiter`, refinement of `CoalescedGet` | 3 callers (leader, waiter, newcomer), 2 chunks (full and last), 2 bytes per chunk, 3 buffers and flights (one per caller is all that can be in use). Callers, flights and buffers are symmetric; the view drops the contents of unreferenced flights, which `Lead` resets before use and no property reads |
| `chunk_fetch_live` | `CallsGetOn` (every wait ends, and once GETs stop failing every call returns), `CancelledCallReturns`, refinement with fairness (`ServesEveryCaller`) | 2 callers, a last chunk and one past the end, no symmetry |
| `chunk_fetch_cut_body` | finding: a cut body is a success | as above |
| `cold_cache_files` | `TornOnlyByOverlap`, `ReadsAreWhole`, `RacesHeal` | 2 writers, 1 reader, 1 chunk (chunks share no state), 5 files (2 names, 3 descriptors), 3 payloads, two of 2 cells and one of 1, so that both equally and differently long data meet. Symmetry, and a view without the contents of unreferenced files |
| `cold_cache_atomic` | finding: overlapping evictions publish a torn file | as above |
| `hot_cache` | `AccountsAgree` (map, list and byte count), `EvictionIsExact` (an insertion fits, nothing is evicted in vain, the least recently used goes, and all that leaves is handed over) | 4 chunks of lengths 0, 1, 2 and 5 in a shard of 4 bytes: several victims at once, replacement over the capacity, a chunk longer than the shard |
| `prefetch_pool` | `CountsAddUp` (jobs and gauge), `PanicOnlyAfterTimeout`, `StopReturns`, `ScheduleReturns`, `FullQueueMoves` | 2 handlers, 2 workers, queue of 1, 2 jobs per call, `MaxCalls` 2: four jobs are one more than the queue and the workers can hold, so the queue is full with every worker in a GET, jobs are dropped, and shutdown overtakes senders |
| `range_serving` | `RangeIsWhatWasAsked`, `BodyIsTheRange` (all of the range if the chunks are whole, and never something else of the declared length), `NeverMoreThanDeclared` | chunk size 3, `MaxSize` 8 (three chunks, the last one short), `MaxNumber` 9 (before, at and behind the end) |
| `velocity_tracker` | `PrefetchFollowsARun`, `SteadyReaderIsServed`, `FastReaderRecovers` | 2 handlers, 4 chunks, threshold of 3, `MaxTime` 3 ticks; instants of 1, 1/2 and 1/3 chunk per tick, of which the first is over twice the threshold, the second over it and the third below. A fast read, a break and two more fast reads fit into the time; the threshold of 27 is the least that the assumption admits |
| `tiered_cache` | `NoChunkVanishes`, `ShortChunksHaveACause`, `UiNeverTooSlow` | 2 handlers (symmetric), 1 prefetch worker, 2 chunks, of 2 bytes and of 1, of which RAM holds one, so that every store of a whole one evicts; `MaxPuts` 2 eviction goroutines, which may overlap; `MaxWork` 3 requests and jobs |
| `seeding` | `SuccessMeansUploaded`, `SeedingEnds` | 2 uploaders, files of 2, 0 and 1 bytes, any beginnings of them in the bucket, 2 attempts per body, 2 runs; the last file is of `-include-dir`, and two earlier versions of it, one of the same size, may be there |
| `replay` | `SessionsAreRuns`, `EveryReadSampledOnce`, `SummaryAddsUp`, `BenchEnds` | 2 students and 3 sessions, so that one student takes a second one while main waits; 2 phases, one for each kind of reader; objects of 10, 3 and 9 bytes and an empty one (a video with a seek and a last segment that is short, a PDF whose tail and pages overlap, a download with a short last read, one that is not listed); a cap of 9 bytes, which cuts the video; three answers that differ in tier, error and bucket. All workloads are drawn and checked by `SessionsAreRuns`; those of more than `MaxReads` = 4 reads are not replayed |

A run that ends in a violation checks one sentence of the documentation against
the code; `findings` in `PROJECT.json` quotes it and tells what the run shows.

**Fairness.** `ChunkFetch!FairSpec` and `PrefetchPool!FairSpec` assume that the
Go scheduler runs every goroutine that can run (weak fairness of each one's
steps). Nothing makes a client send a request, go away, or an operator send a
signal. In `ChunkFetch` every GET is assumed to end, in a body, a cut body or an
error; the HTTP client sets no timeout, so this is an assumption about the
object store, and a GET that hangs holds all its waiters until they are
cancelled. `PrefetchPool` does not assume it: a GET is only sure to end when its
context is cancelled, and `FullQueueMoves` names the assumption in its
premise. `Shutdown` ends, because its context has a deadline. `Seeding!FairSpec`
assumes that runnable goroutines run and that every PUT ends; the SDK's retries
are bounded. `Replay!RunFairSpec` assumes that goroutines run, that every read ends
(the proxy's reader has a timeout of two minutes, the SDK's none), and that
`buildSessions` does not for ever draw sessions without reads, which its loop
would repeat.

## 4. Proofs

All proofs follow one pattern: an inductive invariant `Inv`, a conjunction of
named parts; `Init => Inv`; one step or lemma per action for `Inv /\ [Next]_vars => Inv'`;
and the theorems, which project properties out of `[]Inv`. The constants are any
sets and numbers that the module's assumption admits.

* **`ChunkFetchProofs`** (assumption `ChunkFetchAssumption`: a chunk is no longer
  than a buffer, and the null values are none of the others). `TypesHold`,
  `OneGetHolds`, `DeliveredBytesHold`, `WaitersFindTheBytes`,
  `NoWaiterIsOrphaned`. `Inv` needs: `LocalOK` (what a goroutine's place says of
  its own variables), `BuffersOwned` (a buffer has one user or is in the pool; or
  another goroutine could overwrite delivered bytes), `FlightsLed` (the map and the
  leaders agree, and no two lead one flight; `OneGetPerChunk` follows from it but is
  not inductive), `WaitersKept` (the flight of a waiter is counted, led until it is
  done, and then complete) and `BytesOK` (after a successful GET the buffer holds
  bytes of the chunk). `Implements`: `Spec` implements
  `CoalescedGet`'s, under the mapping of section 2. One lemma per action says which
  abstract step it is, or that it is none: `JoinAttaches`, `WaiterWakes`,
  `SettleEndsTheGet`, `CloseIsUnseen` and so on. They need, on top of `Inv`,
  `NothingOnFailure` (a failed GET leaves no bytes) and `EndsInChunk`. The fairness of
  the two specifications is compared by `chunk_fetch_live` only.
* **`ColdCacheProofs`** (`ColdCacheAssumption`: payloads are sequences of cells, the
  null values are none of the others). `TypesHold`, `TornOnlyByOverlapHolds`,
  `ReadsAreWholeHolds`. `Inv` needs: `WritesOK` (a write leaves no holes),
  `FilesApart` (no file serves two chunks), `IdleReads`, and `SoloSafe`: as long as
  the `Put`s of a chunk have never overlapped, the only one that runs has `.tmp` to
  itself, and neither the chunk file nor what a reader has open is `.tmp`.
  `RacesAlwaysHeal` is about the chunks whose `Put`s do overlap, with data of any
  lengths. It turns on the *sound* `Put`s (`Sound`): those of a chunk that is not
  broken, and those that are solo. `RaceInv` says that nobody is beside a solo `Put`
  (`SoloAlone`); that a sound one writes as much as any other of its chunk
  (`SameLengths`), so that no tail stays in its file (`NoTail`); of two writes to a
  file at most one has begun (`OneWriteAtATime`) and what it has put there is there
  still (`WritesKept`); a solo `Put` writes and renames the file that `.tmp` names
  (`SoloFile`), which is why it undoes whatever broke the chunk; and as long as the
  chunk is not broken its file and `.tmp` are whole or have a write to come, and
  somebody will move or remove `.tmp` (`Healing`).
* **`HotCacheProofs`** (`HotCacheAssumption`: lengths are naturals, the capacity an
  integer, and `Absent` is no chunk's data). `AccountsAlwaysAgree`, `EvictionAlwaysExact`. `Inv` is `TypeOK`,
  the two accounts and `OrderOfUse`: whatever is nearer to the front of the list
  has been used since what is behind it, which ties the list to the history `since`.
  Lemmas about the list say what taking an element out of the middle and dropping
  the back do to its places; those about bytes that disjoint sets of cells add up.
  `EvictionIsExact` follows action by action: the number of victims is the least for
  which there is room, so one fewer was not enough.
* **`PrefetchPoolProofs`** (`PrefetchPoolAssumption`: finitely many goroutines, a
  queue of at least 1). `TypesHold`, `NoJobIsLost`, `PanicsComeFromTimeouts`. The
  conservation laws are about cardinalities; `OneMoves` says what moving one element
  does to them. `ShutdownInOrder` links main's place to what it has seen of the
  handlers.
* **`RangeServingProofs`** (`RangeServingAssumption`: chunks of at least one byte).
  `TypesHold`, `RightRangeHolds`, `RightBodyHolds`, `DeclaredLengthHolds`. `Resolves`
  is about `resolveByteRange` alone, for any header and size. `UpToEdge` ties the
  body to the chunks sent: it never reaches beyond where their slices end, and it
  reaches that far only if it is the range so far, which it is if all were whole.
* **`VelocityTrackerProofs`** (`VelocityTrackerAssumption`: `Unit` is at least
  `MaxTime`, so that no velocity is rounded to 0, and the velocity threshold at least
  27). `TypesHold`, `RunsAreReal`, `SteadyReadersAreServed`, `FastReadersRecover`.
  `TrailKept` says that the last `streak`
  chunks read, as far as they are remembered, were consecutive; `SpeedKept` says
  that the average is at the threshold after fast reads alone, by the fact that a
  weighted mean lies between its values, rounding included. `BurstKept` follows the average from any value through
  two measurements of twice the threshold, of which `BlendRecovers` is the arithmetic.
* **`TieredCacheProofs`** (`TieredCacheAssumption`: lengths are naturals, handlers are
  not prefetch workers, and `Absent` is no length). `TypesHold`, `NothingIsLost`,
  `ShortnessHasACause`, `TierNotTooSlow`. The two properties about chunks are
  inductive together with `AsksItsChunk` (a fetch is of the caller's chunk),
  `AnswersWhole` (what a fetch answers with is whole, or the chunk is known to be
  spoilt) and, for the UI, `Counted`. `HotPutMoves` is all that is needed of
  `HotCache`: an insertion stores the chunk and hands over each it removes.
* **`BenchProofs`** is about both commands. For `bench seed` (`SeedingAssumption`: sizes
  are naturals, the included files are among the uploads, at least one attempt and one
  run): `TypesHold`, `SuccessHolds`.
  `HandedOut` says that without an error every upload the loop has passed is in the
  bucket, or something passes for it, or it is in an uploader's hands. `ListedOK` says
  that the listing can be trusted, which needs `BucketOK` (what is stored is a beginning
  of the file, or an earlier version of an included one), and `BodiesOK` that a body is
  always a beginning of its file, rewinds included.

  For `bench run` (`WorkloadAssumption`, `ReplayAssumption`: the chunk sizes of the
  configuration are positive, answers and buckets are numbers, there is a bucket)
  the module proves all invariants of `Replay`.
  `SessionsAlwaysRuns`: `Runs` is what a student's reads look like; `PiecesInARow` says that
  `sequential` makes such reads, `RunsConcat` when two of them in a row are one,
  `SeekLands` that a seek never lands in what was watched, and `CappedRuns` that `capBytes`
  leaves a beginning that is under the cap. `EveryReadAlwaysSampledOnce`: a session
  that is under way is one student's alone, and none is when main goes on (`TurnsOK`); the
  samples are exactly those of the reads that their students have passed
  (`SampledOK`), which at the end of a phase are all.
  `SummaryAlwaysAddsUp`: `GroupsAddUp` builds a bijection between the members of
  disjoint groups and the places counted in them; `RankedIs` finds a latency of every
  rank, by the least number of a set; `PercentileRanks` is the arithmetic of `pct`.

Every invariant and every action property that a run checks is a theorem. What stays
with TLC: liveness (`CallsGetOn`, `CancelledCallReturns`, `ServesEveryCaller`, `StopReturns`,
`ScheduleReturns`, `FullQueueMoves`, `SeedingEnds`, `BenchEnds`), for which the prover has no rules
about fairness; and the findings, which are single behaviours.

Sums and lists are kept within the provers' reach by the way they are written: a
sum is the cardinality of a set of cells (`Bytes`, `BytesOf`, `Total`), not a recursion,
and facts about all lengths rest on the least number of a set (`LeastNumber`, from
the well-founded order of the naturals) instead of induction over data.

## 5. What is not modelled, and why

* The kernel tracker: it is not part of the running program. Only
  `internal/metrics/ebpf.go` refers to it, and nothing refers to that.
* Of the load generator: the popularity weights (`Workload` admits every object that
  is listed), the table by segment of a video (`bySeq`, which counts failed reads
  among the five it asks for, `run.go:346`), the progress printer, the layout of the
  files. `-sessions 0` with a proxy phase indexes an empty list (`run.go:126`), and with
  `-students 0` nobody receives and main hangs in its first send (`run.go:220`), as
  `bench seed` does with `-parallel 0` (`edu.go:209`) unless the catalog is empty; the
  assumptions ask for a session and a student, and `Seeding` is checked with two uploaders.
* `requests.csv`. Its writes may fail unseen, so a run can end well with rows missing.
* Four reads are few for percentiles: in the run `replay` the 90th and the 99th are the
  largest. The theorem is about any number.
* Range numbers that do not fit into 64 bits: the parser refuses them like junk, and so
  does the model (they are `Junk`).
* The admin UI's page and its configuration; its tier inference is in `TieredCache`.
* New versions of an object. Neither tier knows versions and nothing is promised
  about them; `TieredCache` keeps the object as it is, `RangeServing` allows any
  cached size.
* The HTTP transport's connections. `configs/proxy.config.yaml:37` calls `max_conns` an
  upper bound on idle and active connections, while `backend.go:61` limits idle
  ones only; no state of the program counts connections, so no model does.
* Growth without bound: one tracker state per object ever asked for
  (`predictor.go:46`), one goroutine with a chunk per eviction (`main.go:46`).
  `TieredCache` bounds the goroutines by `MaxPuts`.
* HTTP itself, TLS, the AWS SDK and its retries: external. The outcomes the code
  distinguishes (a whole body, a cut body, an error) are all choices of the model.
* Hash collisions of `fnv1aHash64` in `chunkPath`: two objects would share files.
  The models take paths as injective.
* Configuration, flags, logging, latency histograms.

## 6. Plan

In the order of importance. Done:

1. `ChunkFetch`, `CoalescedGet`, their proofs, and the refinement between them.
2. `ColdCache` and its proofs.
3. `HotCache`.
4. `PrefetchPool` and its proofs.
5. `RangeServing` and its proofs.
6. `VelocityTracker` and its proofs.
7. `TieredCache`, the composition of 1 to 3, and its proofs.
8. `Seeding` and its proofs.
9. `Workload` and `Replay`.
10. Proofs of `HotCache`, of `RacesHeal` for data of any lengths, and of `Workload` and
    `Replay`.

Still wanted:

11. A version of each object in `TieredCache`, once the code says what a replaced
    object should look like.
12. A theorem that the RAM tier of `TieredCache` implements `HotCache`, so that what is
    proved of a shard is proved of the composition.

Runs are kept few: one per question.
