-------------------------- MODULE TieredCacheProofs --------------------------
(***************************************************************************)
(* Proofs about TieredCache for any number of handlers, workers, chunks    *)
(* and evictions, and a shard of any capacity.  Which chunks an insertion  *)
(* evicts does not matter to them, only that all of these are handed over  *)
(* (HotPutMoves).                                                          *)
(***************************************************************************)
EXTENDS TieredCache, TLAPS

Stages == {"idle", "size", "hot", "cold", "promote", "ask", "fetch", "reply"}
Statuses == {"idle", "asking", "leading", "attached", "answered", "failed"}

----------------------------------------------------------------------------
(* The inductive invariant, in parts. *)

\* A fetch is of the caller's chunk, and its leader knows that it leads.
AsksItsChunk ==
    \A c \in Callers :
        /\ pc[c] = "fetch" => want[c] = chunk[c]
        /\ status[c] = "leading" => led[c]

\* What a caller is answered with is whole, or there is a cause.
AnswersWhole ==
    \A c \in Callers :
        (status[c] = "answered" /\ chunk[c] \notin spoilt) => amount[c] = ChunkLen[chunk[c]]

\* The counters of the tiers that served a request have moved.
Counted ==
    \A c \in Handlers :
        /\ "hot" \in own[c] => "hot" \in moved[c]
        /\ ("cold" \in own[c] \/ pc[c] = "promote") => "cold" \in moved[c]

Typed == TypeOK /\ AsksItsChunk

\* TypeOK and AsksItsChunk once more, by what they are about.
TierTypes ==
    /\ items \in [Keys -> Lens \union {Absent}]
    /\ disk \in [Keys -> Lens \union {Absent}]
    /\ puts \in [Keys \X Lens -> Nat]
    /\ sized \in BOOLEAN
    /\ known \subseteq Keys /\ lost \subseteq Keys /\ spoilt \subseteq Keys

FetchTypes ==
    /\ status \in [Callers -> Statuses]
    /\ want \in [Callers -> Keys \union {NoKey}]
    /\ amount \in [Callers -> Lens]
    /\ gone \in [Callers -> BOOLEAN]

CallerTypes ==
    /\ pc \in [Callers -> Stages]
    /\ chunk \in [Callers -> Keys] /\ last \in [Callers -> Keys]
    /\ \A c \in Callers : chunk[c] <= last[c]
    /\ data \in [Callers -> Lens]
    /\ led \in [Callers -> BOOLEAN]
    /\ own \in [Callers -> SUBSET {"hot", "cold", "inflight", "backend"}]
    /\ moved \in [Callers -> SUBSET {"hot", "cold"}]

InStep ==
    \A c \in Callers :
        /\ pc[c] = "fetch" <=> status[c] # "idle"
        /\ pc[c] = "fetch" => want[c] = chunk[c]
        /\ status[c] = "leading" => led[c]

\* A caller has the chunk that it is to put into RAM.
Holds(c) ==
    \/ pc[c] = "promote"
    \/ pc[c] = "fetch" /\ status[c] = "answered" /\ led[c]

Inv == Typed /\ NoChunkVanishes /\ ShortChunksHaveACause /\ AnswersWhole /\ Counted

----------------------------------------------------------------------------
(* Lengths, and what the operations of the tiers do. *)

\* A chunk, and whatever is cut off it, has a length; no length is Absent.
LEMMA Lengths ==
    /\ 0 \in Keys /\ 0 \in Lens /\ Lens \subseteq Nat /\ Absent \notin Lens
    /\ \A k \in Keys : ChunkLen[k] \in Lens /\ ChunkLen[k] \in Nat
    /\ \A k \in Keys, m \in Nat : m <= ChunkLen[k] => m \in Lens
    /\ \A d \in Lens : \A m \in 0 .. d : m \in Lens
<1> USE TieredCacheAssumption
<1>1. 0 \in Keys /\ \A k \in Keys : ChunkLen[k] \in Nat
  BY DEF Keys
<1>2. \A k \in Keys, m \in Nat : m <= ChunkLen[k] => m \in Lens
  BY <1>1 DEF Lens
<1>3. \A d \in Lens : d \in Nat /\ \E k \in Keys : d <= ChunkLen[k]
  BY <1>1 DEF Lens
<1> QED
  BY <1>1, <1>2, <1>3

\* HotCache.Put leaves the chunk in RAM; whatever else it takes out of RAM is
\* handed over as it was.
LEMMA HotPutMoves ==
    ASSUME Typed, NEW k \in Keys, NEW d \in Lens, HotPut(k, d)
    PROVE  /\ items' \in [Keys -> Lens \union {Absent}]
           /\ puts' \in [Keys \X Lens -> Nat]
           /\ UNCHANGED disk
           /\ items'[k] = d
           /\ \A j \in Keys \ {k} : items'[j] \in {items[j], Absent}
           /\ \A j \in Keys : (items[j] # Absent /\ items'[j] = Absent) => puts'[<<j, items[j]>>] > 0
           /\ \A j \in Keys, e \in Lens : puts[<<j, e>>] > 0 => puts'[<<j, e>>] > 0
           /\ \A j \in Keys, e \in Lens :
                puts'[<<j, e>>] > 0 => puts[<<j, e>>] > 0 \/ e = items[j]
<1>1. items \in [Keys -> Lens \union {Absent}] /\ puts \in [Keys \X Lens -> Nat]
  BY DEF Typed, TypeOK
<1>2. UNCHANGED disk /\ evictOnHot
  BY DEF HotPut
<1>3. PICK V :
        /\ items' = [j \in Keys |-> IF j = k THEN d ELSE IF j \in V THEN Absent ELSE items[j]]
        /\ handed' = {<<j, items[j]>> : j \in V}
  <2>1. CASE Hot!Replace(k, d)
    <3>1. items' = [items EXCEPT ![k] = d] /\ handed' = {}
      BY <2>1 DEF Hot!Replace
    <3>2. items' = [j \in Keys |-> IF j = k THEN d ELSE IF j \in {} THEN Absent ELSE items[j]]
      BY <1>1, <3>1
    <3>3. handed' = {<<j, items[j]>> : j \in {}}
      BY <3>1
    <3> QED
      BY <3>2, <3>3
  <2>2. CASE Hot!Insert(k, d)
    BY <2>2 DEF Hot!Insert
  <2> QED
    BY <2>1, <2>2 DEF HotPut
<1>4. \A j \in Keys, e \in Lens : <<j, e>> \in handed' <=> j \in V /\ e = items[j]
  BY <1>3
<1>5. \A j \in Keys, e \in Lens :
        puts'[<<j, e>>] = IF <<j, e>> \in handed' THEN puts[<<j, e>>] + 1 ELSE puts[<<j, e>>]
  BY <1>2 DEF evictOnHot
<1>6. puts' \in [Keys \X Lens -> Nat]
  BY <1>1, <1>2 DEF evictOnHot
<1>7. /\ items' \in [Keys -> Lens \union {Absent}] /\ items'[k] = d
      /\ \A j \in Keys \ {k} : items'[j] \in {items[j], Absent}
  BY <1>1, <1>3
<1>8. ASSUME NEW j \in Keys, items[j] # Absent, items'[j] = Absent
      PROVE  puts'[<<j, items[j]>>] > 0
  <2>1. items[j] \in Lens /\ j \in V
    BY <1>1, <1>3, <1>7, <1>8, Lengths
  <2> QED
    BY <1>1, <1>4, <1>5, <2>1
<1>9. ASSUME NEW j \in Keys, NEW e \in Lens
      PROVE  /\ puts[<<j, e>>] > 0 => puts'[<<j, e>>] > 0
             /\ puts'[<<j, e>>] > 0 => puts[<<j, e>>] > 0 \/ e = items[j]
  BY <1>1, <1>4, <1>5
<1> QED
  BY <1>2, <1>6, <1>7, <1>8, <1>9

\* A caller that is done with its chunk moves on, alone.
LEMMA ResolvedMoves ==
    ASSUME TypeOK, NEW c \in Callers, NEW t \in {"hot", "cold", "inflight", "backend"},
           Resolved(c, t)
    PROVE  /\ pc' \in [Callers -> Stages] /\ pc'[c] \in {"idle", "reply", "hot"}
           /\ chunk' \in [Callers -> Keys] /\ last' \in [Callers -> Keys]
           /\ own' \in [Callers -> SUBSET {"hot", "cold", "inflight", "backend"}]
           /\ \A d \in Callers : chunk'[d] <= last'[d]
           /\ \A d \in Callers \ {c} :
                pc'[d] = pc[d] /\ chunk'[d] = chunk[d] /\ own'[d] = own[d]
           /\ c \in Handlers => own'[c] = own[c] \union {t}
<1> USE TieredCacheAssumption, Lengths
<1>1. CASE c \in Prefetchers /\ pc' = [pc EXCEPT ![c] = "idle"] /\ Forget(c) /\ UNCHANGED own
  BY <1>1 DEF TypeOK, Forget, Stages
<1>2. CASE /\ c \in Handlers /\ own' = [own EXCEPT ![c] = @ \union {t}]
           /\ pc' = [pc EXCEPT ![c] = IF chunk[c] = last[c] THEN "reply" ELSE "hot"]
           /\ chunk' = [chunk EXCEPT ![c] = IF @ = last[c] THEN @ ELSE @ + 1]
           /\ UNCHANGED last
  <2>1. own' \in [Callers -> SUBSET {"hot", "cold", "inflight", "backend"}]
    BY <1>2 DEF TypeOK
  <2>2. pc' \in [Callers -> Stages] /\ pc'[c] \in {"idle", "reply", "hot"}
    BY <1>2 DEF TypeOK, Stages
  <2>3. chunk' \in [Callers -> Keys] /\ last' \in [Callers -> Keys]
    BY <1>2 DEF TypeOK, Keys
  <2>4. \A d \in Callers : chunk'[d] <= last'[d]
    BY <1>2 DEF TypeOK, Keys
  <2>5. /\ \A d \in Callers \ {c} : pc'[d] = pc[d] /\ chunk'[d] = chunk[d] /\ own'[d] = own[d]
        /\ own'[c] = own[c] \union {t}
    BY <1>2 DEF TypeOK
  <2> QED
    BY <2>1, <2>2, <2>3, <2>4, <2>5
<1> QED
  BY <1>1, <1>2 DEF Resolved

----------------------------------------------------------------------------
(* Types, and who asks for what. *)

\* The parts say the same as the whole.
LEMMA TypedInParts == Typed <=> TierTypes /\ FetchTypes /\ CallerTypes /\ InStep
BY DEF Typed, TypeOK, AsksItsChunk, TierTypes, FetchTypes, CallerTypes, InStep, Stages, Statuses

\* A GET that ends well answers its leader and those who share it, all of them
\* about the chunk that the leader asked for.
LEMMA DeliveredMoves ==
    ASSUME Typed, NEW c \in Callers, Delivered(c)
    PROVE  /\ pc[c] = "fetch" /\ led[c] /\ chunk[c] \in Keys
           /\ status' \in [Callers -> Statuses] /\ amount' \in [Callers -> Lens]
           /\ UNCHANGED <<want, gone, hotVars, diskVars, sized, callerVars, work, lost>>
           /\ known' = known \union {chunk[c]}
           /\ status'[c] = "answered"
           /\ \E m \in Lens :
                /\ \/ m = ChunkLen[chunk[c]] /\ spoilt' = spoilt
                   \/ spoilt' = spoilt \union {chunk[c]}
                /\ \A d \in Callers :
                    \/ status'[d] = status[d] /\ amount'[d] = amount[d]
                    \/ /\ status[d] \in {"leading", "attached"} /\ status'[d] = "answered"
                       /\ amount'[d] = m /\ chunk[d] = chunk[c]
<1>0. FetchTypes /\ CallerTypes /\ InStep
  BY TypedInParts
<1>1. status[c] = "leading" /\ pc[c] = "fetch" /\ led[c] /\ chunk[c] \in Keys /\ want[c] = chunk[c]
  BY <1>0 DEF Delivered, Fetches!GetDelivers, InStep, CallerTypes
<1>2. PICK m \in 0 .. ChunkLen[chunk[c]] :
        /\ status' = [d \in Callers |-> IF d \in Fetches!Party(c) \union {c} THEN "answered" ELSE status[d]]
        /\ amount' = [d \in Callers |-> IF d \in Fetches!Party(c) \union {c} THEN m ELSE amount[d]]
  BY <1>1 DEF Delivered, Fetches!GetDelivers
<1>3. m \in Lens /\ m \in Nat /\ ChunkLen[chunk[c]] \in Nat /\ m <= ChunkLen[chunk[c]]
  BY <1>1, Lengths
<1>4. ASSUME NEW d \in Callers, d \in Fetches!Party(c) \union {c}
      PROVE  status[d] \in {"leading", "attached"} /\ chunk[d] = chunk[c]
  BY <1>0, <1>1, <1>4 DEF Fetches!Party, InStep
<1>5. \A d \in Callers :
        \/ status'[d] = status[d] /\ amount'[d] = amount[d]
        \/ /\ status[d] \in {"leading", "attached"} /\ status'[d] = "answered"
           /\ amount'[d] = m /\ chunk[d] = chunk[c]
  BY <1>2, <1>4
<1>6. status' \in [Callers -> Statuses] /\ amount' \in [Callers -> Lens]
  BY <1>0, <1>2, <1>3 DEF FetchTypes, Statuses
<1>7. /\ UNCHANGED <<want, gone, hotVars, diskVars, sized, callerVars, work, lost>>
      /\ known' = known \union {chunk[c]}
      /\ spoilt' = IF amount'[c] < ChunkLen[chunk[c]] THEN spoilt \union {chunk[c]} ELSE spoilt
  BY <1>1 DEF Delivered, Fetches!GetDelivers
<1>8. status'[c] = "answered" /\ amount'[c] = m
  BY <1>2
<1>9. (m = ChunkLen[chunk[c]] /\ spoilt' = spoilt) \/ spoilt' = spoilt \union {chunk[c]}
  BY <1>3, <1>7, <1>8
<1> QED
  BY <1>1, <1>3, <1>5, <1>6, <1>7, <1>8, <1>9

\* One that ends badly, or a caller that gives up, takes no chunk out of the
\* hands of a leader.
LEMMA NotDeliveredMoves ==
    ASSUME Typed, NEW c \in Callers, NotDelivered(c)
    PROVE  /\ status' \in [Callers -> Statuses] /\ amount' \in [Callers -> Lens]
           /\ gone' \in [Callers -> BOOLEAN]
           /\ UNCHANGED <<want, hotVars, diskVars, sized, callerVars, work, history>>
           /\ \A d \in Callers :
                \/ status'[d] = status[d] /\ amount'[d] = amount[d]
                \/ /\ status'[d] \in {"asking", "failed"} /\ status[d] # "idle"
                   /\ ~(status[d] = "answered" /\ led[d])
<1>0. FetchTypes /\ UNCHANGED <<hotVars, diskVars, sized, callerVars, work, history>>
  BY TypedInParts DEF NotDelivered
<1> USE Lengths
<1>1. CASE Fetches!GetFails(c)
  <2>1. /\ status' = [d \in Callers |-> IF d = c THEN "failed"
                                         ELSE IF d \in Fetches!Party(c) THEN "asking" ELSE status[d]]
        /\ UNCHANGED <<want, amount, gone>> /\ status[c] = "leading"
    BY <1>1 DEF Fetches!GetFails
  <2>2. \A d \in Fetches!Party(c) : status[d] = "attached"
    BY DEF Fetches!Party
  <2> QED
    BY <1>0, <2>1, <2>2 DEF FetchTypes, Statuses
<1>2. CASE status[c] = "attached" /\ Fetches!GoAway(c)
  BY <1>0, <1>2 DEF Fetches!GoAway, FetchTypes, Statuses
<1>3. CASE ~led[c] /\ Fetches!GiveUp(c)
  BY <1>0, <1>3 DEF Fetches!GiveUp, FetchTypes, Statuses
<1> QED
  BY <1>1, <1>2, <1>3 DEF NotDelivered

\* What the tiers hold.
LEMMA TierTypesKept == Typed /\ Next => TierTypes'
<1> SUFFICES ASSUME Typed, Next PROVE TierTypes'
  OBVIOUS
<1>0. TierTypes /\ FetchTypes /\ CallerTypes /\ InStep
  BY TypedInParts
<1> USE TieredCacheAssumption, Lengths
<1>1. ASSUME NEW c \in Callers, NEW from \in Keys, NEW to \in from .. Last, Request(c, from, to)
      PROVE  TierTypes'
  BY <1>0, <1>1 DEF Request, TierTypes, hotVars, diskVars, history
<1>2. ASSUME NEW c \in Callers, NEW k \in Keys, Job(c, k) PROVE  TierTypes'
  BY <1>0, <1>2 DEF Job, TierTypes, hotVars, diskVars, history
<1>3. ASSUME NEW c \in Callers, ObjectSize(c) PROVE  TierTypes'
  BY <1>0, <1>3 DEF ObjectSize, TierTypes, hotVars, diskVars, history
<1>4. ASSUME NEW c \in Callers, HotHit(c) PROVE  TierTypes'
  BY <1>0, <1>4 DEF HotHit, Hot!Hit, TierTypes, diskVars, history
<1>5. ASSUME NEW c \in Callers, HotMiss(c) PROVE  TierTypes'
  BY <1>0, <1>5 DEF HotMiss, TierTypes, hotVars, diskVars, history
<1>6. ASSUME NEW c \in Callers, ColdHit(c) PROVE  TierTypes'
  BY <1>0, <1>6 DEF ColdHit, TierTypes, hotVars, diskVars, history
<1>7. ASSUME NEW c \in Callers, ColdMiss(c) PROVE  TierTypes'
  BY <1>0, <1>7 DEF ColdMiss, TierTypes, hotVars, diskVars, history
<1>8. ASSUME NEW c \in Callers, Promote(c) PROVE  TierTypes'
  <2>1. items' \in [Keys -> Lens \union {Absent}] /\ puts' \in [Keys \X Lens -> Nat] /\ UNCHANGED disk
    BY <1>0, <1>8, HotPutMoves DEF Promote, CallerTypes
  <2> QED
    BY <1>0, <1>8, <2>1 DEF Promote, TierTypes, history
<1>9. ASSUME NEW c \in Callers, Ask(c) PROVE  TierTypes'
  BY <1>0, <1>9 DEF Ask, TierTypes, hotVars, diskVars, history
<1>10. ASSUME NEW c \in Callers, Elect(c) PROVE  TierTypes'
  BY <1>0, <1>10 DEF Elect, TierTypes, hotVars, diskVars, history
<1>11. ASSUME NEW c \in Callers, Delivered(c) PROVE  TierTypes'
  BY <1>0, <1>11, DeliveredMoves DEF TierTypes, hotVars, diskVars
<1>12. ASSUME NEW c \in Callers, NotDelivered(c) PROVE  TierTypes'
  BY <1>0, <1>12, NotDeliveredMoves DEF TierTypes, hotVars, diskVars, history
<1>13. ASSUME NEW c \in Callers, Store(c) PROVE  TierTypes'
  <2>1. CASE HotPut(chunk[c], amount[c])
    <3>1. items' \in [Keys -> Lens \union {Absent}] /\ puts' \in [Keys \X Lens -> Nat] /\ UNCHANGED disk
      BY <1>0, <2>1, HotPutMoves DEF FetchTypes, CallerTypes
    <3> QED
      BY <1>0, <1>13, <3>1 DEF Store, TierTypes, history
  <2>2. CASE UNCHANGED <<hotVars, diskVars>>
    BY <1>0, <1>13, <2>2 DEF Store, TierTypes, hotVars, diskVars, history
  <2> QED
    BY <1>13, <2>1, <2>2 DEF Store
<1>14. ASSUME NEW c \in Callers, FetchFailed(c) PROVE  TierTypes'
  BY <1>0, <1>14 DEF FetchFailed, TierTypes, hotVars, diskVars, history
<1>15. ASSUME NEW c \in Callers, Reply(c) PROVE  TierTypes'
  BY <1>0, <1>15 DEF Reply, TierTypes, hotVars, diskVars, history
<1>16. ASSUME NEW k \in Keys, NEW d \in Lens, EndPut(k, d) PROVE  TierTypes'
  BY <1>0, <1>16 DEF EndPut, TierTypes, hotVars
<1>17. CASE Restart
  BY <1>0, <1>17 DEF Restart, TierTypes
<1> QED
  BY <1>1, <1>2, <1>3, <1>4, <1>5, <1>6, <1>7, <1>8, <1>9, <1>10, <1>11, <1>12, <1>13, <1>14,
     <1>15, <1>16, <1>17 DEF Next, Caller

\* What a fetch knows.
LEMMA FetchTypesKept == Typed /\ Next => FetchTypes'
<1> SUFFICES ASSUME Typed, Next PROVE FetchTypes'
  OBVIOUS
<1>0. TierTypes /\ FetchTypes /\ CallerTypes /\ InStep
  BY TypedInParts
<1> USE TieredCacheAssumption, Lengths
<1>1. ASSUME NEW c \in Callers, NEW from \in Keys, NEW to \in from .. Last, Request(c, from, to)
      PROVE  FetchTypes'
  BY <1>0, <1>1 DEF Request, FetchTypes, fetchVars
<1>2. ASSUME NEW c \in Callers, NEW k \in Keys, Job(c, k) PROVE  FetchTypes'
  BY <1>0, <1>2 DEF Job, FetchTypes, fetchVars
<1>3. ASSUME NEW c \in Callers, ObjectSize(c) PROVE  FetchTypes'
  BY <1>0, <1>3 DEF ObjectSize, FetchTypes, fetchVars
<1>4. ASSUME NEW c \in Callers, HotHit(c) PROVE  FetchTypes'
  BY <1>0, <1>4 DEF HotHit, FetchTypes, fetchVars
<1>5. ASSUME NEW c \in Callers, HotMiss(c) PROVE  FetchTypes'
  BY <1>0, <1>5 DEF HotMiss, FetchTypes, fetchVars
<1>6. ASSUME NEW c \in Callers, ColdHit(c) PROVE  FetchTypes'
  BY <1>0, <1>6 DEF ColdHit, FetchTypes, fetchVars
<1>7. ASSUME NEW c \in Callers, ColdMiss(c) PROVE  FetchTypes'
  BY <1>0, <1>7 DEF ColdMiss, FetchTypes, fetchVars
<1>8. ASSUME NEW c \in Callers, Promote(c) PROVE  FetchTypes'
  BY <1>0, <1>8 DEF Promote, FetchTypes, fetchVars
<1>9. ASSUME NEW c \in Callers, Ask(c) PROVE  FetchTypes'
  BY <1>0, <1>9 DEF Ask, Fetches!Ask, FetchTypes, Statuses, CallerTypes
<1>10. ASSUME NEW c \in Callers, Elect(c) PROVE  FetchTypes'
  BY <1>0, <1>10 DEF Elect, Fetches!Start, Fetches!Attach, FetchTypes, Statuses
<1>11. ASSUME NEW c \in Callers, Delivered(c) PROVE  FetchTypes'
  BY <1>0, <1>11, DeliveredMoves DEF FetchTypes
<1>12. ASSUME NEW c \in Callers, NotDelivered(c) PROVE  FetchTypes'
  BY <1>0, <1>12, NotDeliveredMoves DEF FetchTypes
<1>13. ASSUME NEW c \in Callers, Store(c) PROVE  FetchTypes'
  BY <1>0, <1>13 DEF Store, Fetches!Return, FetchTypes, Statuses
<1>14. ASSUME NEW c \in Callers, FetchFailed(c) PROVE  FetchTypes'
  BY <1>0, <1>14 DEF FetchFailed, Fetches!Return, FetchTypes, Statuses
<1>15. ASSUME NEW c \in Callers, Reply(c) PROVE  FetchTypes'
  BY <1>0, <1>15 DEF Reply, FetchTypes, fetchVars
<1>16. ASSUME NEW k \in Keys, NEW d \in Lens, EndPut(k, d) PROVE  FetchTypes'
  BY <1>0, <1>16 DEF EndPut, FetchTypes, fetchVars
<1>17. CASE Restart
  BY <1>0, <1>17 DEF Restart, FetchTypes, Statuses
<1> QED
  BY <1>1, <1>2, <1>3, <1>4, <1>5, <1>6, <1>7, <1>8, <1>9, <1>10, <1>11, <1>12, <1>13, <1>14,
     <1>15, <1>16, <1>17 DEF Next, Caller

\* Where the callers are.
LEMMA CallerTypesKept == Typed /\ Next => CallerTypes'
<1> SUFFICES ASSUME Typed, Next PROVE CallerTypes'
  OBVIOUS
<1>0. TierTypes /\ FetchTypes /\ CallerTypes /\ InStep
  BY TypedInParts
<1> USE TieredCacheAssumption, Lengths
<1>1. ASSUME NEW c \in Callers, NEW from \in Keys, NEW to \in from .. Last, Request(c, from, to)
      PROVE  CallerTypes'
  BY <1>0, <1>1 DEF Request, Keys, CallerTypes, Stages
<1>2. ASSUME NEW c \in Callers, NEW k \in Keys, Job(c, k) PROVE  CallerTypes'
  BY <1>0, <1>2 DEF Job, Keys, CallerTypes, Stages
<1>3. ASSUME NEW c \in Callers, ObjectSize(c) PROVE  CallerTypes'
  BY <1>0, <1>3 DEF ObjectSize, CallerTypes, Stages
<1>4. ASSUME NEW c \in Callers, HotHit(c) PROVE  CallerTypes'
  <2>1. Resolved(c, "hot") /\ UNCHANGED <<data, led>>
    BY <1>4 DEF HotHit
  <2>2. moved' \in [Callers -> SUBSET {"hot", "cold"}]
    BY <1>0, <1>4 DEF HotHit, Count, CallerTypes
  <2> QED
    BY <1>0, <2>1, <2>2, ResolvedMoves DEF CallerTypes, Typed
<1>5. ASSUME NEW c \in Callers, HotMiss(c) PROVE  CallerTypes'
  BY <1>0, <1>5 DEF HotMiss, CallerTypes, Stages
<1>6. ASSUME NEW c \in Callers, ColdHit(c) PROVE  CallerTypes'
  <2>1. moved' \in [Callers -> SUBSET {"hot", "cold"}]
    BY <1>0, <1>6 DEF ColdHit, Count, CallerTypes
  <2> QED
    BY <1>0, <1>6, <2>1 DEF ColdHit, TierTypes, CallerTypes, Stages
<1>7. ASSUME NEW c \in Callers, ColdMiss(c) PROVE  CallerTypes'
  BY <1>0, <1>7 DEF ColdMiss, CallerTypes, Stages
<1>8. ASSUME NEW c \in Callers, Promote(c) PROVE  CallerTypes'
  <2>1. Resolved(c, "cold") /\ UNCHANGED <<led, moved>> /\ data' = [data EXCEPT ![c] = 0]
    BY <1>8 DEF Promote
  <2> QED
    BY <1>0, <2>1, ResolvedMoves DEF CallerTypes, Typed
<1>9. ASSUME NEW c \in Callers, Ask(c) PROVE  CallerTypes'
  BY <1>0, <1>9 DEF Ask, CallerTypes, Stages
<1>10. ASSUME NEW c \in Callers, Elect(c) PROVE  CallerTypes'
  BY <1>0, <1>10 DEF Elect, CallerTypes
<1>11. ASSUME NEW c \in Callers, Delivered(c) PROVE  CallerTypes'
  BY <1>0, <1>11, DeliveredMoves DEF CallerTypes, callerVars
<1>12. ASSUME NEW c \in Callers, NotDelivered(c) PROVE  CallerTypes'
  BY <1>0, <1>12, NotDeliveredMoves DEF CallerTypes, callerVars
<1>13. ASSUME NEW c \in Callers, Store(c) PROVE  CallerTypes'
  <2>1. /\ UNCHANGED <<data, moved>> /\ led' = [led EXCEPT ![c] = FALSE]
        /\ Resolved(c, "backend") \/ Resolved(c, "inflight")
    BY <1>13 DEF Store
  <2> QED
    BY <1>0, <2>1, ResolvedMoves DEF CallerTypes, Typed
<1>14. ASSUME NEW c \in Callers, FetchFailed(c) PROVE  CallerTypes'
  <2>1. UNCHANGED <<data, own, moved>> /\ led' = [led EXCEPT ![c] = FALSE]
    BY <1>14 DEF FetchFailed
  <2>2. CASE pc' = [pc EXCEPT ![c] = "reply"] /\ UNCHANGED <<chunk, last>>
    BY <1>0, <2>1, <2>2 DEF CallerTypes, Stages
  <2>3. CASE pc' = [pc EXCEPT ![c] = "idle"] /\ Forget(c)
    BY <1>0, <2>1, <2>3 DEF CallerTypes, Stages, Forget
  <2> QED
    BY <1>14, <2>2, <2>3 DEF FetchFailed
<1>15. ASSUME NEW c \in Callers, Reply(c) PROVE  CallerTypes'
  BY <1>0, <1>15 DEF Reply, Forget, CallerTypes, Stages
<1>16. ASSUME NEW k \in Keys, NEW d \in Lens, EndPut(k, d) PROVE  CallerTypes'
  BY <1>0, <1>16 DEF EndPut, CallerTypes, callerVars
<1>17. CASE Restart
  BY <1>0, <1>17 DEF Restart, CallerTypes, Stages
<1> QED
  BY <1>1, <1>2, <1>3, <1>4, <1>5, <1>6, <1>7, <1>8, <1>9, <1>10, <1>11, <1>12, <1>13, <1>14,
     <1>15, <1>16, <1>17 DEF Next, Caller

\* A fetch is of the caller's chunk, and its leader knows that it leads.
LEMMA InStepKept == Typed /\ Next => InStep'
<1> SUFFICES ASSUME Typed, Next PROVE InStep'
  OBVIOUS
<1>0. TierTypes /\ FetchTypes /\ CallerTypes /\ InStep
  BY TypedInParts
<1> USE TieredCacheAssumption, Lengths
<1>1. ASSUME NEW c \in Callers, NEW from \in Keys, NEW to \in from .. Last, Request(c, from, to)
      PROVE  InStep'
  BY <1>0, <1>1 DEF Request, InStep, fetchVars
<1>2. ASSUME NEW c \in Callers, NEW k \in Keys, Job(c, k) PROVE  InStep'
  BY <1>0, <1>2 DEF Job, InStep, fetchVars
<1>3. ASSUME NEW c \in Callers, ObjectSize(c) PROVE  InStep'
  BY <1>0, <1>3 DEF ObjectSize, InStep, CallerTypes, fetchVars
<1>4. ASSUME NEW c \in Callers, HotHit(c) PROVE  InStep'
  <2>1. Resolved(c, "hot") /\ UNCHANGED <<fetchVars, led>> /\ pc[c] # "fetch"
    BY <1>4 DEF HotHit
  <2> QED
    BY <1>0, <2>1, ResolvedMoves DEF InStep, CallerTypes, fetchVars, Typed
<1>5. ASSUME NEW c \in Callers, HotMiss(c) PROVE  InStep'
  BY <1>0, <1>5 DEF HotMiss, InStep, fetchVars
<1>6. ASSUME NEW c \in Callers, ColdHit(c) PROVE  InStep'
  BY <1>0, <1>6 DEF ColdHit, InStep, fetchVars
<1>7. ASSUME NEW c \in Callers, ColdMiss(c) PROVE  InStep'
  BY <1>0, <1>7 DEF ColdMiss, InStep, fetchVars
<1>8. ASSUME NEW c \in Callers, Promote(c) PROVE  InStep'
  <2>1. Resolved(c, "cold") /\ UNCHANGED <<fetchVars, led>> /\ pc[c] # "fetch"
    BY <1>8 DEF Promote
  <2> QED
    BY <1>0, <2>1, ResolvedMoves DEF InStep, CallerTypes, fetchVars, Typed
<1>9. ASSUME NEW c \in Callers, Ask(c) PROVE  InStep'
  BY <1>0, <1>9 DEF Ask, Fetches!Ask, InStep, FetchTypes, CallerTypes
<1>10. ASSUME NEW c \in Callers, Elect(c) PROVE  InStep'
  BY <1>0, <1>10 DEF Elect, Fetches!Start, Fetches!Attach, InStep, FetchTypes, CallerTypes
<1>11. ASSUME NEW c \in Callers, Delivered(c) PROVE  InStep'
  BY <1>0, <1>11, DeliveredMoves DEF InStep, FetchTypes, CallerTypes, callerVars
<1>12. ASSUME NEW c \in Callers, NotDelivered(c) PROVE  InStep'
  BY <1>0, <1>12, NotDeliveredMoves DEF InStep, FetchTypes, CallerTypes, callerVars
<1>13. ASSUME NEW c \in Callers, Store(c) PROVE  InStep'
  <2>1. /\ led' = [led EXCEPT ![c] = FALSE]
        /\ Resolved(c, "backend") \/ Resolved(c, "inflight")
        /\ status' = [status EXCEPT ![c] = "idle"] /\ want' = [want EXCEPT ![c] = NoKey]
    BY <1>13 DEF Store, Fetches!Return
  <2> QED
    BY <1>0, <2>1, ResolvedMoves DEF InStep, CallerTypes, FetchTypes, Typed
<1>14. ASSUME NEW c \in Callers, FetchFailed(c) PROVE  InStep'
  BY <1>0, <1>14 DEF FetchFailed, Forget, Fetches!Return, InStep, FetchTypes, CallerTypes
<1>15. ASSUME NEW c \in Callers, Reply(c) PROVE  InStep'
  BY <1>0, <1>15 DEF Reply, Forget, InStep, fetchVars
<1>16. ASSUME NEW k \in Keys, NEW d \in Lens, EndPut(k, d) PROVE  InStep'
  BY <1>0, <1>16 DEF EndPut, InStep, fetchVars, callerVars
<1>17. CASE Restart
  BY <1>0, <1>17 DEF Restart, InStep
<1> QED
  BY <1>1, <1>2, <1>3, <1>4, <1>5, <1>6, <1>7, <1>8, <1>9, <1>10, <1>11, <1>12, <1>13, <1>14,
     <1>15, <1>16, <1>17 DEF Next, Caller

\* Every step keeps the types.
LEMMA TypedKept == Typed /\ [Next]_vars => Typed'
<1>1. CASE Typed /\ Next
  <2>1. TierTypes' /\ FetchTypes' /\ CallerTypes' /\ InStep'
    BY <1>1, TierTypesKept, FetchTypesKept, CallerTypesKept, InStepKept
  <2> QED
    BY <2>1 DEF Typed, TypeOK, AsksItsChunk, TierTypes, FetchTypes, CallerTypes, InStep,
       Stages, Statuses
<1>2. CASE Typed /\ UNCHANGED vars
  BY <1>2 DEF Typed, TypeOK, AsksItsChunk, vars
<1> QED
  BY <1>1, <1>2

----------------------------------------------------------------------------
(* The counters. *)

\* A counter that moves does so under every request on its way, and no counter
\* goes back.
LEMMA CountMoves ==
    ASSUME Typed, NEW t \in {"hot", "cold"}, Count(t)
    PROVE  \A c \in Handlers :
             /\ \A u \in moved[c] : u \in moved'[c]
             /\ pc[c] # "idle" => t \in moved'[c]
BY DEF Count, Callers

\* A request's counters move before its tier is known, and stay moved until it ends.
LEMMA CountedKept == Typed /\ Counted /\ Next => Counted'
<1> SUFFICES ASSUME Typed, Counted, Next PROVE Counted'
  OBVIOUS
<1>0. TierTypes /\ FetchTypes /\ CallerTypes /\ InStep
  BY TypedInParts
<1> USE TieredCacheAssumption, Lengths
<1>1. ASSUME NEW c \in Callers, NEW from \in Keys, NEW to \in from .. Last, Request(c, from, to)
      PROVE  Counted'
  BY <1>0, <1>1 DEF Request, Counted
<1>2. ASSUME NEW c \in Callers, NEW k \in Keys, Job(c, k) PROVE  Counted'
  BY <1>0, <1>2 DEF Job, Counted
<1>3. ASSUME NEW c \in Callers, ObjectSize(c) PROVE  Counted'
  BY <1>0, <1>3 DEF ObjectSize, Counted, CallerTypes, Callers
<1>4. ASSUME NEW c \in Callers, HotHit(c) PROVE  Counted'
  <2>1. Resolved(c, "hot") /\ pc[c] = "hot"
    BY <1>4 DEF HotHit
  <2>2. \A d \in Callers \ {c} : pc'[d] = pc[d] /\ own'[d] = own[d]
    BY <2>1, ResolvedMoves DEF Typed
  <2>3. pc'[c] # "promote" /\ (c \in Handlers => own'[c] = own[c] \union {"hot"})
    BY <2>1, ResolvedMoves DEF Typed
  <2>4. CASE c \in Handlers /\ Count("hot")
    BY <2>1, <2>2, <2>3, <2>4, CountMoves DEF Counted, Callers
  <2>5. CASE c \notin Handlers /\ UNCHANGED moved
    BY <2>2, <2>5 DEF Counted, Callers
  <2> QED
    BY <1>4, <2>4, <2>5 DEF HotHit
<1>5. ASSUME NEW c \in Callers, HotMiss(c) PROVE  Counted'
  BY <1>0, <1>5 DEF HotMiss, Counted
<1>6. ASSUME NEW c \in Callers, ColdHit(c) PROVE  Counted'
  <2>1. Count("cold") /\ UNCHANGED own /\ pc[c] = "cold" /\ pc' = [pc EXCEPT ![c] = "promote"]
    BY <1>6 DEF ColdHit
  <2> QED
    BY <1>0, <2>1, CountMoves DEF Counted, Callers, CallerTypes
<1>7. ASSUME NEW c \in Callers, ColdMiss(c) PROVE  Counted'
  BY <1>0, <1>7 DEF ColdMiss, Counted
<1>8. ASSUME NEW c \in Callers, Promote(c) PROVE  Counted'
  <2>1. Resolved(c, "cold") /\ pc[c] = "promote" /\ UNCHANGED moved
    BY <1>8 DEF Promote
  <2> QED
    BY <2>1, ResolvedMoves DEF Counted, Callers, Typed
<1>9. ASSUME NEW c \in Callers, Ask(c) PROVE  Counted'
  BY <1>0, <1>9 DEF Ask, Counted
<1>10. ASSUME NEW c \in Callers, Elect(c) PROVE  Counted'
  BY <1>0, <1>10 DEF Elect, Counted
<1>11. ASSUME NEW c \in Callers, Delivered(c) PROVE  Counted'
  BY <1>11, DeliveredMoves DEF Counted, callerVars
<1>12. ASSUME NEW c \in Callers, NotDelivered(c) PROVE  Counted'
  BY <1>12, NotDeliveredMoves DEF Counted, callerVars
<1>13. ASSUME NEW c \in Callers, Store(c) PROVE  Counted'
  <2>1. \E t \in {"backend", "inflight"} : Resolved(c, t) /\ UNCHANGED moved
    BY <1>13 DEF Store
  <2> QED
    BY <2>1, ResolvedMoves DEF Counted, Callers, Typed
<1>14. ASSUME NEW c \in Callers, FetchFailed(c) PROVE  Counted'
  BY <1>0, <1>14 DEF FetchFailed, Counted, CallerTypes, Callers
<1>15. ASSUME NEW c \in Callers, Reply(c) PROVE  Counted'
  BY <1>0, <1>15 DEF Reply, Counted, CallerTypes
<1>16. ASSUME NEW k \in Keys, NEW d \in Lens, EndPut(k, d) PROVE  Counted'
  BY <1>0, <1>16 DEF EndPut, Counted, callerVars
<1>17. CASE Restart
  BY <1>0, <1>17 DEF Restart, Counted, Callers
<1> QED
  BY <1>1, <1>2, <1>3, <1>4, <1>5, <1>6, <1>7, <1>8, <1>9, <1>10, <1>11, <1>12, <1>13, <1>14,
     <1>15, <1>16, <1>17 DEF Next, Caller

----------------------------------------------------------------------------
(* No chunk vanishes. *)

\* A caller that had no chunk in its hands has lost none.
LEMMA EmptyHands ==
    ASSUME Typed, NoChunkVanishes, NEW c \in Callers, ~Holds(c),
           UNCHANGED <<items, disk, puts, known, lost>>,
           \A d \in Callers \ {c} : /\ pc'[d] = pc[d] /\ chunk'[d] = chunk[d]
                                    /\ status'[d] = status[d] /\ led'[d] = led[d]
    PROVE  NoChunkVanishes'
BY DEF NoChunkVanishes, InHand, Holds

\* A caller that puts its chunk into RAM no longer needs to have it in hand.
LEMMA HandsIntoRam ==
    ASSUME Typed, NoChunkVanishes, NEW c \in Callers, NEW e \in Lens, HotPut(chunk[c], e),
           UNCHANGED <<known, lost>>,
           \A d \in Callers \ {c} : /\ pc'[d] = pc[d] /\ chunk'[d] = chunk[d]
                                    /\ status'[d] = status[d] /\ led'[d] = led[d]
    PROVE  NoChunkVanishes'
<1>0. TierTypes /\ CallerTypes
  BY TypedInParts
<1>1. chunk[c] \in Keys /\ known \subseteq Keys /\ e # Absent
  BY <1>0, Lengths DEF TierTypes, CallerTypes
<1>2. /\ items'[chunk[c]] = e /\ UNCHANGED disk
      /\ \A j \in Keys : (items[j] # Absent /\ items'[j] = Absent) => puts'[<<j, items[j]>>] > 0
      /\ \A j \in Keys, f \in Lens : puts[<<j, f>>] > 0 => puts'[<<j, f>>] > 0
  BY <1>1, HotPutMoves
<1>3. ASSUME NEW j \in known' \ lost'
      PROVE  \/ items'[j] # Absent
             \/ InHand(j)'
             \/ \E f \in Lens : puts'[<<j, f>>] > 0
             \/ disk'[j] # Absent
  <2>1. j \in Keys /\ j \in known \ lost
    BY <1>1, <1>3
  <2>2. CASE items[j] # Absent
    <3>1. items[j] \in Lens
      BY <1>0, <2>1, <2>2 DEF TierTypes
    <3> QED
      BY <1>2, <2>1, <2>2, <3>1
  <2>3. CASE InHand(j)
    <3>1. PICK d \in Callers : chunk[d] = j /\ Holds(d)
      BY <2>3 DEF InHand, Holds
    <3>2. CASE d = c
      BY <1>1, <1>2, <3>1, <3>2
    <3>3. CASE d # c
      BY <3>1, <3>3 DEF InHand, Holds
    <3> QED
      BY <3>2, <3>3
  <2>4. CASE \E f \in Lens : puts[<<j, f>>] > 0
    BY <1>2, <2>1, <2>4
  <2>5. CASE disk[j] # Absent
    BY <1>2, <2>5
  <2> QED
    BY <2>1, <2>2, <2>3, <2>4, <2>5 DEF NoChunkVanishes
<1> QED
  BY <1>3 DEF NoChunkVanishes

\* What was delivered and is not lost stays in a tier or in hand.
LEMMA NothingVanishes == Typed /\ NoChunkVanishes /\ Next => NoChunkVanishes'
<1> SUFFICES ASSUME Typed, NoChunkVanishes, Next PROVE NoChunkVanishes'
  OBVIOUS
<1>0. TierTypes /\ FetchTypes /\ CallerTypes /\ InStep
  BY TypedInParts
<1> USE TieredCacheAssumption, Lengths
<1>1. ASSUME NEW c \in Callers, NEW from \in Keys, NEW to \in from .. Last, Request(c, from, to)
      PROVE  NoChunkVanishes'
  <2>1. /\ ~Holds(c) /\ UNCHANGED <<items, disk, puts, known, lost>>
        /\ \A d \in Callers \ {c} : /\ pc'[d] = pc[d] /\ chunk'[d] = chunk[d]
                                    /\ status'[d] = status[d] /\ led'[d] = led[d]
    BY <1>0, <1>1 DEF Request, Holds, hotVars, fetchVars, diskVars, history
  <2> QED
    BY <2>1, EmptyHands
<1>2. ASSUME NEW c \in Callers, NEW k \in Keys, Job(c, k) PROVE  NoChunkVanishes'
  <2>1. /\ ~Holds(c) /\ UNCHANGED <<items, disk, puts, known, lost>>
        /\ \A d \in Callers \ {c} : /\ pc'[d] = pc[d] /\ chunk'[d] = chunk[d]
                                    /\ status'[d] = status[d] /\ led'[d] = led[d]
    BY <1>0, <1>2 DEF Job, Holds, hotVars, fetchVars, diskVars, history
  <2> QED
    BY <2>1, EmptyHands
<1>3. ASSUME NEW c \in Callers, ObjectSize(c) PROVE  NoChunkVanishes'
  <2>1. /\ ~Holds(c) /\ UNCHANGED <<items, disk, puts, known, lost>>
        /\ \A d \in Callers \ {c} : /\ pc'[d] = pc[d] /\ chunk'[d] = chunk[d]
                                    /\ status'[d] = status[d] /\ led'[d] = led[d]
    BY <1>0, <1>3 DEF ObjectSize, Holds, CallerTypes, hotVars, fetchVars, diskVars, history
  <2> QED
    BY <2>1, EmptyHands
<1>4. ASSUME NEW c \in Callers, HotHit(c) PROVE  NoChunkVanishes'
  <2>1. Resolved(c, "hot") /\ pc[c] = "hot" /\ UNCHANGED <<items, disk, puts, status, led, known, lost>>
    BY <1>4 DEF HotHit, Hot!Hit, fetchVars, diskVars, history
  <2> QED
    BY <2>1, ResolvedMoves, EmptyHands DEF Typed, Holds
<1>5. ASSUME NEW c \in Callers, HotMiss(c) PROVE  NoChunkVanishes'
  <2>1. /\ ~Holds(c) /\ UNCHANGED <<items, disk, puts, known, lost>>
        /\ \A d \in Callers \ {c} : /\ pc'[d] = pc[d] /\ chunk'[d] = chunk[d]
                                    /\ status'[d] = status[d] /\ led'[d] = led[d]
    BY <1>0, <1>5 DEF HotMiss, Holds, hotVars, fetchVars, diskVars, history
  <2> QED
    BY <2>1, EmptyHands
<1>6. ASSUME NEW c \in Callers, ColdHit(c) PROVE  NoChunkVanishes'
  <2>1. /\ ~Holds(c) /\ UNCHANGED <<items, disk, puts, known, lost>>
        /\ \A d \in Callers \ {c} : /\ pc'[d] = pc[d] /\ chunk'[d] = chunk[d]
                                    /\ status'[d] = status[d] /\ led'[d] = led[d]
    BY <1>0, <1>6 DEF ColdHit, Holds, hotVars, fetchVars, diskVars, history
  <2> QED
    BY <2>1, EmptyHands
<1>7. ASSUME NEW c \in Callers, ColdMiss(c) PROVE  NoChunkVanishes'
  <2>1. /\ ~Holds(c) /\ UNCHANGED <<items, disk, puts, known, lost>>
        /\ \A d \in Callers \ {c} : /\ pc'[d] = pc[d] /\ chunk'[d] = chunk[d]
                                    /\ status'[d] = status[d] /\ led'[d] = led[d]
    BY <1>0, <1>7 DEF ColdMiss, Holds, hotVars, fetchVars, diskVars, history
  <2> QED
    BY <2>1, EmptyHands
<1>8. ASSUME NEW c \in Callers, Promote(c) PROVE  NoChunkVanishes'
  <2>1. /\ HotPut(chunk[c], data[c]) /\ Resolved(c, "cold") /\ data[c] \in Lens
        /\ UNCHANGED <<status, led, known, lost>>
    BY <1>0, <1>8 DEF Promote, CallerTypes, fetchVars, history
  <2>2. \A d \in Callers \ {c} : pc'[d] = pc[d] /\ chunk'[d] = chunk[d]
    BY <2>1, ResolvedMoves DEF Typed
  <2> QED
    BY <2>1, <2>2, HandsIntoRam
<1>9. ASSUME NEW c \in Callers, Ask(c) PROVE  NoChunkVanishes'
  <2>1. /\ ~Holds(c) /\ UNCHANGED <<items, disk, puts, known, lost>>
        /\ \A d \in Callers \ {c} : /\ pc'[d] = pc[d] /\ chunk'[d] = chunk[d]
                                    /\ status'[d] = status[d] /\ led'[d] = led[d]
    BY <1>0, <1>9 DEF Ask, Fetches!Ask, Holds, hotVars, diskVars, history
  <2> QED
    BY <2>1, EmptyHands
<1>10. ASSUME NEW c \in Callers, Elect(c) PROVE  NoChunkVanishes'
  <2>1. /\ ~Holds(c) /\ UNCHANGED <<items, disk, puts, known, lost>>
        /\ \A d \in Callers \ {c} : /\ pc'[d] = pc[d] /\ chunk'[d] = chunk[d]
                                    /\ status'[d] = status[d] /\ led'[d] = led[d]
    BY <1>0, <1>10 DEF Elect, Fetches!Start, Fetches!Attach, Holds, InStep, CallerTypes,
       FetchTypes, hotVars, diskVars, history
  <2> QED
    BY <2>1, EmptyHands
<1>11. ASSUME NEW c \in Callers, Delivered(c) PROVE  NoChunkVanishes'
  <2>1. /\ pc[c] = "fetch" /\ led[c] /\ status'[c] = "answered" /\ known' = known \union {chunk[c]}
        /\ UNCHANGED <<items, disk, puts, pc, chunk, led, lost>>
        /\ \A d \in Callers : status[d] = "answered" => status'[d] = "answered"
    BY <1>11, DeliveredMoves DEF hotVars, diskVars, callerVars
  <2> QED
    BY <2>1 DEF NoChunkVanishes, InHand
<1>12. ASSUME NEW c \in Callers, NotDelivered(c) PROVE  NoChunkVanishes'
  <2>1. /\ UNCHANGED <<items, disk, puts, pc, chunk, led, known, lost>>
        /\ \A d \in Callers : status[d] = "answered" /\ led[d] => status'[d] = "answered"
    BY <1>12, NotDeliveredMoves DEF hotVars, diskVars, callerVars, history
  <2> QED
    BY <2>1 DEF NoChunkVanishes, InHand
<1>13. ASSUME NEW c \in Callers, Store(c) PROVE  NoChunkVanishes'
  <2>1. /\ amount[c] \in Lens /\ UNCHANGED <<known, lost>>
        /\ \A d \in Callers \ {c} : status'[d] = status[d] /\ led'[d] = led[d]
    BY <1>0, <1>13 DEF Store, Fetches!Return, FetchTypes, history
  <2>2. CASE HotPut(chunk[c], amount[c]) /\ Resolved(c, "backend")
    <3>1. \A d \in Callers \ {c} : pc'[d] = pc[d] /\ chunk'[d] = chunk[d]
      BY <2>2, ResolvedMoves DEF Typed
    <3> QED
      BY <2>1, <2>2, <3>1, HandsIntoRam
  <2>3. CASE ~led[c] /\ UNCHANGED <<hotVars, diskVars>> /\ Resolved(c, "inflight")
    <3>1. pc[c] = "fetch"
      BY <1>13 DEF Store
    <3> QED
      BY <2>1, <2>3, <3>1, ResolvedMoves, EmptyHands DEF Typed, Holds, hotVars, diskVars
  <2> QED
    BY <1>13, <2>2, <2>3 DEF Store
<1>14. ASSUME NEW c \in Callers, FetchFailed(c) PROVE  NoChunkVanishes'
  <2>1. /\ ~Holds(c) /\ UNCHANGED <<items, disk, puts, known, lost>>
        /\ \A d \in Callers \ {c} : /\ pc'[d] = pc[d] /\ chunk'[d] = chunk[d]
                                    /\ status'[d] = status[d] /\ led'[d] = led[d]
    BY <1>0, <1>14 DEF FetchFailed, Forget, Fetches!Return, Holds, CallerTypes, hotVars,
       diskVars, history
  <2> QED
    BY <2>1, EmptyHands
<1>15. ASSUME NEW c \in Callers, Reply(c) PROVE  NoChunkVanishes'
  <2>1. /\ ~Holds(c) /\ UNCHANGED <<items, disk, puts, known, lost>>
        /\ \A d \in Callers \ {c} : /\ pc'[d] = pc[d] /\ chunk'[d] = chunk[d]
                                    /\ status'[d] = status[d] /\ led'[d] = led[d]
    BY <1>0, <1>15 DEF Reply, Forget, Holds, hotVars, fetchVars, diskVars, history
  <2> QED
    BY <2>1, EmptyHands
<1>16. ASSUME NEW k \in Keys, NEW d \in Lens, EndPut(k, d) PROVE  NoChunkVanishes'
  <2>1. UNCHANGED <<items, pc, chunk, status, led, known>>
    BY <1>16 DEF EndPut, hotVars, fetchVars, callerVars
  <2>2. puts' = [puts EXCEPT ![<<k, d>>] = @ - 1]
    BY <1>16 DEF EndPut
  <2>3. \/ k \in lost' /\ lost' = lost \union {k} /\ disk' = disk
        \/ lost' = lost /\ \E e \in Lens : disk' = [disk EXCEPT ![k] = e]
    BY <1>16 DEF EndPut
  <2>4. \A j \in Keys \ {k} : \A e \in Lens : puts'[<<j, e>>] = puts[<<j, e>>]
    BY <1>0, <2>2 DEF TierTypes
  <2>5. \A j \in Keys \ {k} : disk'[j] = disk[j] /\ (j \in lost' <=> j \in lost)
    BY <1>0, <2>3 DEF TierTypes
  <2>6. k \in lost' \/ disk'[k] # Absent
    BY <1>0, <2>3 DEF TierTypes
  <2>7. known \subseteq Keys /\ \A j \in Keys : InHand(j)' <=> InHand(j)
    BY <1>0, <2>1 DEF TierTypes, InHand
  <2> QED
    BY <2>1, <2>4, <2>5, <2>6, <2>7 DEF NoChunkVanishes
<1>17. CASE Restart
  BY <1>17 DEF Restart, NoChunkVanishes
<1> QED
  BY <1>1, <1>2, <1>3, <1>4, <1>5, <1>6, <1>7, <1>8, <1>9, <1>10, <1>11, <1>12, <1>13, <1>14,
     <1>15, <1>16, <1>17 DEF Next, Caller

----------------------------------------------------------------------------
(* Short chunks have a cause. *)

\* What is said of chunks in the tiers, and of chunks in hand.
Whole == ShortChunksHaveACause /\ AnswersWhole

\* Nothing becomes short if no tier changes, and nobody has a chunk in hand that
\* he did not have before.
LEMMA NothingNewInHand ==
    ASSUME Typed, Whole, UNCHANGED <<items, disk, puts, spoilt>>,
           \A d \in Callers :
             /\ pc'[d] = "promote" =>
                  pc[d] = "promote" /\ chunk'[d] = chunk[d] /\ data'[d] = data[d]
             /\ status'[d] = "answered" =>
                  status[d] = "answered" /\ chunk'[d] = chunk[d] /\ amount'[d] = amount[d]
    PROVE  Whole'
<1>1. AnswersWhole'
  BY DEF Whole, AnswersWhole
<1>2. ShortChunksHaveACause'
  BY DEF Whole, ShortChunksHaveACause
<1> QED
  BY <1>1, <1>2 DEF Whole

\* A chunk that is whole when it goes into RAM leaves all tiers as whole as they were.
LEMMA WholeIntoRam ==
    ASSUME Typed, Whole, NEW c \in Callers, NEW e \in Lens, HotPut(chunk[c], e),
           UNCHANGED spoilt,
           chunk[c] \notin spoilt => e = ChunkLen[chunk[c]],
           \A d \in Callers :
             /\ pc'[d] = "promote" =>
                  pc[d] = "promote" /\ chunk'[d] = chunk[d] /\ data'[d] = data[d]
             /\ status'[d] = "answered" =>
                  status[d] = "answered" /\ chunk'[d] = chunk[d] /\ amount'[d] = amount[d]
    PROVE  Whole'
<1>0. TierTypes /\ CallerTypes
  BY TypedInParts
<1>1. chunk[c] \in Keys
  BY <1>0 DEF CallerTypes
<1>2. /\ items'[chunk[c]] = e /\ UNCHANGED disk
      /\ \A j \in Keys \ {chunk[c]} : items'[j] \in {items[j], Absent}
      /\ \A j \in Keys, f \in Lens : puts'[<<j, f>>] > 0 => puts[<<j, f>>] > 0 \/ f = items[j]
  BY <1>1, HotPutMoves
<1>3. AnswersWhole'
  BY DEF Whole, AnswersWhole
<1>4. ASSUME NEW k \in Keys, k \notin spoilt
      PROVE  /\ items'[k] \in {Absent, ChunkLen[k]}
             /\ disk'[k] \in {Absent, ChunkLen[k]}
             /\ \A d \in Lens : puts'[<<k, d>>] > 0 => d = ChunkLen[k]
             /\ \A d \in Callers :
                 (chunk'[d] = k /\ pc'[d] = "promote") => data'[d] = ChunkLen[k]
  <2>1. /\ items[k] \in {Absent, ChunkLen[k]} /\ disk[k] \in {Absent, ChunkLen[k]}
        /\ \A d \in Lens : puts[<<k, d>>] > 0 => d = ChunkLen[k]
        /\ \A d \in Callers : (chunk[d] = k /\ pc[d] = "promote") => data[d] = ChunkLen[k]
    BY <1>4 DEF Whole, ShortChunksHaveACause
  <2>2. items'[k] \in {Absent, ChunkLen[k]} /\ disk'[k] \in {Absent, ChunkLen[k]}
    BY <1>2, <1>4, <2>1
  <2>3. ASSUME NEW d \in Lens, puts'[<<k, d>>] > 0 PROVE d = ChunkLen[k]
    BY <1>2, <2>1, <2>3, Lengths
  <2>4. \A d \in Callers : (chunk'[d] = k /\ pc'[d] = "promote") => data'[d] = ChunkLen[k]
    BY <2>1
  <2> QED
    BY <2>2, <2>3, <2>4
<1> QED
  BY <1>3, <1>4 DEF Whole, ShortChunksHaveACause

\* What is short has been cut, and is handed on as it is.
LEMMA WholeKept == Typed /\ Whole /\ Next => Whole'
<1> SUFFICES ASSUME Typed, Whole, Next PROVE Whole'
  OBVIOUS
<1>0. TierTypes /\ FetchTypes /\ CallerTypes /\ InStep
  BY TypedInParts
<1> USE TieredCacheAssumption, Lengths
<1>1. ASSUME NEW c \in Callers, NEW from \in Keys, NEW to \in from .. Last, Request(c, from, to)
      PROVE  Whole'
  <2>1. UNCHANGED <<items, disk, puts, spoilt>>
    BY <1>1 DEF Request, hotVars, diskVars, history
  <2>2. \A d \in Callers :
          /\ pc'[d] = "promote" =>
               pc[d] = "promote" /\ chunk'[d] = chunk[d] /\ data'[d] = data[d]
          /\ status'[d] = "answered" =>
               status[d] = "answered" /\ chunk'[d] = chunk[d] /\ amount'[d] = amount[d]
    BY <1>0, <1>1 DEF Request, InStep, fetchVars
  <2> QED
    BY <2>1, <2>2, NothingNewInHand
<1>2. ASSUME NEW c \in Callers, NEW k \in Keys, Job(c, k) PROVE  Whole'
  <2>1. UNCHANGED <<items, disk, puts, spoilt>>
    BY <1>2 DEF Job, hotVars, diskVars, history
  <2>2. \A d \in Callers :
          /\ pc'[d] = "promote" =>
               pc[d] = "promote" /\ chunk'[d] = chunk[d] /\ data'[d] = data[d]
          /\ status'[d] = "answered" =>
               status[d] = "answered" /\ chunk'[d] = chunk[d] /\ amount'[d] = amount[d]
    BY <1>0, <1>2 DEF Job, InStep, fetchVars
  <2> QED
    BY <2>1, <2>2, NothingNewInHand
<1>3. ASSUME NEW c \in Callers, ObjectSize(c) PROVE  Whole'
  <2>1. UNCHANGED <<items, disk, puts, spoilt>>
    BY <1>3 DEF ObjectSize, hotVars, diskVars, history
  <2>2. \A d \in Callers :
          /\ pc'[d] = "promote" =>
               pc[d] = "promote" /\ chunk'[d] = chunk[d] /\ data'[d] = data[d]
          /\ status'[d] = "answered" =>
               status[d] = "answered" /\ chunk'[d] = chunk[d] /\ amount'[d] = amount[d]
    BY <1>0, <1>3 DEF ObjectSize, CallerTypes, fetchVars
  <2> QED
    BY <2>1, <2>2, NothingNewInHand
<1>4. ASSUME NEW c \in Callers, HotHit(c) PROVE  Whole'
  <2>1. /\ Resolved(c, "hot") /\ pc[c] = "hot"
        /\ UNCHANGED <<items, disk, puts, status, amount, data, spoilt>>
    BY <1>4 DEF HotHit, Hot!Hit, fetchVars, diskVars, history
  <2>2. \A d \in Callers :
          /\ pc'[d] = "promote" =>
               pc[d] = "promote" /\ chunk'[d] = chunk[d] /\ data'[d] = data[d]
          /\ status'[d] = "answered" =>
               status[d] = "answered" /\ chunk'[d] = chunk[d] /\ amount'[d] = amount[d]
    BY <1>0, <2>1, ResolvedMoves DEF Typed, InStep
  <2> QED
    BY <2>1, <2>2, NothingNewInHand
<1>5. ASSUME NEW c \in Callers, HotMiss(c) PROVE  Whole'
  <2>1. UNCHANGED <<items, disk, puts, spoilt>>
    BY <1>5 DEF HotMiss, hotVars, diskVars, history
  <2>2. \A d \in Callers :
          /\ pc'[d] = "promote" =>
               pc[d] = "promote" /\ chunk'[d] = chunk[d] /\ data'[d] = data[d]
          /\ status'[d] = "answered" =>
               status[d] = "answered" /\ chunk'[d] = chunk[d] /\ amount'[d] = amount[d]
    BY <1>0, <1>5 DEF HotMiss, fetchVars
  <2> QED
    BY <2>1, <2>2, NothingNewInHand
<1>6. ASSUME NEW c \in Callers, ColdHit(c) PROVE  Whole'
  <2>1. /\ pc[c] = "cold" /\ pc' = [pc EXCEPT ![c] = "promote"]
        /\ data' = [data EXCEPT ![c] = disk[chunk[c]]] /\ disk[chunk[c]] # Absent
        /\ UNCHANGED <<items, disk, puts, status, amount, chunk, spoilt>>
    BY <1>6 DEF ColdHit, hotVars, fetchVars, diskVars, history
  <2>2. AnswersWhole'
    BY <2>1 DEF Whole, AnswersWhole
  <2>3. ShortChunksHaveACause'
    BY <1>0, <2>1 DEF Whole, ShortChunksHaveACause, CallerTypes
  <2> QED
    BY <2>2, <2>3 DEF Whole
<1>7. ASSUME NEW c \in Callers, ColdMiss(c) PROVE  Whole'
  <2>1. UNCHANGED <<items, disk, puts, spoilt>>
    BY <1>7 DEF ColdMiss, hotVars, diskVars, history
  <2>2. \A d \in Callers :
          /\ pc'[d] = "promote" =>
               pc[d] = "promote" /\ chunk'[d] = chunk[d] /\ data'[d] = data[d]
          /\ status'[d] = "answered" =>
               status[d] = "answered" /\ chunk'[d] = chunk[d] /\ amount'[d] = amount[d]
    BY <1>0, <1>7 DEF ColdMiss, fetchVars
  <2> QED
    BY <2>1, <2>2, NothingNewInHand
<1>8. ASSUME NEW c \in Callers, Promote(c) PROVE  Whole'
  <2>1. /\ HotPut(chunk[c], data[c]) /\ Resolved(c, "cold") /\ data[c] \in Lens
        /\ pc[c] = "promote" /\ data' = [data EXCEPT ![c] = 0]
        /\ UNCHANGED <<status, amount, spoilt>>
    BY <1>0, <1>8 DEF Promote, CallerTypes, fetchVars, history
  <2>2. \A d \in Callers :
          /\ pc'[d] = "promote" =>
               pc[d] = "promote" /\ chunk'[d] = chunk[d] /\ data'[d] = data[d]
          /\ status'[d] = "answered" =>
               status[d] = "answered" /\ chunk'[d] = chunk[d] /\ amount'[d] = amount[d]
    BY <1>0, <2>1, ResolvedMoves DEF Typed, InStep, CallerTypes
  <2>3. chunk[c] \notin spoilt => data[c] = ChunkLen[chunk[c]]
    BY <1>0, <2>1 DEF Whole, ShortChunksHaveACause, CallerTypes
  <2> QED
    BY <2>1, <2>2, <2>3, WholeIntoRam
<1>9. ASSUME NEW c \in Callers, Ask(c) PROVE  Whole'
  <2>1. UNCHANGED <<items, disk, puts, spoilt>>
    BY <1>9 DEF Ask, hotVars, diskVars, history
  <2>2. \A d \in Callers :
          /\ pc'[d] = "promote" =>
               pc[d] = "promote" /\ chunk'[d] = chunk[d] /\ data'[d] = data[d]
          /\ status'[d] = "answered" =>
               status[d] = "answered" /\ chunk'[d] = chunk[d] /\ amount'[d] = amount[d]
    BY <1>0, <1>9 DEF Ask, Fetches!Ask
  <2> QED
    BY <2>1, <2>2, NothingNewInHand
<1>10. ASSUME NEW c \in Callers, Elect(c) PROVE  Whole'
  <2>1. UNCHANGED <<items, disk, puts, spoilt>>
    BY <1>10 DEF Elect, hotVars, diskVars, history
  <2>2. \A d \in Callers :
          /\ pc'[d] = "promote" =>
               pc[d] = "promote" /\ chunk'[d] = chunk[d] /\ data'[d] = data[d]
          /\ status'[d] = "answered" =>
               status[d] = "answered" /\ chunk'[d] = chunk[d] /\ amount'[d] = amount[d]
    BY <1>0, <1>10 DEF Elect, Fetches!Start, Fetches!Attach, FetchTypes
  <2> QED
    BY <2>1, <2>2, NothingNewInHand
<1>11. ASSUME NEW c \in Callers, Delivered(c) PROVE  Whole'
  <2>1. UNCHANGED <<items, disk, puts, pc, chunk, data>> /\ chunk[c] \in Keys
    BY <1>11, DeliveredMoves DEF hotVars, diskVars, callerVars
  <2>2. PICK m \in Lens :
          /\ \/ m = ChunkLen[chunk[c]] /\ spoilt' = spoilt
             \/ spoilt' = spoilt \union {chunk[c]}
          /\ \A d \in Callers :
              \/ status'[d] = status[d] /\ amount'[d] = amount[d]
              \/ status'[d] = "answered" /\ amount'[d] = m /\ chunk[d] = chunk[c]
    BY <1>11, DeliveredMoves
  <2>3. AnswersWhole'
    BY <2>1, <2>2 DEF Whole, AnswersWhole
  <2>4. ShortChunksHaveACause'
    BY <2>1, <2>2 DEF Whole, ShortChunksHaveACause
  <2> QED
    BY <2>3, <2>4 DEF Whole
<1>12. ASSUME NEW c \in Callers, NotDelivered(c) PROVE  Whole'
  <2>1. /\ UNCHANGED <<items, disk, puts, pc, chunk, data, spoilt>>
        /\ \A d \in Callers : status'[d] = "answered" => status[d] = "answered" /\ amount'[d] = amount[d]
    BY <1>12, NotDeliveredMoves DEF hotVars, diskVars, callerVars, history
  <2> QED
    BY <2>1, NothingNewInHand
<1>13. ASSUME NEW c \in Callers, Store(c) PROVE  Whole'
  <2>1. /\ amount[c] \in Lens /\ UNCHANGED <<spoilt, data>> /\ status[c] = "answered"
        /\ status' = [status EXCEPT ![c] = "idle"] /\ amount' = [amount EXCEPT ![c] = 0]
        /\ Resolved(c, "backend") \/ Resolved(c, "inflight")
    BY <1>0, <1>13 DEF Store, Fetches!Return, FetchTypes, history
  <2>2. \A d \in Callers :
          /\ pc'[d] = "promote" =>
               pc[d] = "promote" /\ chunk'[d] = chunk[d] /\ data'[d] = data[d]
          /\ status'[d] = "answered" =>
               status[d] = "answered" /\ chunk'[d] = chunk[d] /\ amount'[d] = amount[d]
    BY <1>0, <2>1, ResolvedMoves DEF Typed, FetchTypes
  <2>3. chunk[c] \notin spoilt => amount[c] = ChunkLen[chunk[c]]
    BY <2>1 DEF Whole, AnswersWhole
  <2>4. CASE HotPut(chunk[c], amount[c])
    BY <2>1, <2>2, <2>3, <2>4, WholeIntoRam
  <2>5. CASE UNCHANGED <<hotVars, diskVars>>
    BY <2>1, <2>2, <2>5, NothingNewInHand DEF hotVars, diskVars
  <2> QED
    BY <1>13, <2>4, <2>5 DEF Store
<1>14. ASSUME NEW c \in Callers, FetchFailed(c) PROVE  Whole'
  <2>1. UNCHANGED <<items, disk, puts, spoilt>>
    BY <1>14 DEF FetchFailed, hotVars, diskVars, history
  <2>2. \A d \in Callers :
          /\ pc'[d] = "promote" =>
               pc[d] = "promote" /\ chunk'[d] = chunk[d] /\ data'[d] = data[d]
          /\ status'[d] = "answered" =>
               status[d] = "answered" /\ chunk'[d] = chunk[d] /\ amount'[d] = amount[d]
    BY <1>0, <1>14 DEF FetchFailed, Forget, Fetches!Return, CallerTypes
  <2> QED
    BY <2>1, <2>2, NothingNewInHand
<1>15. ASSUME NEW c \in Callers, Reply(c) PROVE  Whole'
  <2>1. UNCHANGED <<items, disk, puts, spoilt>>
    BY <1>15 DEF Reply, hotVars, diskVars, history
  <2>2. \A d \in Callers :
          /\ pc'[d] = "promote" =>
               pc[d] = "promote" /\ chunk'[d] = chunk[d] /\ data'[d] = data[d]
          /\ status'[d] = "answered" =>
               status[d] = "answered" /\ chunk'[d] = chunk[d] /\ amount'[d] = amount[d]
    BY <1>0, <1>15 DEF Reply, Forget, InStep, fetchVars
  <2> QED
    BY <2>1, <2>2, NothingNewInHand
<1>16. ASSUME NEW k \in Keys, NEW d \in Lens, EndPut(k, d) PROVE  Whole'
  <2>1. UNCHANGED <<items, pc, chunk, data, status, amount>>
    BY <1>16 DEF EndPut, hotVars, fetchVars, callerVars
  <2>2. puts[<<k, d>>] > 0 /\ puts' = [puts EXCEPT ![<<k, d>>] = @ - 1]
    BY <1>16 DEF EndPut
  <2>3. \A j \in Keys, e \in Lens : puts'[<<j, e>>] > 0 => puts[<<j, e>>] > 0
    BY <1>0, <2>2 DEF TierTypes
  <2>4. \A j \in spoilt : j \in spoilt'
    BY <1>16 DEF EndPut
  <2>5. AnswersWhole'
    BY <2>1, <2>4 DEF Whole, AnswersWhole
  <2>6. \A j \in Keys : disk'[j] = disk[j] \/ (j = k /\ disk'[j] = d) \/ j \in spoilt'
    BY <1>0, <1>16 DEF EndPut, TierTypes
  <2>7. ShortChunksHaveACause'
    BY <2>1, <2>2, <2>3, <2>4, <2>6 DEF Whole, ShortChunksHaveACause
  <2> QED
    BY <2>5, <2>7 DEF Whole
<1>17. CASE Restart
  <2>1. AnswersWhole'
    BY <1>17 DEF Restart, AnswersWhole
  <2>2. ShortChunksHaveACause'
    BY <1>17 DEF Restart, Whole, ShortChunksHaveACause
  <2> QED
    BY <2>1, <2>2 DEF Whole
<1> QED
  BY <1>1, <1>2, <1>3, <1>4, <1>5, <1>6, <1>7, <1>8, <1>9, <1>10, <1>11, <1>12, <1>13, <1>14,
     <1>15, <1>16, <1>17 DEF Next, Caller

----------------------------------------------------------------------------
(* The theorems. *)

\* The invariant holds at first.
LEMMA InvAtFirst == Init => Inv
<1> SUFFICES ASSUME Init PROVE Inv
  OBVIOUS
<1> USE TieredCacheAssumption, Lengths
<1>1. /\ items = [k \in Keys |-> Absent] /\ status = [c \in Callers |-> "idle"]
      /\ want = [c \in Callers |-> NoKey] /\ amount = [c \in Callers |-> 0]
      /\ gone = [c \in Callers |-> FALSE]
  BY DEF Init, Hot!Init, Fetches!Init
<1>2. Typed
  <2>1. TierTypes
    BY <1>1 DEF Init, TierTypes
  <2>2. FetchTypes
    BY <1>1 DEF FetchTypes, Statuses
  <2>3. CallerTypes
    BY DEF Init, CallerTypes, Stages, Keys
  <2>4. InStep
    BY <1>1 DEF Init, InStep
  <2> QED
    BY <2>1, <2>2, <2>3, <2>4, TypedInParts
<1>3. NoChunkVanishes /\ AnswersWhole /\ Counted
  BY <1>1 DEF Init, NoChunkVanishes, AnswersWhole, Counted, Callers
<1>4. ShortChunksHaveACause
  BY <1>1 DEF Init, ShortChunksHaveACause
<1> QED
  BY <1>2, <1>3, <1>4 DEF Inv

\* src/internal/proxy/handler.go:160-190: the invariant from which the properties
\* of the tiers follow holds in every state.
THEOREM Invariance == Spec => []Inv
<1>1. ASSUME Inv, Next PROVE Inv'
  <2>1. Typed /\ NoChunkVanishes /\ Whole /\ Counted
    BY <1>1 DEF Inv, Whole
  <2> QED
    BY <1>1, <2>1, TypedKept, NothingVanishes, WholeKept, CountedKept DEF Inv, Whole
<1>2. ASSUME Inv, UNCHANGED vars PROVE Inv'
  <2>1. Typed'
    BY <1>2, TypedKept DEF Inv
  <2>2. NoChunkVanishes' /\ AnswersWhole' /\ Counted'
    BY <1>2 DEF Inv, NoChunkVanishes, InHand, AnswersWhole, Counted, vars
  <2>3. ShortChunksHaveACause'
    BY <1>2 DEF Inv, ShortChunksHaveACause, vars
  <2> QED
    BY <2>1, <2>2, <2>3 DEF Inv
<1>3. Inv /\ [Next]_vars => Inv'
  BY <1>1, <1>2
<1> QED
  BY InvAtFirst, <1>3, PTL DEF Spec

\* Types, whatever the number of callers, chunks and evictions.
THEOREM TypesHold == Spec => []TypeOK
BY Invariance, PTL DEF Inv, Typed

\* src/internal/proxy/handler.go:183 and src/cmd/proxy/main.go:45: a chunk that was
\* delivered stays in a tier, or on its way between two, until a write or the
\* process fails.
THEOREM NothingIsLost == Spec => []NoChunkVanishes
BY Invariance, PTL DEF Inv

\* src/internal/proxy/handler.go:160-190: no tier cuts a chunk, or takes one for
\* another; only a GET that was cut and overlapping writes of a file do.
THEOREM ShortnessHasACause == Spec => []ShortChunksHaveACause
BY Invariance, PTL DEF Inv

\* src/internal/ui/handler.go:132-137: however many requests move the counters, the
\* UI does not show a slower tier than the fastest that served its request.
THEOREM TierNotTooSlow == Spec => []UiNeverTooSlow
<1>1. Inv => UiNeverTooSlow
  BY DEF Inv, Counted, UiNeverTooSlow, UiTier
<1> QED
  BY Invariance, <1>1, PTL

=============================================================================
