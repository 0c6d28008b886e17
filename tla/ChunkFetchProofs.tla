-------------------------- MODULE ChunkFetchProofs --------------------------
(* Invariants of ChunkFetch, and that it implements CoalescedGet, for any    *)
(* callers, chunks, flights and buffers.                                     *)
EXTENDS ChunkFetch, TLAPS

----------------------------------------------------------------------------
(* The inductive invariant, in parts. *)

\* A goroutine between publishing a flight and unpublishing it.
Fetching(c) == pc[c] \in {"fetch", "settle"}

Leads(c) == pc[c] \in {"fetch", "settle", "close"}

\* What the position of a goroutine says of its own variables.
LocalOK ==
    \A c \in Callers :
        /\ pc[c] # "idle" => key[c] \in Keys /\ buf[c] \in Buffers
        /\ (Leads(c) \/ pc[c] = "wait") <=> ref[c] # NoFlight

\* A buffer has one user, or none and is in the pool.
BuffersOwned ==
    /\ \A c \in Callers : pc[c] # "idle" => buf[c] \notin free
    /\ \A c, d \in Callers :
        (c # d /\ pc[c] # "idle" /\ pc[d] # "idle") => buf[c] # buf[d]

\* The map and the goroutines that fetch agree; a flight has one leader, and is
\* not done while it has.
FlightsLed ==
    /\ \A c \in Callers : Fetching(c) => inflight[key[c]] = ref[c]
    /\ \A k \in Keys : inflight[k] # NoFlight =>
        \E c \in Callers : Fetching(c) /\ key[c] = k /\ ref[c] = inflight[k]
    /\ \A c, d \in Callers : (c # d /\ Leads(c) /\ Leads(d)) => ref[c] # ref[d]
    /\ \A c \in Callers : Leads(c) => ~flight[ref[c]].done

\* What a waiter knows of the flight it waits for: it is counted, the leader is
\* there until the flight is done, and a flight settled with success holds all
\* the bytes of its GET, which are bytes of the waiter's own chunk.
WaiterKept(c) ==
    /\ ~flight[ref[c]].done => \E d \in Callers : Leads(d) /\ ref[d] = ref[c]
    /\ \A d \in Callers : (Fetching(d) /\ ref[d] = ref[c]) =>
        flight[ref[c]].waited /\ key[d] = key[c]
    /\ (~flight[ref[c]].err /\ \A d \in Callers : Fetching(d) => ref[d] # ref[c]) =>
        /\ Len(flight[ref[c]].data) = flight[ref[c]].got
        /\ \A i \in 1 .. Len(flight[ref[c]].data) : flight[ref[c]].data[i] = key[c]

WaitersKept == \A c \in Callers : pc[c] = "wait" => WaiterKept(c)

\* Once a GET has ended well, the buffer holds bytes of the chunk.
BytesOK ==
    \A c \in Callers : (pc[c] \in {"settle", "close", "return"} /\ ~failed[c]) =>
        \A i \in 1 .. n[c] : mem[buf[c]][i] = key[c]

Inv == TypeOK /\ LocalOK /\ BuffersOwned /\ FlightsLed /\ WaitersKept /\ BytesOK

----------------------------------------------------------------------------
(* The operators on contents. *)

\* A copy of the first m bytes of a buffer is a sequence of m bytes.
LEMMA PrefixIsData ==
    ASSUME TypeOK, NEW b \in Buffers, NEW m \in 0 .. ChunkSize
    PROVE  /\ Prefix(b, m) \in Data
           /\ Len(Prefix(b, m)) = m
           /\ \A i \in 1 .. m : Prefix(b, m)[i] = mem[b][i]
<1>1. Prefix(b, m) \in [1 .. m -> Byte]
  BY ChunkFetchAssumption DEF TypeOK, Prefix
<1>2. Prefix(b, m) \in Seq(Byte) /\ Len(Prefix(b, m)) = m
  BY <1>1 DEF Prefix
<1> QED
  BY <1>1, <1>2 DEF Data, Prefix

\* Whatever a flight holds is a sequence of at most ChunkSize bytes.
LEMMA DataLen ==
    ASSUME NEW s \in Data
    PROVE  Len(s) \in 0 .. ChunkSize /\ s \in [1 .. Len(s) -> Byte]
<1>1. PICK m \in 0 .. ChunkSize : s \in [1 .. m -> Byte]
  BY DEF Data
<1>2. s \in Seq(Byte) /\ Len(s) = m
  BY <1>1, ChunkFetchAssumption
<1> QED
  BY <1>1, <1>2

\* Overwriting part of a buffer leaves a buffer.
LEMMA OverwriteIsBuffer ==
    ASSUME NEW bytes \in [1 .. ChunkSize -> Byte], NEW m \in 0 .. ChunkSize,
           NEW s \in [1 .. m -> Byte]
    PROVE  /\ Overwrite(bytes, s, m) \in [1 .. ChunkSize -> Byte]
           /\ \A i \in 1 .. m : Overwrite(bytes, s, m)[i] = s[i]
  BY ChunkFetchAssumption DEF Overwrite

----------------------------------------------------------------------------
(* Types and local variables. *)

LEMMA TypeInit == Init => TypeOK /\ LocalOK
<1> SUFFICES ASSUME Init PROVE TypeOK /\ LocalOK
  OBVIOUS
<1>1. << >> \in Data
  <2>1. << >> \in [1 .. 0 -> Byte]
    OBVIOUS
  <2> QED
    BY <2>1, ChunkFetchAssumption DEF Data
<1>2. FreshFlight \in Flight
  BY <1>1, ChunkFetchAssumption DEF FreshFlight, Flight
<1>3. TypeOK
  BY <1>2, ChunkFetchAssumption DEF Init, TypeOK, PcValues, Byte
<1>4. LocalOK
  BY DEF Init, LocalOK, Leads
<1> QED
  BY <1>3, <1>4

\* The parts of an action's effect that the types depend on are the same for
\* both ways a waiter fails.
LEMMA WaiterFailsType ==
    ASSUME TypeOK, LocalOK, NEW c \in Callers, pc[c] = "wait", WaiterFails(c)
    PROVE  TypeOK' /\ LocalOK'
<1>1. TypeOK'
  BY ChunkFetchAssumption DEF WaiterFails, TypeOK, PcValues
<1>2. LocalOK'
  BY ChunkFetchAssumption DEF WaiterFails, TypeOK, LocalOK, Leads, PcValues
<1> QED
  BY <1>1, <1>2

LEMMA FetchEndsType ==
    ASSUME TypeOK, LocalOK, NEW c \in Callers, NEW m \in 0 .. ChunkSize,
           NEW bad \in BOOLEAN, FetchEnds(c, m, bad)
    PROVE  TypeOK' /\ LocalOK'
<1>1. key[c] \in Keys /\ buf[c] \in Buffers
  BY DEF FetchEnds, LocalOK
<1>2. Body(key[c], m) \in [1 .. m -> Byte]
  BY <1>1 DEF Body, Byte
<1>3. Overwrite(mem[buf[c]], Body(key[c], m), m) \in [1 .. ChunkSize -> Byte]
  BY <1>1, <1>2, OverwriteIsBuffer DEF TypeOK
<1>4. TypeOK'
  BY <1>1, <1>3, ChunkFetchAssumption DEF FetchEnds, TypeOK, PcValues
<1>5. LocalOK'
  BY DEF FetchEnds, TypeOK, LocalOK, Leads, PcValues
<1> QED
  BY <1>4, <1>5

LEMMA TypeStep ==
    ASSUME TypeOK, LocalOK, [Next]_vars
    PROVE  TypeOK' /\ LocalOK'
<1> USE ChunkFetchAssumption
<1>1. ASSUME NEW c \in Callers, NEW k \in Keys, Begin(c, k)
      PROVE  TypeOK' /\ LocalOK'
  BY <1>1 DEF Begin, PoolGet, TypeOK, LocalOK, Leads, PcValues
<1>2. ASSUME NEW c \in Callers, Cancel(c)
      PROVE  TypeOK' /\ LocalOK'
  BY <1>2 DEF Cancel, TypeOK, LocalOK, Leads
<1>3. ASSUME NEW c \in Callers, Lead(c)
      PROVE  TypeOK' /\ LocalOK'
  <2>1. << >> \in Data
    <3>1. << >> \in [1 .. 0 -> Byte]
      OBVIOUS
    <3> QED
      BY <3>1 DEF Data
  <2>2. FreshFlight \in Flight
    BY <2>1 DEF FreshFlight, Flight
  <2>3. PICK f \in Flights :
            /\ flight' = [flight EXCEPT ![f] = FreshFlight]
            /\ inflight' = [inflight EXCEPT ![key[c]] = f]
            /\ ref' = [ref EXCEPT ![c] = f]
    BY <1>3 DEF Lead
  <2>4. /\ inflight' \in [Keys -> Flights \union {NoFlight}]
        /\ flight' \in [Flights -> Flight]
        /\ ref' \in [Callers -> Flights \union {NoFlight}]
    BY <2>2, <2>3 DEF TypeOK
  <2>5. TypeOK'
    BY <1>3, <2>4 DEF Lead, TypeOK, PcValues
  <2>6. LocalOK'
    BY <1>3, <2>3 DEF Lead, TypeOK, LocalOK, Leads
  <2> QED
    BY <2>5, <2>6
<1>4. ASSUME NEW c \in Callers, Join(c)
      PROVE  TypeOK' /\ LocalOK'
  <2>1. key[c] \in Keys /\ inflight[key[c]] \in Flights
    BY <1>4 DEF Join, TypeOK, LocalOK
  <2>2. flight' \in [Flights -> Flight]
    <3>1. flight[inflight[key[c]]] \in Flight
      BY <2>1 DEF TypeOK
    <3>2. [flight[inflight[key[c]]] EXCEPT !.waited = TRUE] \in Flight
      BY <3>1 DEF Flight
    <3> QED
      BY <1>4, <2>1, <3>2 DEF Join, TypeOK
  <2>3. TypeOK'
    BY <1>4, <2>1, <2>2 DEF Join, TypeOK, PcValues
  <2>4. LocalOK'
    BY <1>4, <2>1 DEF Join, TypeOK, LocalOK, Leads
  <2> QED
    BY <2>3, <2>4
<1>5. ASSUME NEW c \in Callers, WaitCancelled(c)
      PROVE  TypeOK' /\ LocalOK'
  BY <1>5, WaiterFailsType DEF WaitCancelled
<1>6. ASSUME NEW c \in Callers, WaitServed(c)
      PROVE  TypeOK' /\ LocalOK'
  <2> DEFINE data == flight[ref[c]].data
  <2>1. ref[c] \in Flights /\ buf[c] \in Buffers
    BY <1>6 DEF WaitServed, LocalOK, Leads, TypeOK
  <2>2. data \in Data
    BY <2>1 DEF TypeOK, Flight
  <2>3. Len(data) \in 0 .. ChunkSize /\ data \in [1 .. Len(data) -> Byte]
    BY <2>2, DataLen
  <2>4. Overwrite(mem[buf[c]], data, Len(data)) \in [1 .. ChunkSize -> Byte]
    BY <2>1, <2>3, OverwriteIsBuffer DEF TypeOK
  <2>5. TypeOK'
    BY <1>6, <2>1, <2>3, <2>4 DEF WaitServed, TypeOK, PcValues
  <2>6. LocalOK'
    BY <1>6 DEF WaitServed, TypeOK, LocalOK, Leads
  <2> QED
    BY <2>5, <2>6
<1>7. ASSUME NEW c \in Callers, WaitLeaderFailed(c)
      PROVE  TypeOK' /\ LocalOK'
  <2>1. CASE WaiterFails(c)
    BY <1>7, <2>1, WaiterFailsType DEF WaitLeaderFailed
  <2>2. CASE /\ pc' = [pc EXCEPT ![c] = "enter"]
             /\ ref' = [ref EXCEPT ![c] = NoFlight]
             /\ UNCHANGED <<inflight, flight, free, mem, key, buf, n, failed, cancelled>>
    <3>1. TypeOK'
      BY <2>2 DEF TypeOK, PcValues
    <3>2. LocalOK'
      BY <1>7, <2>2 DEF WaitLeaderFailed, TypeOK, LocalOK, Leads
    <3> QED
      BY <3>1, <3>2
  <2> QED
    BY <1>7, <2>1, <2>2 DEF WaitLeaderFailed
<1>8. ASSUME NEW c \in Callers, FetchWhole(c)
      PROVE  TypeOK' /\ LocalOK'
  <2>1. ChunkLen[key[c]] \in 0 .. ChunkSize
    BY <1>8 DEF FetchWhole, LocalOK
  <2> QED
    BY <1>8, <2>1, FetchEndsType DEF FetchWhole
<1>9. ASSUME NEW c \in Callers, FetchCut(c)
      PROVE  TypeOK' /\ LocalOK'
  <2>1. ChunkLen[key[c]] \in 0 .. ChunkSize
    BY <1>9 DEF FetchCut, LocalOK
  <2>2. PICK m \in 0 .. ChunkLen[key[c]] : FetchEnds(c, m, FALSE)
    BY <1>9 DEF FetchCut
  <2>3. m \in 0 .. ChunkSize
    BY <2>1
  <2> QED
    BY <2>2, <2>3, FetchEndsType
<1>10. ASSUME NEW c \in Callers, FetchFails(c)
       PROVE  TypeOK' /\ LocalOK'
  <2>1. ChunkLen[key[c]] \in 0 .. ChunkSize
    BY <1>10 DEF FetchFails, LocalOK
  <2>2. PICK m \in 0 .. ChunkLen[key[c]] : FetchEnds(c, m, TRUE)
    BY <1>10 DEF FetchFails
  <2>3. m \in 0 .. ChunkSize
    BY <2>1
  <2> QED
    BY <2>2, <2>3, FetchEndsType
<1>11. ASSUME NEW c \in Callers, Settle(c)
       PROVE  TypeOK' /\ LocalOK'
  <2> DEFINE copied == IF ~failed[c] /\ flight[ref[c]].waited
                       THEN Prefix(buf[c], n[c]) ELSE << >>
  <2>1. key[c] \in Keys /\ buf[c] \in Buffers /\ ref[c] \in Flights
    BY <1>11 DEF Settle, LocalOK, Leads, TypeOK
  <2>2. << >> \in Data
    <3>1. << >> \in [1 .. 0 -> Byte]
      OBVIOUS
    <3> QED
      BY <3>1 DEF Data
  <2>3. n[c] \in 0 .. ChunkSize /\ failed[c] \in BOOLEAN
    BY DEF TypeOK
  <2>4. copied \in Data
    BY <2>1, <2>2, <2>3, PrefixIsData
  <2>5. flight' = [flight EXCEPT ![ref[c]].data = copied, ![ref[c]].err = failed[c],
                                 ![ref[c]].got = n[c]]
    BY <1>11 DEF Settle
  <2> HIDE DEF copied
  <2>6. flight' \in [Flights -> Flight]
    <3>1. flight[ref[c]] \in Flight
      BY <2>1 DEF TypeOK
    <3>2. [flight[ref[c]] EXCEPT !.data = copied, !.err = failed[c], !.got = n[c]]
            \in Flight
      BY <2>3, <2>4, <3>1 DEF Flight
    <3> QED
      BY <2>1, <2>5, <3>2 DEF TypeOK
  <2>7. TypeOK'
    BY <1>11, <2>1, <2>6 DEF Settle, TypeOK, PcValues
  <2>8. LocalOK'
    BY <1>11 DEF Settle, TypeOK, LocalOK, Leads
  <2> QED
    BY <2>7, <2>8
<1>12. ASSUME NEW c \in Callers, Close(c)
       PROVE  TypeOK' /\ LocalOK'
  <2>1. ref[c] \in Flights
    BY <1>12 DEF Close, LocalOK, Leads, TypeOK
  <2>2. flight' \in [Flights -> Flight]
    BY <1>12, <2>1 DEF Close, TypeOK, Flight
  <2>3. TypeOK'
    BY <1>12, <2>2 DEF Close, TypeOK, PcValues
  <2>4. LocalOK'
    BY <1>12 DEF Close, TypeOK, LocalOK, Leads
  <2> QED
    BY <2>3, <2>4
<1>13. ASSUME NEW c \in Callers, Return(c)
       PROVE  TypeOK' /\ LocalOK'
  <2>1. buf[c] \in Buffers
    BY <1>13 DEF Return, PoolPut, LocalOK
  <2>2. [i \in 1 .. ChunkSize |-> Stale] \in [1 .. ChunkSize -> Byte]
    BY DEF Byte
  <2>3. TypeOK'
    <3>1. mem' \in [Buffers -> [1 .. ChunkSize -> Byte]] /\ free' \in SUBSET Buffers
      BY <1>13, <2>1, <2>2 DEF Return, PoolPut, TypeOK
    <3>2. n' \in [Callers -> 0 .. ChunkSize]
      BY <1>13 DEF Return, PoolPut, TypeOK
    <3>3. /\ pc' \in [Callers -> PcValues]
          /\ key' \in [Callers -> Keys \union {NoKey}]
          /\ buf' \in [Callers -> Buffers \union {NoBuffer}]
          /\ failed' \in [Callers -> BOOLEAN]
          /\ cancelled' \in [Callers -> BOOLEAN]
      BY <1>13 DEF Return, PoolPut, TypeOK, PcValues
    <3> QED
      BY <1>13, <3>1, <3>2, <3>3 DEF Return, PoolPut, TypeOK
  <2>4. LocalOK'
    BY <1>13 DEF Return, PoolPut, TypeOK, LocalOK, Leads
  <2> QED
    BY <2>3, <2>4
<1>14. CASE UNCHANGED vars
  BY <1>14 DEF vars, TypeOK, LocalOK, Leads
<1> QED
  BY <1>1, <1>2, <1>3, <1>4, <1>5, <1>6, <1>7, <1>8, <1>9, <1>10, <1>11, <1>12,
     <1>13, <1>14 DEF Next, Step

\* Every variable keeps its type, for any number of callers, chunks, flights and
\* buffers.
THEOREM TypesHold == Spec => []TypeOK
<1>1. TypeOK /\ LocalOK /\ [Next]_vars => (TypeOK /\ LocalOK)'
  BY TypeStep
<1> QED
  BY <1>1, TypeInit, PTL DEF Spec

----------------------------------------------------------------------------
(* Buffers. *)

LEMMA BuffersStep ==
    ASSUME TypeOK, LocalOK, BuffersOwned, [Next]_vars
    PROVE  BuffersOwned'
<1>1. ASSUME NEW c \in Callers, NEW k \in Keys, Begin(c, k)
      PROVE  BuffersOwned'
  <2>1. PICK b \in free : free' = free \ {b} /\ buf' = [buf EXCEPT ![c] = b]
    BY <1>1 DEF Begin, PoolGet
  <2>2. pc' = [pc EXCEPT ![c] = "enter"] /\ pc[c] = "idle"
    BY <1>1 DEF Begin, PoolGet
  <2> QED
    BY <2>1, <2>2 DEF TypeOK, BuffersOwned
<1>2. ASSUME NEW c \in Callers, Return(c)
      PROVE  BuffersOwned'
  BY <1>2 DEF Return, PoolPut, TypeOK, BuffersOwned
<1>3. ASSUME UNCHANGED <<free, buf>>,
             \A c \in Callers : pc'[c] # "idle" => pc[c] # "idle"
      PROVE  BuffersOwned'
  BY <1>3 DEF BuffersOwned
<1>4. ASSUME NEW c \in Callers, Cancel(c) \/ (Step(c) /\ ~Return(c))
      PROVE  BuffersOwned'
  <2>1. CASE Cancel(c)
    BY <1>3, <2>1 DEF Cancel
  <2>2. CASE Lead(c) \/ Join(c)
    BY <1>3, <2>2 DEF Lead, Join, TypeOK
  <2>3. CASE WaitCancelled(c) \/ WaitServed(c) \/ WaitLeaderFailed(c)
    BY <1>3, <2>3 DEF WaitCancelled, WaitServed, WaitLeaderFailed, WaiterFails, TypeOK
  <2>4. CASE FetchWhole(c) \/ FetchCut(c) \/ FetchFails(c)
    BY <1>3, <2>4 DEF FetchWhole, FetchCut, FetchFails, FetchEnds, TypeOK
  <2>5. CASE Settle(c) \/ Close(c)
    BY <1>3, <2>5 DEF Settle, Close, TypeOK
  <2> QED
    BY <1>4, <2>1, <2>2, <2>3, <2>4, <2>5 DEF Step
<1>5. CASE UNCHANGED vars
  BY <1>3, <1>5 DEF vars
<1> QED
  BY <1>1, <1>2, <1>4, <1>5 DEF Next, Step

----------------------------------------------------------------------------
(* Flights and their leaders. *)

\* Steps that neither publish, unpublish nor close a flight.
LEMMA FlightsFrame ==
    ASSUME FlightsLed, inflight' = inflight,
           \A d \in Callers :
                /\ Fetching(d)' <=> Fetching(d)
                /\ Leads(d)' <=> Leads(d)
                /\ Leads(d) => /\ key'[d] = key[d]
                               /\ ref'[d] = ref[d]
                               /\ flight'[ref[d]].done = flight[ref[d]].done
    PROVE  FlightsLed'
<1> USE DEF Leads, Fetching
<1>1. \A d \in Callers : Fetching(d)' => inflight'[key'[d]] = ref'[d]
  BY DEF FlightsLed
<1>2. ASSUME NEW k \in Keys, inflight'[k] # NoFlight
      PROVE  \E d \in Callers : Fetching(d)' /\ key'[d] = k /\ ref'[d] = inflight'[k]
  <2>1. PICK d \in Callers : Fetching(d) /\ key[d] = k /\ ref[d] = inflight[k]
    BY <1>2 DEF FlightsLed
  <2> QED
    BY <2>1
<1>3. \A c, d \in Callers : (c # d /\ Leads(c)' /\ Leads(d)') => ref'[c] # ref'[d]
  BY DEF FlightsLed
<1>4. \A d \in Callers : Leads(d)' => ~flight'[ref'[d]].done
  BY DEF FlightsLed
<1> QED
  BY <1>1, <1>2, <1>3, <1>4 DEF FlightsLed

LEMMA FlightsStep ==
    ASSUME TypeOK, LocalOK, FlightsLed, [Next]_vars
    PROVE  FlightsLed'
<1> USE DEF Leads, Fetching
<1>1. ASSUME NEW c \in Callers, NEW k \in Keys, Begin(c, k)
      PROVE  FlightsLed'
  BY <1>1, FlightsFrame DEF Begin, PoolGet, TypeOK
<1>2. ASSUME NEW c \in Callers, Cancel(c)
      PROVE  FlightsLed'
  BY <1>2, FlightsFrame DEF Cancel
<1>3. ASSUME NEW c \in Callers, Lead(c)
      PROVE  FlightsLed'
  <2>1. PICK f \in Flights :
            /\ \A d \in Callers : ref[d] # f
            /\ flight' = [flight EXCEPT ![f] = FreshFlight]
            /\ inflight' = [inflight EXCEPT ![key[c]] = f]
            /\ ref' = [ref EXCEPT ![c] = f]
    BY <1>3 DEF Lead
  <2>2. /\ pc[c] = "enter" /\ pc' = [pc EXCEPT ![c] = "fetch"] /\ key' = key
        /\ inflight[key[c]] = NoFlight /\ key[c] \in Keys
    BY <1>3 DEF Lead, LocalOK
  <2>3. ~FreshFlight.done
    BY DEF FreshFlight
  <2>4. \A d \in Callers : Fetching(d) => ref[d] # NoFlight
    BY DEF LocalOK
  <2>5. \A d \in Callers : Fetching(d)' => inflight'[key'[d]] = ref'[d]
    BY <2>1, <2>2, <2>4 DEF TypeOK, FlightsLed
  <2>6. ASSUME NEW k \in Keys, inflight'[k] # NoFlight
        PROVE  \E d \in Callers : Fetching(d)' /\ key'[d] = k /\ ref'[d] = inflight'[k]
    <3>1. CASE k = key[c]
      BY <2>1, <2>2, <3>1 DEF TypeOK
    <3>2. CASE k # key[c]
      <4>1. inflight'[k] = inflight[k]
        BY <2>1, <3>2 DEF TypeOK
      <4>2. PICK d \in Callers : Fetching(d) /\ key[d] = k /\ ref[d] = inflight[k]
        BY <2>6, <4>1 DEF FlightsLed
      <4>3. Fetching(d)' /\ key'[d] = k /\ ref'[d] = inflight'[k]
        BY <2>1, <2>2, <4>1, <4>2 DEF TypeOK
      <4> QED
        BY <4>3
    <3> QED
      BY <3>1, <3>2
  <2>7. \A d \in Callers : Leads(d)' => ~flight'[ref'[d]].done
    BY <2>1, <2>2, <2>3 DEF TypeOK, LocalOK, FlightsLed
  <2>8. \A d, e \in Callers : (d # e /\ Leads(d)' /\ Leads(e)') => ref'[d] # ref'[e]
    BY <2>1, <2>2 DEF TypeOK, FlightsLed
  <2> QED
    BY <2>5, <2>6, <2>7, <2>8 DEF FlightsLed
<1>4. ASSUME NEW c \in Callers, Join(c)
      PROVE  FlightsLed'
  <2>1. inflight[key[c]] \in Flights
    BY <1>4 DEF Join, TypeOK, LocalOK
  <2>2. \A f \in Flights : flight'[f].done = flight[f].done
    BY <1>4, <2>1 DEF Join, TypeOK, Flight
  <2>3. \A d \in Callers : Leads(d) => ref[d] \in Flights
    BY DEF LocalOK, TypeOK
  <2> QED
    BY <1>4, <2>2, <2>3, FlightsFrame DEF Join, TypeOK
<1>5. ASSUME NEW c \in Callers, WaitCancelled(c) \/ WaitServed(c) \/ WaitLeaderFailed(c)
      PROVE  FlightsLed'
  BY <1>5, FlightsFrame
     DEF WaitCancelled, WaitServed, WaitLeaderFailed, WaiterFails, TypeOK
<1>6. ASSUME NEW c \in Callers, FetchWhole(c) \/ FetchCut(c) \/ FetchFails(c)
      PROVE  FlightsLed'
  BY <1>6, FlightsFrame DEF FetchWhole, FetchCut, FetchFails, FetchEnds, TypeOK
<1>7. ASSUME NEW c \in Callers, Settle(c)
      PROVE  FlightsLed'
  <2>1. ref[c] \in Flights /\ key[c] \in Keys
    BY <1>7 DEF Settle, LocalOK, TypeOK
  <2>2. \A f \in Flights : flight'[f].done = flight[f].done
    BY <1>7, <2>1 DEF Settle, TypeOK, Flight
  <2>3. \A d \in Callers : Leads(d) => ref[d] \in Flights
    BY DEF LocalOK, TypeOK
  <2>4. /\ pc[c] = "settle" /\ pc' = [pc EXCEPT ![c] = "close"]
        /\ inflight' = [inflight EXCEPT ![key[c]] = NoFlight]
        /\ UNCHANGED <<key, ref>>
    BY <1>7 DEF Settle
  <2>5. \A d \in Callers : d # c /\ Fetching(d) => key[d] # key[c]
    BY <2>4 DEF FlightsLed
  <2>6. \A d \in Callers : Fetching(d)' => inflight'[key'[d]] = ref'[d]
    BY <2>4, <2>5 DEF TypeOK, FlightsLed
  <2>7. ASSUME NEW k \in Keys, inflight'[k] # NoFlight
        PROVE  \E d \in Callers : Fetching(d)' /\ key'[d] = k /\ ref'[d] = inflight'[k]
    <3>1. k # key[c] /\ inflight'[k] = inflight[k]
      BY <2>1, <2>4, <2>7 DEF TypeOK
    <3>2. PICK d \in Callers : Fetching(d) /\ key[d] = k /\ ref[d] = inflight[k]
      BY <2>7, <3>1 DEF FlightsLed
    <3>3. Fetching(d)' /\ key'[d] = k /\ ref'[d] = inflight'[k]
      BY <2>4, <3>1, <3>2 DEF TypeOK
    <3> QED
      BY <3>3
  <2>8. \A d \in Callers : Leads(d)' <=> Leads(d)
    BY <2>4 DEF TypeOK
  <2>9. \A d, e \in Callers : (d # e /\ Leads(d)' /\ Leads(e)') => ref'[d] # ref'[e]
    BY <2>4, <2>8 DEF FlightsLed
  <2>10. \A d \in Callers : Leads(d)' => ~flight'[ref'[d]].done
    BY <2>2, <2>3, <2>4, <2>8 DEF FlightsLed
  <2> QED
    BY <2>6, <2>7, <2>9, <2>10 DEF FlightsLed
<1>8. ASSUME NEW c \in Callers, Close(c)
      PROVE  FlightsLed'
  <2>1. ref[c] \in Flights
    BY <1>8 DEF Close, LocalOK, TypeOK
  <2>2. \A f \in Flights : f # ref[c] => flight'[f] = flight[f]
    BY <1>8, <2>1 DEF Close, TypeOK
  <2>3. \A d \in Callers : Leads(d) => ref[d] \in Flights
    BY DEF LocalOK, TypeOK
  <2>4. /\ pc[c] = "close" /\ pc' = [pc EXCEPT ![c] = "return"]
        /\ ref' = [ref EXCEPT ![c] = NoFlight]
        /\ UNCHANGED <<key, inflight>>
    BY <1>8 DEF Close
  <2>5. \A d \in Callers : Fetching(d)' <=> Fetching(d)
    BY <2>4 DEF TypeOK
  <2>6. \A d \in Callers : Leads(d)' <=> (Leads(d) /\ d # c)
    BY <2>4 DEF TypeOK
  <2>7. \A d \in Callers : Leads(d)' => ref'[d] = ref[d]
    BY <2>4, <2>6 DEF TypeOK
  <2>8. \A d \in Callers : Fetching(d)' => inflight'[key'[d]] = ref'[d]
    BY <2>4, <2>5, <2>7 DEF FlightsLed
  <2>9. ASSUME NEW k \in Keys, inflight'[k] # NoFlight
        PROVE  \E d \in Callers : Fetching(d)' /\ key'[d] = k /\ ref'[d] = inflight'[k]
    <3>1. PICK d \in Callers : Fetching(d) /\ key[d] = k /\ ref[d] = inflight[k]
      BY <2>4, <2>9 DEF FlightsLed
    <3> QED
      BY <2>4, <2>5, <2>7, <3>1
  <2>10. \A d, e \in Callers : (d # e /\ Leads(d)' /\ Leads(e)') => ref'[d] # ref'[e]
    BY <2>6, <2>7 DEF FlightsLed
  <2>11. \A d \in Callers : Leads(d)' => ~flight'[ref'[d]].done
    BY <2>2, <2>3, <2>4, <2>6, <2>7 DEF FlightsLed
  <2> QED
    BY <2>8, <2>9, <2>10, <2>11 DEF FlightsLed
<1>9. ASSUME NEW c \in Callers, Return(c)
      PROVE  FlightsLed'
  BY <1>9, FlightsFrame DEF Return, PoolPut, TypeOK
<1>10. CASE UNCHANGED vars
  BY <1>10, FlightsFrame DEF vars
<1> QED
  BY <1>1, <1>2, <1>3, <1>4, <1>5, <1>6, <1>7, <1>8, <1>9, <1>10 DEF Next, Step

----------------------------------------------------------------------------
(* Waiters. *)

\* Steps that create no waiter and touch neither a flight nor who leads it.
LEMMA WaitersFrame ==
    ASSUME WaitersKept, flight' = flight,
           \A d \in Callers :
                /\ Fetching(d)' <=> Fetching(d)
                /\ Leads(d)' <=> Leads(d)
                /\ pc'[d] = "wait" => pc[d] = "wait"
                /\ (Leads(d) \/ pc'[d] = "wait") => key'[d] = key[d] /\ ref'[d] = ref[d]
    PROVE  WaitersKept'
<1> SUFFICES ASSUME NEW w \in Callers, pc'[w] = "wait"
             PROVE  WaiterKept(w)'
  BY DEF WaitersKept
<1>1. WaiterKept(w) /\ ref'[w] = ref[w] /\ key'[w] = key[w]
  BY DEF WaitersKept
<1>2. \A d \in Callers : Fetching(d)' => ref'[d] = ref[d] /\ key'[d] = key[d]
  BY DEF Leads, Fetching
<1>3. ~flight'[ref'[w]].done => \E d \in Callers : Leads(d)' /\ ref'[d] = ref'[w]
  BY <1>1 DEF WaiterKept
<1>4. \A d \in Callers : (Fetching(d)' /\ ref'[d] = ref'[w]) =>
        flight'[ref'[w]].waited /\ key'[d] = key'[w]
  BY <1>1, <1>2 DEF WaiterKept
<1>5. (~flight'[ref'[w]].err /\ \A d \in Callers : Fetching(d)' => ref'[d] # ref'[w]) =>
        /\ Len(flight'[ref'[w]].data) = flight'[ref'[w]].got
        /\ \A i \in 1 .. Len(flight'[ref'[w]].data) : flight'[ref'[w]].data[i] = key'[w]
  BY <1>1, <1>2 DEF WaiterKept
<1> QED
  BY <1>3, <1>4, <1>5 DEF WaiterKept

\* A goroutine that publishes a flight nobody refers to disturbs no waiter.
LEMMA WaitersLead ==
    ASSUME TypeOK, LocalOK, WaitersKept, NEW c \in Callers, Lead(c)
    PROVE  WaitersKept'
<1>1. PICK f \in Flights :
          /\ \A d \in Callers : ref[d] # f
          /\ flight' = [flight EXCEPT ![f] = FreshFlight]
          /\ ref' = [ref EXCEPT ![c] = f]
  BY DEF Lead
<1>2. pc[c] = "enter" /\ pc' = [pc EXCEPT ![c] = "fetch"] /\ key' = key
  BY DEF Lead
<1> SUFFICES ASSUME NEW w \in Callers, pc'[w] = "wait"
             PROVE  WaiterKept(w)'
  BY DEF WaitersKept
<1>3. w # c /\ WaiterKept(w) /\ ref[w] \in Flights /\ ref'[w] = ref[w]
  BY <1>1, <1>2 DEF TypeOK, LocalOK, WaitersKept
<1>4. flight'[ref'[w]] = flight[ref[w]]
  BY <1>1, <1>3 DEF TypeOK
<1>5. \A d \in Callers : d # c =>
        /\ ref'[d] = ref[d]
        /\ Fetching(d)' <=> Fetching(d)
        /\ Leads(d)' <=> Leads(d)
  BY <1>1, <1>2 DEF TypeOK, Fetching, Leads
<1>6. ref'[c] # ref'[w] /\ ~Leads(c) /\ ~Fetching(c)
  BY <1>1, <1>2, <1>3 DEF TypeOK, Leads, Fetching
<1>7. ~flight'[ref'[w]].done => \E d \in Callers : Leads(d)' /\ ref'[d] = ref'[w]
  BY <1>3, <1>4, <1>5, <1>6 DEF WaiterKept
<1>8. \A d \in Callers : (Fetching(d)' /\ ref'[d] = ref'[w]) =>
        flight'[ref'[w]].waited /\ key'[d] = key'[w]
  BY <1>2, <1>3, <1>4, <1>5, <1>6 DEF WaiterKept
<1>9. (~flight'[ref'[w]].err /\ \A d \in Callers : Fetching(d)' => ref'[d] # ref'[w]) =>
        /\ Len(flight'[ref'[w]].data) = flight'[ref'[w]].got
        /\ \A i \in 1 .. Len(flight'[ref'[w]].data) : flight'[ref'[w]].data[i] = key'[w]
  BY <1>2, <1>3, <1>4, <1>5, <1>6 DEF WaiterKept
<1> QED
  BY <1>7, <1>8, <1>9 DEF WaiterKept

\* Whoever joins finds the leader of its own chunk still before its Settle.
LEMMA WaitersJoin ==
    ASSUME TypeOK, LocalOK, FlightsLed, WaitersKept, NEW c \in Callers, Join(c)
    PROVE  WaitersKept'
<1> DEFINE f == inflight[key[c]]
<1>1. f \in Flights /\ key[c] \in Keys
  BY DEF Join, TypeOK, LocalOK
<1>2. PICK leader \in Callers : Fetching(leader) /\ key[leader] = key[c] /\ ref[leader] = f
  BY <1>1 DEF Join, FlightsLed
<1>3. /\ pc[c] = "enter" /\ pc' = [pc EXCEPT ![c] = "wait"] /\ key' = key
      /\ ref' = [ref EXCEPT ![c] = f]
      /\ flight' = [flight EXCEPT ![f].waited = TRUE]
  BY DEF Join
<1>4. \A g \in Flights :
        /\ flight'[g].done = flight[g].done /\ flight'[g].err = flight[g].err
        /\ flight'[g].data = flight[g].data /\ flight'[g].got = flight[g].got
        /\ flight'[g].waited = (flight[g].waited \/ g = f)
  BY <1>1, <1>3, Zenon DEF TypeOK, Flight
<1>5. \A d \in Callers : (Fetching(d)' <=> Fetching(d)) /\ (Leads(d)' <=> Leads(d))
  BY <1>3 DEF TypeOK, Fetching, Leads
<1>6. \A d \in Callers : d # c => ref'[d] = ref[d]
  BY <1>3 DEF TypeOK
<1>7. ~Leads(c) /\ ~Fetching(c) /\ ref'[c] = f /\ leader # c
  BY <1>2, <1>3 DEF TypeOK, Leads, Fetching
<1> HIDE DEF f
<1> SUFFICES ASSUME NEW w \in Callers, pc'[w] = "wait"
             PROVE  WaiterKept(w)'
  BY DEF WaitersKept
<1>8. CASE w = c
  <2>1. Leads(leader)' /\ Fetching(leader)' /\ ref'[leader] = ref'[c]
    BY <1>2, <1>5, <1>6, <1>7 DEF Leads, Fetching
  <2>2. \A d \in Callers : Fetching(d)' /\ ref'[d] = ref'[c] => d = leader
    BY <1>2, <1>5, <1>6, <1>7, <2>1 DEF FlightsLed, Leads, Fetching
  <2>3. flight'[ref'[c]].waited /\ key'[leader] = key'[c]
    BY <1>1, <1>2, <1>3, <1>4, <1>7
  <2> QED
    BY <1>8, <2>1, <2>2, <2>3 DEF WaiterKept
<1>9. CASE w # c
  <2>1. WaiterKept(w) /\ ref'[w] = ref[w] /\ ref[w] \in Flights
    BY <1>3, <1>6, <1>9 DEF TypeOK, LocalOK, WaitersKept
  <2>2. ~flight'[ref'[w]].done => \E d \in Callers : Leads(d)' /\ ref'[d] = ref'[w]
    BY <1>4, <1>5, <1>6, <1>7, <2>1 DEF WaiterKept
  <2>3. \A d \in Callers : (Fetching(d)' /\ ref'[d] = ref'[w]) =>
          flight'[ref'[w]].waited /\ key'[d] = key'[w]
    BY <1>3, <1>4, <1>5, <1>6, <1>7, <2>1 DEF WaiterKept
  <2>4. (~flight'[ref'[w]].err /\ \A d \in Callers : Fetching(d)' => ref'[d] # ref'[w]) =>
          /\ Len(flight'[ref'[w]].data) = flight'[ref'[w]].got
          /\ \A i \in 1 .. Len(flight'[ref'[w]].data) : flight'[ref'[w]].data[i] = key'[w]
    BY <1>3, <1>4, <1>5, <1>6, <1>7, <2>1 DEF WaiterKept
  <2> QED
    BY <2>2, <2>3, <2>4 DEF WaiterKept
<1> QED
  BY <1>8, <1>9

\* A leader that settles hands its waiters a copy of what its GET delivered.
LEMMA WaitersSettle ==
    ASSUME TypeOK, LocalOK, FlightsLed, WaitersKept, BytesOK, NEW c \in Callers, Settle(c)
    PROVE  WaitersKept'
<1> DEFINE f == ref[c]
           copied == IF ~failed[c] /\ flight[f].waited THEN Prefix(buf[c], n[c]) ELSE << >>
<1>1. f \in Flights /\ key[c] \in Keys /\ buf[c] \in Buffers /\ n[c] \in 0 .. ChunkSize
  BY DEF Settle, TypeOK, LocalOK, Leads
<1>2. /\ pc[c] = "settle" /\ pc' = [pc EXCEPT ![c] = "close"]
      /\ key' = key /\ ref' = ref
      /\ flight' = [flight EXCEPT ![f].data = copied, ![f].err = failed[c],
                                  ![f].got = n[c]]
  BY DEF Settle
<1>3. ~failed[c] /\ flight[f].waited =>
        /\ Len(copied) = n[c]
        /\ \A i \in 1 .. n[c] : copied[i] = key[c]
  BY <1>1, <1>2, PrefixIsData DEF BytesOK
<1>4. Fetching(c) /\ Leads(c) /\ ~Fetching(c)' /\ Leads(c)'
  BY <1>2 DEF TypeOK, Fetching, Leads
<1>5. \A d \in Callers : d # c => (Fetching(d)' <=> Fetching(d)) /\ (Leads(d)' <=> Leads(d))
  BY <1>2 DEF TypeOK, Fetching, Leads
<1> HIDE DEF copied
<1>6. \A g \in Flights : g # f => flight'[g] = flight[g]
  BY <1>1, <1>2 DEF TypeOK
<1>7. /\ flight'[f].data = copied /\ flight'[f].err = failed[c] /\ flight'[f].got = n[c]
      /\ flight'[f].done = flight[f].done
  <2>1. flight[f] \in Flight
    BY <1>1 DEF TypeOK
  <2>2. flight'[f] = [flight[f] EXCEPT !.data = copied, !.err = failed[c], !.got = n[c]]
    BY <1>1, <1>2 DEF TypeOK
  <2> QED
    BY <2>1, <2>2 DEF Flight
<1> HIDE DEF f
<1> SUFFICES ASSUME NEW w \in Callers, pc'[w] = "wait"
             PROVE  WaiterKept(w)'
  BY DEF WaitersKept
<1>8. WaiterKept(w) /\ w # c /\ ref[w] \in Flights
  BY <1>2 DEF TypeOK, LocalOK, WaitersKept
<1>9. CASE ref[w] = f
  <2>1. flight[f].waited /\ key[w] = key[c]
    BY <1>4, <1>8, <1>9 DEF WaiterKept, f
  <2>2. \A d \in Callers : Fetching(d)' => ref[d] # f
    BY <1>4, <1>5 DEF FlightsLed, f, Fetching, Leads
  <2>3. ~flight'[f].err =>
          /\ Len(flight'[f].data) = flight'[f].got
          /\ \A i \in 1 .. Len(flight'[f].data) : flight'[f].data[i] = key[w]
    BY <1>3, <1>7, <2>1
  <2>4. Leads(c)' /\ ref'[c] = f
    BY <1>2, <1>4 DEF f
  <2> QED
    BY <1>2, <1>9, <2>2, <2>3, <2>4 DEF WaiterKept
<1>10. CASE ref[w] # f
  <2>1. flight'[ref'[w]] = flight[ref[w]] /\ ref'[w] = ref[w]
    BY <1>2, <1>6, <1>8, <1>10
  <2>2. \A d \in Callers : ref[d] = ref[w] => (Fetching(d)' <=> Fetching(d)) /\ (Leads(d)' <=> Leads(d))
    BY <1>5, <1>10 DEF f
  <2>3. ~flight'[ref'[w]].done => \E d \in Callers : Leads(d)' /\ ref'[d] = ref'[w]
    BY <1>2, <1>8, <2>1, <2>2 DEF WaiterKept
  <2>4. \A d \in Callers : (Fetching(d)' /\ ref'[d] = ref'[w]) =>
          flight'[ref'[w]].waited /\ key'[d] = key'[w]
    BY <1>2, <1>8, <2>1, <2>2 DEF WaiterKept
  <2>5. (~flight'[ref'[w]].err /\ \A d \in Callers : Fetching(d)' => ref'[d] # ref'[w]) =>
          /\ Len(flight'[ref'[w]].data) = flight'[ref'[w]].got
          /\ \A i \in 1 .. Len(flight'[ref'[w]].data) : flight'[ref'[w]].data[i] = key'[w]
    BY <1>2, <1>8, <2>1, <2>2 DEF WaiterKept
  <2> QED
    BY <2>3, <2>4, <2>5 DEF WaiterKept
<1> QED
  BY <1>9, <1>10

\* A leader that closes its flight leaves no waiter without one: it is done.
LEMMA WaitersClose ==
    ASSUME TypeOK, LocalOK, FlightsLed, WaitersKept, NEW c \in Callers, Close(c)
    PROVE  WaitersKept'
<1> DEFINE f == ref[c]
<1>1. f \in Flights
  BY DEF Close, TypeOK, LocalOK, Leads
<1>2. /\ pc[c] = "close" /\ pc' = [pc EXCEPT ![c] = "return"] /\ key' = key
      /\ ref' = [ref EXCEPT ![c] = NoFlight]
      /\ flight' = [flight EXCEPT ![f].done = TRUE]
  BY DEF Close
<1>3. \A g \in Flights :
        /\ flight'[g].done = (flight[g].done \/ g = f)
        /\ flight'[g].err = flight[g].err /\ flight'[g].waited = flight[g].waited
        /\ flight'[g].data = flight[g].data /\ flight'[g].got = flight[g].got
  BY <1>1, <1>2, Zenon DEF TypeOK, Flight
<1>4. /\ ~Fetching(c) /\ ~Fetching(c)'
      /\ \A d \in Callers : (Fetching(d)' <=> Fetching(d))
      /\ \A d \in Callers : d # c => (Leads(d)' <=> Leads(d)) /\ ref'[d] = ref[d]
  BY <1>2 DEF TypeOK, Fetching, Leads
<1> SUFFICES ASSUME NEW w \in Callers, pc'[w] = "wait"
             PROVE  WaiterKept(w)'
  BY DEF WaitersKept
<1>5. WaiterKept(w) /\ w # c /\ ref[w] \in Flights /\ ref'[w] = ref[w]
  BY <1>2, <1>4 DEF TypeOK, LocalOK, WaitersKept
<1> HIDE DEF f
<1>6. ~flight'[ref'[w]].done => \E d \in Callers : Leads(d)' /\ ref'[d] = ref'[w]
  <2> SUFFICES ASSUME ~flight'[ref'[w]].done
               PROVE  \E d \in Callers : Leads(d)' /\ ref'[d] = ref'[w]
    OBVIOUS
  <2>1. ~flight[ref[w]].done /\ ref[w] # f
    BY <1>3, <1>5
  <2>2. PICK d \in Callers : Leads(d) /\ ref[d] = ref[w]
    BY <1>5, <2>1 DEF WaiterKept
  <2>3. d # c
    BY <2>1, <2>2 DEF f
  <2> QED
    BY <1>4, <1>5, <2>2, <2>3
<1>7. \A d \in Callers : (Fetching(d)' /\ ref'[d] = ref'[w]) =>
        flight'[ref'[w]].waited /\ key'[d] = key'[w]
  BY <1>2, <1>3, <1>4, <1>5 DEF WaiterKept
<1>8. (~flight'[ref'[w]].err /\ \A d \in Callers : Fetching(d)' => ref'[d] # ref'[w]) =>
        /\ Len(flight'[ref'[w]].data) = flight'[ref'[w]].got
        /\ \A i \in 1 .. Len(flight'[ref'[w]].data) : flight'[ref'[w]].data[i] = key'[w]
  BY <1>2, <1>3, <1>4, <1>5 DEF WaiterKept
<1> QED
  BY <1>6, <1>7, <1>8 DEF WaiterKept

LEMMA WaitersStep ==
    ASSUME TypeOK, LocalOK, FlightsLed, WaitersKept, BytesOK, [Next]_vars
    PROVE  WaitersKept'
<1>1. ASSUME NEW c \in Callers, (\E k \in Keys : Begin(c, k)) \/ Cancel(c) \/ Return(c)
      PROVE  WaitersKept'
  BY <1>1, WaitersFrame DEF Begin, PoolGet, Cancel, Return, PoolPut, TypeOK, Fetching, Leads
<1>2. ASSUME NEW c \in Callers, WaitCancelled(c) \/ WaitServed(c) \/ WaitLeaderFailed(c)
      PROVE  WaitersKept'
  BY <1>2, WaitersFrame
     DEF WaitCancelled, WaitServed, WaitLeaderFailed, WaiterFails, TypeOK, Fetching, Leads
<1>3. ASSUME NEW c \in Callers, FetchWhole(c) \/ FetchCut(c) \/ FetchFails(c)
      PROVE  WaitersKept'
  BY <1>3, WaitersFrame
     DEF FetchWhole, FetchCut, FetchFails, FetchEnds, TypeOK, Fetching, Leads
<1>4. CASE UNCHANGED vars
  BY <1>4, WaitersFrame DEF vars, Fetching, Leads
<1> QED
  BY <1>1, <1>2, <1>3, <1>4, WaitersLead, WaitersJoin, WaitersSettle, WaitersClose
     DEF Next, Step

----------------------------------------------------------------------------
(* Bytes. *)

\* Steps that write to no buffer in use and deliver nothing new.
LEMMA BytesFrame ==
    ASSUME BytesOK,
           \A d \in Callers : (pc'[d] \in {"settle", "close", "return"} /\ ~failed'[d]) =>
                /\ pc[d] \in {"settle", "close", "return"} /\ ~failed[d]
                /\ n'[d] = n[d] /\ key'[d] = key[d]
                /\ mem'[buf'[d]] = mem[buf[d]]
    PROVE  BytesOK'
  BY DEF BytesOK

\* Filling the buffer of one goroutine with bytes of its chunk leaves the others'
\* alone, since no two share a buffer.
LEMMA BytesFilled ==
    ASSUME TypeOK, LocalOK, BuffersOwned, BytesOK, NEW c \in Callers, pc[c] # "idle",
           NEW m \in 0 .. ChunkSize, NEW s \in [1 .. m -> Byte],
           mem' = [mem EXCEPT ![buf[c]] = Overwrite(@, s, m)],
           ~failed'[c] => n'[c] = m /\ \A i \in 1 .. m : s[i] = key[c],
           UNCHANGED <<key, buf>>,
           \A d \in Callers : d # c => pc'[d] = pc[d] /\ n'[d] = n[d] /\ failed'[d] = failed[d]
    PROVE  BytesOK'
<1>1. buf[c] \in Buffers /\ mem[buf[c]] \in [1 .. ChunkSize -> Byte]
  BY DEF TypeOK, LocalOK
<1>2. \A i \in 1 .. m : mem'[buf[c]][i] = s[i]
  BY <1>1, OverwriteIsBuffer DEF TypeOK
<1> SUFFICES ASSUME NEW d \in Callers,
                    pc'[d] \in {"settle", "close", "return"}, ~failed'[d]
             PROVE  \A i \in 1 .. n'[d] : mem'[buf'[d]][i] = key'[d]
  BY DEF BytesOK
<1>3. CASE d = c
  BY <1>2, <1>3
<1>4. CASE d # c
  <2>1. buf[d] \in Buffers /\ buf[d] # buf[c]
    BY <1>4 DEF LocalOK, BuffersOwned
  <2>2. mem'[buf[d]] = mem[buf[d]]
    BY <1>1, <2>1 DEF TypeOK
  <2> QED
    BY <1>4, <2>2 DEF BytesOK
<1> QED
  BY <1>3, <1>4

LEMMA BytesFetched ==
    ASSUME TypeOK, LocalOK, BuffersOwned, BytesOK, NEW c \in Callers,
           NEW m \in 0 .. ChunkSize, NEW bad \in BOOLEAN, FetchEnds(c, m, bad)
    PROVE  BytesOK'
<1>1. /\ pc[c] = "fetch" /\ pc' = [pc EXCEPT ![c] = "settle"]
      /\ mem' = [mem EXCEPT ![buf[c]] = Overwrite(@, Body(key[c], m), m)]
      /\ n' = [n EXCEPT ![c] = IF bad THEN 0 ELSE m]
      /\ failed' = [failed EXCEPT ![c] = bad]
      /\ UNCHANGED <<key, buf>>
  BY DEF FetchEnds
<1>2. Body(key[c], m) \in [1 .. m -> Byte] /\ \A i \in 1 .. m : Body(key[c], m)[i] = key[c]
  BY <1>1 DEF Body, Byte, LocalOK
<1>3. \A d \in Callers : d # c => pc'[d] = pc[d] /\ n'[d] = n[d] /\ failed'[d] = failed[d]
  BY <1>1 DEF TypeOK
<1>4. ~failed'[c] => n'[c] = m
  BY <1>1 DEF TypeOK
<1> QED
  BY <1>1, <1>2, <1>3, <1>4, BytesFilled

LEMMA BytesServed ==
    ASSUME TypeOK, LocalOK, BuffersOwned, FlightsLed, WaitersKept, BytesOK,
           NEW c \in Callers, WaitServed(c)
    PROVE  BytesOK'
<1> DEFINE data == flight[ref[c]].data
<1>1. /\ pc[c] = "wait" /\ flight[ref[c]].done /\ ~flight[ref[c]].err
      /\ pc' = [pc EXCEPT ![c] = "return"]
      /\ mem' = [mem EXCEPT ![buf[c]] = Overwrite(@, data, Len(data))]
      /\ n' = [n EXCEPT ![c] = Len(data)]
      /\ failed' = [failed EXCEPT ![c] = FALSE]
      /\ UNCHANGED <<key, buf>>
  BY DEF WaitServed
<1>2. data \in Data
  BY <1>1 DEF TypeOK, LocalOK, Flight
<1>3. Len(data) \in 0 .. ChunkSize /\ data \in [1 .. Len(data) -> Byte]
  BY <1>2, DataLen
<1>4. \A d \in Callers : Fetching(d) => ref[d] # ref[c]
  BY <1>1 DEF FlightsLed, Fetching, Leads
<1>5. \A i \in 1 .. Len(data) : data[i] = key[c]
  BY <1>1, <1>4 DEF WaitersKept, WaiterKept
<1>6. \A d \in Callers : d # c => pc'[d] = pc[d] /\ n'[d] = n[d] /\ failed'[d] = failed[d]
  BY <1>1 DEF TypeOK
<1>7. n'[c] = Len(data)
  BY <1>1 DEF TypeOK
<1> HIDE DEF data
<1> QED
  BY <1>1, <1>3, <1>5, <1>6, <1>7, BytesFilled

LEMMA BytesStep ==
    ASSUME TypeOK, LocalOK, BuffersOwned, FlightsLed, WaitersKept, BytesOK, [Next]_vars
    PROVE  BytesOK'
<1>1. ASSUME NEW c \in Callers, (\E k \in Keys : Begin(c, k)) \/ Cancel(c)
      PROVE  BytesOK'
  BY <1>1, BytesFrame DEF Begin, PoolGet, Cancel, TypeOK
<1>2. ASSUME NEW c \in Callers, Lead(c) \/ Join(c)
      PROVE  BytesOK'
  BY <1>2, BytesFrame DEF Lead, Join, TypeOK
<1>3. ASSUME NEW c \in Callers, WaitCancelled(c) \/ WaitLeaderFailed(c)
      PROVE  BytesOK'
  BY <1>3, BytesFrame DEF WaitCancelled, WaitLeaderFailed, WaiterFails, TypeOK
<1>4. ASSUME NEW c \in Callers, FetchWhole(c) \/ FetchCut(c) \/ FetchFails(c)
      PROVE  BytesOK'
  <2>1. key[c] \in Keys
    BY <1>4 DEF FetchWhole, FetchCut, FetchFails, LocalOK
  <2>2. ChunkLen[key[c]] \in 0 .. ChunkSize
    BY <2>1, ChunkFetchAssumption
  <2>3. \A m \in 0 .. ChunkLen[key[c]] : m \in 0 .. ChunkSize
    BY <2>2, ChunkFetchAssumption
  <2>4. CASE FetchWhole(c)
    <3>1. FetchEnds(c, ChunkLen[key[c]], FALSE)
      BY <2>4 DEF FetchWhole
    <3> QED
      BY <2>2, <3>1, BytesFetched
  <2>5. CASE FetchCut(c)
    <3>1. PICK m \in 0 .. ChunkLen[key[c]] : FetchEnds(c, m, FALSE)
      BY <2>5 DEF FetchCut
    <3> QED
      BY <2>3, <3>1, BytesFetched
  <2>6. CASE FetchFails(c)
    <3>1. PICK m \in 0 .. ChunkLen[key[c]] : FetchEnds(c, m, TRUE)
      BY <2>6 DEF FetchFails
    <3> QED
      BY <2>3, <3>1, BytesFetched
  <2> QED
    BY <1>4, <2>4, <2>5, <2>6
<1>5. ASSUME NEW c \in Callers, Settle(c) \/ Close(c)
      PROVE  BytesOK'
  BY <1>5, BytesFrame DEF Settle, Close, TypeOK
<1>6. ASSUME NEW c \in Callers, Return(c)
      PROVE  BytesOK'
  <2>1. /\ pc' = [pc EXCEPT ![c] = "idle"] /\ pc[c] = "return"
        /\ mem' = [mem EXCEPT ![buf[c]] = [i \in 1 .. ChunkSize |-> Stale]]
        /\ buf' = [buf EXCEPT ![c] = NoBuffer] /\ key' = [key EXCEPT ![c] = NoKey]
        /\ n' = [n EXCEPT ![c] = 0] /\ failed' = [failed EXCEPT ![c] = FALSE]
    BY <1>6 DEF Return, PoolPut
  <2>2. ASSUME NEW d \in Callers, d # c, pc[d] # "idle"
        PROVE  mem'[buf'[d]] = mem[buf[d]]
    BY <2>1, <2>2 DEF TypeOK, LocalOK, BuffersOwned
  <2> QED
    BY <2>1, <2>2, BytesFrame DEF TypeOK
<1>7. CASE UNCHANGED vars
  BY <1>7, BytesFrame DEF vars
<1> QED
  BY <1>1, <1>2, <1>3, <1>4, <1>5, <1>6, <1>7, BytesServed DEF Next, Step

----------------------------------------------------------------------------
(* The theorems. *)

LEMMA InvInit == Init => Inv
<1> SUFFICES ASSUME Init PROVE Inv
  OBVIOUS
<1>1. TypeOK /\ LocalOK
  BY TypeInit
<1>2. BuffersOwned /\ FlightsLed /\ WaitersKept /\ BytesOK
  BY DEF Init, BuffersOwned, FlightsLed, WaitersKept, BytesOK, Leads, Fetching
<1> QED
  BY <1>1, <1>2 DEF Inv

LEMMA InvStep == Inv /\ [Next]_vars => Inv'
  BY TypeStep, BuffersStep, FlightsStep, WaitersStep, BytesStep DEF Inv

\* The inductive invariant of single-flight holds in every reachable state.
THEOREM InvHolds == Spec => []Inv
  BY InvInit, InvStep, PTL DEF Spec

\* Two goroutines never have a GET for the same chunk under way.
THEOREM OneGetHolds == Spec => []OneGetPerChunk
<1>1. Inv => OneGetPerChunk
  <2> SUFFICES ASSUME Inv, NEW c \in Callers, NEW d \in Callers, c # d,
                      pc[c] = "fetch", pc[d] = "fetch"
               PROVE  key[c] # key[d]
    BY DEF OneGetPerChunk
  <2>1. ref[c] # ref[d]
    BY DEF Inv, FlightsLed, Leads
  <2>2. inflight[key[c]] = ref[c] /\ inflight[key[d]] = ref[d]
    BY DEF Inv, FlightsLed, Fetching
  <2> QED
    BY <2>1, <2>2
<1> QED
  BY <1>1, InvHolds, PTL

\* No caller is handed bytes of another chunk or of a buffer's last user.
THEOREM DeliveredBytesHold == Spec => []DeliveredBytesAreTheChunks
<1>1. Inv => DeliveredBytesAreTheChunks
  BY DEF Inv, BytesOK, DeliveredBytesAreTheChunks
<1> QED
  BY <1>1, InvHolds, PTL

\* A leader never skips the copy that a waiter needs.
THEOREM WaitersFindTheBytes == Spec => []WaiterFindsWhatTheGetDelivered
<1>1. Inv => WaiterFindsWhatTheGetDelivered
  <2> SUFFICES ASSUME Inv, NEW c \in Callers, pc[c] = "wait", flight[ref[c]].done,
                      ~flight[ref[c]].err
               PROVE  Len(flight[ref[c]].data) = flight[ref[c]].got
    BY DEF WaiterFindsWhatTheGetDelivered
  <2>1. \A d \in Callers : Fetching(d) => ref[d] # ref[c]
    BY DEF Inv, FlightsLed, Fetching, Leads
  <2> QED
    BY <2>1 DEF Inv, WaitersKept, WaiterKept
<1> QED
  BY <1>1, InvHolds, PTL

\* A waiter always has a leader that has still to close its flight, or is awake.
THEOREM NoWaiterIsOrphaned == Spec => []NoOrphanedWaiter
<1>1. Inv => NoOrphanedWaiter
  BY DEF Inv, WaitersKept, WaiterKept, NoOrphanedWaiter, Leading, Leads
<1> QED
  BY <1>1, InvHolds, PTL

----------------------------------------------------------------------------
(* FetchChunkShared implements CoalescedGet: every step of ChunkFetch is one *)
(* of CoalescedGet, seen through Status and Amount, or changes nothing there. *)

(* What the mapping shows of a caller. *)

\* A caller waits for a flight that has been settled.
Settled(c) == pc[c] = "wait" /\ inflight[key[c]] # ref[c]

\* Status[c], by where c is.
LEMMA StatusIs ==
    ASSUME NEW c \in Callers
    PROVE  /\ pc[c] = "idle" => Status[c] = "idle"
           /\ pc[c] = "enter" => Status[c] = "asking"
           /\ pc[c] \in {"fetch", "settle"} => Status[c] = "leading"
           /\ (pc[c] \in {"close", "return"} /\ failed[c]) => Status[c] = "failed"
           /\ (pc[c] \in {"close", "return"} /\ ~failed[c]) => Status[c] = "answered"
           /\ (pc[c] = "wait" /\ inflight[key[c]] = ref[c]) => Status[c] = "attached"
           /\ (Settled(c) /\ flight[ref[c]].err) => Status[c] = "asking"
           /\ (Settled(c) /\ ~flight[ref[c]].err) => Status[c] = "answered"
BY DEF Status, Settled, Outcome

\* And the other way round.
LEMMA StatusSays ==
    ASSUME NEW c \in Callers, pc[c] \in PcValues
    PROVE  /\ Status[c] = "leading" <=> Fetching(c)
           /\ Status[c] = "attached" <=> (pc[c] = "wait" /\ inflight[key[c]] = ref[c])
<1>1. CASE pc[c] \in {"idle", "enter", "close", "return"}
  BY <1>1 DEF Status, Outcome, Fetching
<1>2. CASE pc[c] \in {"fetch", "settle"}
  BY <1>2 DEF Status, Fetching
<1>3. CASE pc[c] = "wait"
  BY <1>3 DEF Status, Fetching
<1> QED
  BY <1>1, <1>2, <1>3 DEF PcValues

\* Amount[c], by where c is.
LEMMA AmountIs ==
    ASSUME NEW c \in Callers
    PROVE  /\ pc[c] \in {"idle", "enter", "fetch", "settle"} => Amount[c] = 0
           /\ pc[c] \in {"close", "return"} => Amount[c] = n[c]
           /\ (pc[c] = "wait" /\ inflight[key[c]] = ref[c]) => Amount[c] = 0
           /\ Settled(c) => Amount[c] = flight[ref[c]].got
BY DEF Amount, Settled

\* What CoalescedGet sees of a caller does not change if its own variables do
\* not, nor the flight that it waits for, nor whether that one is settled.
LEMMA SeesTheSame ==
    ASSUME NEW d \in Callers, pc[d] \in PcValues,
           pc'[d] = pc[d], key'[d] = key[d], ref'[d] = ref[d], n'[d] = n[d],
           failed'[d] = failed[d],
           pc[d] = "wait" =>
             /\ inflight'[key[d]] = ref[d] <=> inflight[key[d]] = ref[d]
             /\ flight'[ref[d]].err = flight[ref[d]].err
             /\ flight'[ref[d]].got = flight[ref[d]].got
    PROVE  Status'[d] = Status[d] /\ Amount'[d] = Amount[d]
<1>1. CASE pc[d] \in {"idle", "enter", "fetch", "settle"}
  BY <1>1 DEF Status, Amount
<1>2. CASE pc[d] \in {"close", "return"}
  BY <1>2 DEF Status, Amount, Outcome
<1>3. CASE pc[d] = "wait" /\ inflight[key[d]] = ref[d]
  BY <1>3 DEF Status, Amount
<1>4. CASE pc[d] = "wait" /\ inflight[key[d]] # ref[d]
  BY <1>4 DEF Status, Amount
<1> QED
  BY <1>1, <1>2, <1>3, <1>4 DEF PcValues

\* Both are functions of the callers.
LEMMA MapsAreFunctions ==
    /\ Status = [d \in Callers |-> Status[d]] /\ Status' = [d \in Callers |-> Status'[d]]
    /\ Amount = [d \in Callers |-> Amount[d]] /\ Amount' = [d \in Callers |-> Amount'[d]]
<1> DEFINE st(d) == CASE pc[d] = "idle" -> "idle"
                      [] pc[d] = "enter" -> "asking"
                      [] pc[d] \in {"fetch", "settle"} -> "leading"
                      [] pc[d] \in {"close", "return"} -> Outcome(d)
                      [] pc[d] = "wait" ->
                            IF inflight[key[d]] = ref[d] THEN "attached"
                            ELSE IF flight[ref[d]].err THEN "asking" ELSE "answered"
           am(d) == CASE pc[d] \in {"close", "return"} -> n[d]
                      [] pc[d] = "wait" /\ inflight[key[d]] # ref[d] -> flight[ref[d]].got
                      [] OTHER -> 0
<1>1. Status = [d \in Callers |-> st(d)] /\ Amount = [d \in Callers |-> am(d)]
  BY DEF Status, Amount
<1>2. Status' = [d \in Callers |-> st(d)'] /\ Amount' = [d \in Callers |-> am(d)']
  BY DEF Status, Amount
<1> HIDE DEF st, am
<1> QED
  BY <1>1, <1>2

\* The mapping of a step that concerns one caller.
LEMMA OneCallerMoves ==
    ASSUME NEW c \in Callers, NEW s, NEW m, Status'[c] = s, Amount'[c] = m,
           \A d \in Callers \ {c} : Status'[d] = Status[d] /\ Amount'[d] = Amount[d]
    PROVE  /\ Status' = [Status EXCEPT ![c] = s]
           /\ Amount' = [Amount EXCEPT ![c] = m]
           /\ m = Amount[c] => Amount' = Amount
           /\ (m = Amount[c] /\ s = Status[c]) => UNCHANGED <<Status, Amount>>
<1> HIDE DEF Status, Amount
<1> QED
  BY MapsAreFunctions

----------------------------------------------------------------------------
(* What the mapping needs of a state besides Inv. *)

\* A GET that fails delivers nothing, and leaves nothing to anybody.
NothingOnFailure ==
    /\ \A f \in Flights : flight[f].err => flight[f].got = 0
    /\ \A c \in Callers : failed[c] => n[c] = 0

\* One that ends well delivers no more than there is.
EndsInChunk ==
    \A c \in Callers : (pc[c] = "settle" /\ ~failed[c]) => n[c] \in 0 .. ChunkLen[key[c]]

Known == Inv /\ NothingOnFailure /\ EndsInChunk

\* The end of a GET, in either way.
LEMMA EndsKnown ==
    ASSUME Known, NEW c \in Callers, NEW m \in 0 .. ChunkLen[key[c]], NEW bad \in BOOLEAN,
           FetchEnds(c, m, bad)
    PROVE  NothingOnFailure' /\ EndsInChunk'
<1>1. /\ n' = [n EXCEPT ![c] = IF bad THEN 0 ELSE m]
      /\ failed' = [failed EXCEPT ![c] = bad]
      /\ pc' = [pc EXCEPT ![c] = "settle"]
      /\ UNCHANGED <<flight, key>>
  BY DEF FetchEnds
<1>2. TypeOK
  BY DEF Known, Inv
<1>3. NothingOnFailure'
  BY <1>1, <1>2 DEF Known, NothingOnFailure, TypeOK
<1>4. EndsInChunk'
  <2>1. ~failed'[c] => n'[c] = m
    BY <1>1, <1>2 DEF TypeOK
  <2>2. \A d \in Callers \ {c} : pc'[d] = pc[d] /\ failed'[d] = failed[d] /\ n'[d] = n[d]
    BY <1>1, <1>2 DEF TypeOK
  <2> QED
    BY <1>1, <2>1, <2>2 DEF Known, EndsInChunk
<1> QED
  BY <1>3, <1>4

\* Every step keeps both.
LEMMA KnownStep == Known /\ [Next]_vars => Known'
<1> SUFFICES ASSUME Known, [Next]_vars PROVE NothingOnFailure' /\ EndsInChunk'
  BY InvStep DEF Known
<1>0. TypeOK /\ LocalOK /\ NothingOnFailure /\ EndsInChunk
  BY DEF Known, Inv
<1> USE <1>0, ChunkFetchAssumption
<1>1. ASSUME NEW c \in Callers, NEW k \in Keys, Begin(c, k)
      PROVE  NothingOnFailure' /\ EndsInChunk'
  BY <1>1 DEF Begin, TypeOK, NothingOnFailure, EndsInChunk
<1>2. ASSUME NEW c \in Callers, Cancel(c)
      PROVE  NothingOnFailure' /\ EndsInChunk'
  BY <1>2 DEF Cancel, NothingOnFailure, EndsInChunk
<1>3. ASSUME NEW c \in Callers, Lead(c)
      PROVE  NothingOnFailure' /\ EndsInChunk'
  BY <1>3 DEF Lead, FreshFlight, TypeOK, NothingOnFailure, EndsInChunk
<1>4. ASSUME NEW c \in Callers, Join(c)
      PROVE  NothingOnFailure' /\ EndsInChunk'
  <2>1. \A f \in Flights : flight'[f].err = flight[f].err /\ flight'[f].got = flight[f].got
    BY <1>4 DEF Join, TypeOK, Flight
  <2> QED
    BY <1>4, <2>1 DEF Join, TypeOK, NothingOnFailure, EndsInChunk
<1>5. ASSUME NEW c \in Callers, pc[c] = "wait", WaiterFails(c)
      PROVE  NothingOnFailure' /\ EndsInChunk'
  BY <1>5 DEF WaiterFails, TypeOK, NothingOnFailure, EndsInChunk
<1>6. ASSUME NEW c \in Callers, WaitServed(c)
      PROVE  NothingOnFailure' /\ EndsInChunk'
  BY <1>6 DEF WaitServed, TypeOK, NothingOnFailure, EndsInChunk
<1>7. ASSUME NEW c \in Callers, WaitLeaderFailed(c)
      PROVE  NothingOnFailure' /\ EndsInChunk'
  BY <1>5, <1>7 DEF WaitLeaderFailed, TypeOK, NothingOnFailure, EndsInChunk
<1>8. ASSUME NEW c \in Callers, FetchWhole(c) \/ FetchCut(c) \/ FetchFails(c)
      PROVE  NothingOnFailure' /\ EndsInChunk'
  <2>1. key[c] \in Keys
    BY <1>8 DEF FetchWhole, FetchCut, FetchFails, LocalOK
  <2>2. ChunkLen[key[c]] \in 0 .. ChunkLen[key[c]]
    BY <2>1
  <2>3. CASE FetchWhole(c)
    BY <2>2, <2>3, EndsKnown DEF FetchWhole
  <2>4. CASE FetchCut(c)
    BY <2>4, EndsKnown DEF FetchCut
  <2>5. CASE FetchFails(c)
    BY <2>5, EndsKnown DEF FetchFails
  <2> QED
    BY <1>8, <2>3, <2>4, <2>5
<1>9. ASSUME NEW c \in Callers, Settle(c)
      PROVE  NothingOnFailure' /\ EndsInChunk'
  <2>1. \A f \in Flights : \/ flight'[f].err = flight[f].err /\ flight'[f].got = flight[f].got
                           \/ flight'[f].err = failed[c] /\ flight'[f].got = n[c]
    BY <1>9 DEF Settle, TypeOK, Flight
  <2>2. pc' = [pc EXCEPT ![c] = "close"] /\ UNCHANGED <<n, failed, key>>
    BY <1>9 DEF Settle
  <2> QED
    BY <2>1, <2>2 DEF TypeOK, NothingOnFailure, EndsInChunk
<1>10. ASSUME NEW c \in Callers, Close(c)
      PROVE  NothingOnFailure' /\ EndsInChunk'
  <2>1. \A f \in Flights : flight'[f].err = flight[f].err /\ flight'[f].got = flight[f].got
    BY <1>10 DEF Close, TypeOK, Flight
  <2> QED
    BY <1>10, <2>1 DEF Close, TypeOK, NothingOnFailure, EndsInChunk
<1>11. ASSUME NEW c \in Callers, Return(c)
      PROVE  NothingOnFailure' /\ EndsInChunk'
  BY <1>11 DEF Return, TypeOK, NothingOnFailure, EndsInChunk
<1>12. CASE UNCHANGED vars
  BY <1>12 DEF vars, NothingOnFailure, EndsInChunk
<1> QED
  BY <1>1, <1>2, <1>3, <1>4, <1>5, <1>6, <1>7, <1>8, <1>9, <1>10, <1>11, <1>12
     DEF Next, Step, WaitCancelled

----------------------------------------------------------------------------
(* Each step of ChunkFetch, seen by CoalescedGet. *)

SharedStep == [Shared!Next]_Shared!vars

\* What the facts of Known say of one waiter and of the map, in the words of the
\* mapping: a flight in the map is not settled, a waiter's has one key.
LEMMA KnownOfWaiters ==
    ASSUME Known
    PROVE  /\ \A c \in Callers : pc[c] = "wait" => key[c] \in Keys /\ ref[c] \in Flights
           /\ \A c, d \in Callers :
                (pc[c] = "wait" /\ Fetching(d) /\ ref[d] = ref[c]) => key[d] = key[c]
           /\ \A c \in Callers : (pc[c] = "wait" /\ flight[ref[c]].done) => Settled(c)
<1>0. TypeOK /\ LocalOK /\ FlightsLed /\ WaitersKept
  BY DEF Known, Inv
<1>1. \A c \in Callers : pc[c] = "wait" => key[c] \in Keys /\ ref[c] \in Flights
  BY <1>0 DEF TypeOK, LocalOK
<1>2. \A c, d \in Callers : (pc[c] = "wait" /\ Fetching(d) /\ ref[d] = ref[c]) => key[d] = key[c]
  BY <1>0 DEF WaitersKept, WaiterKept
<1>3. ASSUME NEW c \in Callers, pc[c] = "wait", flight[ref[c]].done, inflight[key[c]] = ref[c]
      PROVE  FALSE
  <2>1. inflight[key[c]] # NoFlight /\ key[c] \in Keys
    BY <1>1, <1>3, ChunkFetchAssumption
  <2>2. PICK d \in Callers : Fetching(d) /\ ref[d] = inflight[key[c]]
    BY <1>0, <2>1 DEF FlightsLed
  <2>3. ~flight[ref[d]].done
    BY <1>0, <2>2 DEF FlightsLed, Leads, Fetching
  <2> QED
    BY <1>3, <2>2, <2>3
<1> QED
  BY <1>1, <1>2, <1>3 DEF Settled

\* A call begins.
LEMMA BeginAsks ==
    ASSUME Known, NEW c \in Callers, NEW k \in Keys, Begin(c, k) PROVE SharedStep
<1>0. TypeOK
  BY DEF Known, Inv
<1>1. /\ pc[c] = "idle" /\ pc' = [pc EXCEPT ![c] = "enter"] /\ key' = [key EXCEPT ![c] = k]
      /\ UNCHANGED <<inflight, flight, ref, n, failed, cancelled>>
  BY DEF Begin
<1>2. \A d \in Callers \ {c} : Status'[d] = Status[d] /\ Amount'[d] = Amount[d]
  BY <1>0, <1>1, SeesTheSame DEF TypeOK
<1>3. Status[c] = "idle" /\ Amount[c] = 0
  BY <1>1, StatusIs, AmountIs
<1>4. Status'[c] = "asking" /\ Amount'[c] = 0
  BY <1>0, <1>1 DEF TypeOK, Status, Amount
<1>5. Status' = [Status EXCEPT ![c] = "asking"] /\ Amount' = Amount
  BY <1>2, <1>3, <1>4, OneCallerMoves
<1>6. Shared!Ask(c, k)
  BY <1>1, <1>3, <1>5 DEF Shared!Ask
<1> QED
  BY <1>6 DEF SharedStep, Shared!Next

\* A caller is cancelled.
LEMMA CancelGoesAway == ASSUME Known, NEW c \in Callers, Cancel(c) PROVE SharedStep
<1>0. TypeOK
  BY DEF Known, Inv
<1>1. /\ pc[c] # "idle" /\ ~cancelled[c] /\ cancelled' = [cancelled EXCEPT ![c] = TRUE]
      /\ UNCHANGED <<inflight, flight, pc, key, ref, n, failed>>
  BY DEF Cancel
<1>2. UNCHANGED <<Status, Amount>>
  BY <1>1 DEF Status, Amount, Outcome
<1>3. Status[c] # "idle"
  BY <1>0, <1>1 DEF TypeOK, PcValues, Status, Outcome
<1>4. Shared!GoAway(c)
  BY <1>1, <1>2, <1>3 DEF Shared!GoAway
<1> QED
  BY <1>4 DEF SharedStep, Shared!Next

\* A flight is published: a GET starts.
LEMMA LeadStarts == ASSUME Known, NEW c \in Callers, Lead(c) PROVE SharedStep
<1>0. TypeOK /\ LocalOK /\ FlightsLed
  BY DEF Known, Inv
<1>1. PICK f \in Flights :
        /\ \A d \in Callers : ref[d] # f
        /\ flight' = [flight EXCEPT ![f] = FreshFlight]
        /\ inflight' = [inflight EXCEPT ![key[c]] = f]
        /\ ref' = [ref EXCEPT ![c] = f]
  BY DEF Lead
<1>2. /\ pc[c] = "enter" /\ inflight[key[c]] = NoFlight /\ pc' = [pc EXCEPT ![c] = "fetch"]
      /\ UNCHANGED <<key, n, failed, cancelled>>
  BY DEF Lead
<1>3. key[c] \in Keys
  BY <1>0, <1>2 DEF LocalOK
<1>4. ASSUME NEW d \in Callers \ {c}
      PROVE  Status'[d] = Status[d] /\ Amount'[d] = Amount[d]
  <2>1. pc'[d] = pc[d] /\ ref'[d] = ref[d] /\ pc[d] \in PcValues
    BY <1>0, <1>1, <1>2 DEF TypeOK
  <2>2. ASSUME pc[d] = "wait"
        PROVE  /\ inflight'[key[d]] = ref[d] <=> inflight[key[d]] = ref[d]
               /\ flight'[ref[d]] = flight[ref[d]]
    <3>1. key[d] \in Keys /\ ref[d] \in Flights /\ ref[d] # f
      BY <1>1, <2>2, KnownOfWaiters
    <3> QED
      BY <1>0, <1>1, <1>2, <1>3, <3>1, ChunkFetchAssumption DEF TypeOK
  <2> QED
    BY <1>2, <2>1, <2>2, SeesTheSame
<1>5. Status[c] = "asking" /\ Amount[c] = 0
  BY <1>2, StatusIs, AmountIs
<1>6. Status'[c] = "leading" /\ Amount'[c] = 0
  BY <1>0, <1>2 DEF TypeOK, Status, Amount
<1>7. Status' = [Status EXCEPT ![c] = "leading"] /\ Amount' = Amount
  BY <1>4, <1>5, <1>6, OneCallerMoves
<1>8. ~Shared!Running(key[c])
  <2>1. ASSUME NEW d \in Callers, Status[d] = "leading", key[d] = key[c] PROVE FALSE
    <3>1. Fetching(d)
      BY <1>0, <2>1, StatusSays DEF TypeOK
    <3>2. inflight[key[d]] = ref[d] /\ ref[d] # NoFlight
      BY <1>0, <3>1 DEF FlightsLed, LocalOK, Leads, Fetching
    <3> QED
      BY <1>2, <2>1, <3>2
  <2> QED
    BY <2>1 DEF Shared!Running
<1>9. Shared!Start(c)
  BY <1>2, <1>5, <1>7, <1>8 DEF Shared!Start
<1> QED
  BY <1>9 DEF SharedStep, Shared!Next, Shared!Serve

\* A flight is joined.
LEMMA JoinAttaches == ASSUME Known, NEW c \in Callers, Join(c) PROVE SharedStep
<1>0. TypeOK /\ LocalOK /\ FlightsLed
  BY DEF Known, Inv
<1>1. /\ pc[c] = "enter" /\ inflight[key[c]] # NoFlight
      /\ flight' = [flight EXCEPT ![inflight[key[c]]].waited = TRUE]
      /\ ref' = [ref EXCEPT ![c] = inflight[key[c]]] /\ pc' = [pc EXCEPT ![c] = "wait"]
      /\ UNCHANGED <<inflight, key, n, failed, cancelled>>
  BY DEF Join
<1>2. key[c] \in Keys
  BY <1>0, <1>1 DEF LocalOK
<1>3. \A f \in Flights : flight'[f].err = flight[f].err /\ flight'[f].got = flight[f].got
  BY <1>0, <1>1 DEF TypeOK, Flight
<1>4. ASSUME NEW d \in Callers \ {c}
      PROVE  Status'[d] = Status[d] /\ Amount'[d] = Amount[d]
  <2>1. pc'[d] = pc[d] /\ ref'[d] = ref[d] /\ pc[d] \in PcValues
    BY <1>0, <1>1 DEF TypeOK
  <2>2. pc[d] = "wait" => ref[d] \in Flights
    BY KnownOfWaiters
  <2> QED
    BY <1>1, <1>3, <2>1, <2>2, SeesTheSame
<1>5. Status[c] = "asking" /\ Amount[c] = 0
  BY <1>1, StatusIs, AmountIs
<1>6. pc'[c] = "wait" /\ inflight'[key'[c]] = ref'[c]
  BY <1>0, <1>1 DEF TypeOK
<1>7. Status'[c] = "attached" /\ Amount'[c] = 0
  BY <1>6 DEF Status, Amount
<1>8. Status' = [Status EXCEPT ![c] = "attached"] /\ Amount' = Amount
  BY <1>4, <1>5, <1>7, OneCallerMoves
<1>9. Shared!Running(key[c])
  <2>1. PICK d \in Callers : Fetching(d) /\ key[d] = key[c]
    BY <1>0, <1>1, <1>2 DEF FlightsLed
  <2>2. Status[d] = "leading"
    BY <2>1, StatusIs DEF Fetching
  <2> QED
    BY <2>1, <2>2 DEF Shared!Running
<1>10. Shared!Attach(c)
  BY <1>1, <1>5, <1>8, <1>9 DEF Shared!Attach
<1> QED
  BY <1>10 DEF SharedStep, Shared!Next, Shared!Serve

\* A waiter that is cancelled gives up, whatever it could have had.
LEMMA WaiterGivesUp ==
    ASSUME Known, NEW c \in Callers, pc[c] = "wait", cancelled[c], WaiterFails(c) PROVE SharedStep
<1>0. TypeOK
  BY DEF Known, Inv
<1>1. /\ pc' = [pc EXCEPT ![c] = "return"] /\ ref' = [ref EXCEPT ![c] = NoFlight]
      /\ n' = [n EXCEPT ![c] = 0] /\ failed' = [failed EXCEPT ![c] = TRUE]
      /\ UNCHANGED <<inflight, flight, key, cancelled>>
  BY DEF WaiterFails
<1>2. \A d \in Callers \ {c} : Status'[d] = Status[d] /\ Amount'[d] = Amount[d]
  BY <1>0, <1>1, SeesTheSame DEF TypeOK
<1>3. Status[c] \in {"asking", "attached", "answered"}
  BY StatusIs DEF Settled
<1>4. pc'[c] = "return" /\ failed'[c] /\ n'[c] = 0
  BY <1>0, <1>1 DEF TypeOK
<1>5. Status'[c] = "failed" /\ Amount'[c] = 0
  BY <1>4 DEF Status, Amount, Outcome
<1>6. Status' = [Status EXCEPT ![c] = "failed"] /\ Amount' = [Amount EXCEPT ![c] = 0]
  BY <1>2, <1>5, OneCallerMoves
<1>7. Shared!GiveUp(c)
  BY <1>1, <1>3, <1>6 DEF Shared!GiveUp
<1> QED
  BY <1>7 DEF SharedStep, Shared!Next

\* A waiter that wakes up finds what it was given when the flight was settled.
LEMMA WaiterWakes == ASSUME Known, NEW c \in Callers, WaitServed(c) PROVE SharedStep
<1>0. TypeOK /\ FlightsLed /\ WaitersKept
  BY DEF Known, Inv
<1>1. /\ pc[c] = "wait" /\ flight[ref[c]].done /\ ~flight[ref[c]].err
      /\ n' = [n EXCEPT ![c] = Len(flight[ref[c]].data)] /\ failed' = [failed EXCEPT ![c] = FALSE]
      /\ ref' = [ref EXCEPT ![c] = NoFlight] /\ pc' = [pc EXCEPT ![c] = "return"]
      /\ UNCHANGED <<inflight, flight, key, cancelled>>
  BY DEF WaitServed
<1>2. \A d \in Callers \ {c} : Status'[d] = Status[d] /\ Amount'[d] = Amount[d]
  BY <1>0, <1>1, SeesTheSame DEF TypeOK
<1>3. Settled(c)
  BY <1>1, KnownOfWaiters
<1>4. Status[c] = "answered" /\ Amount[c] = flight[ref[c]].got
  BY <1>1, <1>3, StatusIs, AmountIs
<1>5. Len(flight[ref[c]].data) = flight[ref[c]].got
  <2>1. \A d \in Callers : Fetching(d) => ref[d] # ref[c]
    BY <1>0, <1>1 DEF FlightsLed, Fetching, Leads
  <2> QED
    BY <1>0, <1>1, <2>1 DEF WaitersKept, WaiterKept
<1>6. pc'[c] = "return" /\ ~failed'[c] /\ n'[c] = flight[ref[c]].got
  BY <1>0, <1>1, <1>5 DEF TypeOK
<1>7. Status'[c] = "answered" /\ Amount'[c] = flight[ref[c]].got
  BY <1>6 DEF Status, Amount, Outcome
<1>8. UNCHANGED <<Status, Amount>>
  BY <1>2, <1>4, <1>7, OneCallerMoves
<1> QED
  BY <1>1, <1>8 DEF SharedStep, Shared!vars

\* A waiter whose leader failed has been asking since that was settled.
LEMMA WaiterAsksAgain == ASSUME Known, NEW c \in Callers, WaitLeaderFailed(c) PROVE SharedStep
<1>0. TypeOK
  BY DEF Known, Inv
<1>1. CASE cancelled[c] /\ WaiterFails(c)
  BY <1>1, WaiterGivesUp DEF WaitLeaderFailed
<1>2. CASE /\ pc' = [pc EXCEPT ![c] = "enter"] /\ ref' = [ref EXCEPT ![c] = NoFlight]
           /\ UNCHANGED <<inflight, flight, free, mem, key, buf, n, failed, cancelled>>
  <2>1. \A d \in Callers \ {c} : Status'[d] = Status[d] /\ Amount'[d] = Amount[d]
    BY <1>0, <1>2, SeesTheSame DEF TypeOK
  <2>2. pc[c] = "wait" /\ flight[ref[c]].done /\ flight[ref[c]].err
    BY DEF WaitLeaderFailed
  <2>3. Settled(c) /\ flight[ref[c]].got = 0
    BY <2>2, KnownOfWaiters DEF Known, NothingOnFailure
  <2>4. Status[c] = "asking" /\ Amount[c] = 0
    BY <2>2, <2>3, StatusIs, AmountIs
  <2>5. Status'[c] = "asking" /\ Amount'[c] = 0
    BY <1>0, <1>2 DEF TypeOK, Status, Amount
  <2>6. UNCHANGED <<Status, Amount>>
    BY <2>1, <2>4, <2>5, OneCallerMoves
  <2> QED
    BY <1>2, <2>6 DEF SharedStep, Shared!vars
<1> QED
  BY <1>1, <1>2 DEF WaitLeaderFailed

\* While the GET runs, and until its flight is settled, nothing is seen.
LEMMA GetRuns ==
    ASSUME Known, NEW c \in Callers, FetchWhole(c) \/ FetchCut(c) \/ FetchFails(c) PROVE SharedStep
<1>0. TypeOK
  BY DEF Known, Inv
<1>1. /\ pc[c] = "fetch" /\ pc' = [pc EXCEPT ![c] = "settle"]
      /\ UNCHANGED <<inflight, flight, key, ref, cancelled>>
  BY DEF FetchWhole, FetchCut, FetchFails, FetchEnds
<1>2. \A d \in Callers \ {c} : n'[d] = n[d] /\ failed'[d] = failed[d]
  BY <1>0 DEF FetchWhole, FetchCut, FetchFails, FetchEnds, TypeOK
<1>3. \A d \in Callers \ {c} : Status'[d] = Status[d] /\ Amount'[d] = Amount[d]
  BY <1>0, <1>1, <1>2, SeesTheSame DEF TypeOK
<1>4. Status[c] = "leading" /\ Amount[c] = 0
  BY <1>1, StatusIs, AmountIs
<1>5. Status'[c] = "leading" /\ Amount'[c] = 0
  BY <1>0, <1>1 DEF TypeOK, Status, Amount
<1>6. UNCHANGED <<Status, Amount>>
  BY <1>3, <1>4, <1>5, OneCallerMoves
<1> QED
  BY <1>1, <1>6 DEF SharedStep, Shared!vars

\* The flight is closed and the call returns: its caller knows that already.
LEMMA CloseIsUnseen == ASSUME Known, NEW c \in Callers, Close(c) PROVE SharedStep
<1>0. TypeOK
  BY DEF Known, Inv
<1>1. /\ pc[c] = "close" /\ pc' = [pc EXCEPT ![c] = "return"]
      /\ flight' = [flight EXCEPT ![ref[c]].done = TRUE] /\ ref' = [ref EXCEPT ![c] = NoFlight]
      /\ UNCHANGED <<inflight, key, n, failed, cancelled>>
  BY DEF Close
<1>2. \A f \in Flights : flight'[f].err = flight[f].err /\ flight'[f].got = flight[f].got
  BY <1>0, <1>1 DEF TypeOK, Flight
<1>3. ASSUME NEW d \in Callers \ {c}
      PROVE  Status'[d] = Status[d] /\ Amount'[d] = Amount[d]
  <2>1. pc'[d] = pc[d] /\ ref'[d] = ref[d] /\ pc[d] \in PcValues
    BY <1>0, <1>1 DEF TypeOK
  <2>2. pc[d] = "wait" => ref[d] \in Flights
    BY KnownOfWaiters
  <2> QED
    BY <1>1, <1>2, <2>1, <2>2, SeesTheSame
<1>4. pc'[c] = "return"
  BY <1>0, <1>1 DEF TypeOK
<1>5. Status'[c] = Status[c] /\ Amount'[c] = Amount[c]
  BY <1>1, <1>4 DEF Status, Amount, Outcome
<1>6. UNCHANGED <<Status, Amount>>
  BY <1>3, <1>5, OneCallerMoves
<1> QED
  BY <1>1, <1>6 DEF SharedStep, Shared!vars

\* The caller has its bytes or its error.
LEMMA ReturnReturns == ASSUME Known, NEW c \in Callers, Return(c) PROVE SharedStep
<1>0. TypeOK
  BY DEF Known, Inv
<1>1. /\ pc[c] = "return" /\ pc' = [pc EXCEPT ![c] = "idle"] /\ key' = [key EXCEPT ![c] = NoKey]
      /\ n' = [n EXCEPT ![c] = 0] /\ failed' = [failed EXCEPT ![c] = FALSE]
      /\ cancelled' = [cancelled EXCEPT ![c] = FALSE]
      /\ UNCHANGED <<inflight, flight, ref>>
  BY DEF Return
<1>2. \A d \in Callers \ {c} : Status'[d] = Status[d] /\ Amount'[d] = Amount[d]
  BY <1>0, <1>1, SeesTheSame DEF TypeOK
<1>3. Status[c] \in {"answered", "failed"}
  BY <1>1, StatusIs
<1>4. pc'[c] = "idle"
  BY <1>0, <1>1 DEF TypeOK
<1>5. Status'[c] = "idle" /\ Amount'[c] = 0
  BY <1>4 DEF Status, Amount
<1>6. Status' = [Status EXCEPT ![c] = "idle"] /\ Amount' = [Amount EXCEPT ![c] = 0]
  BY <1>2, <1>5, OneCallerMoves
<1>7. Shared!Return(c)
  BY <1>1, <1>3, <1>6 DEF Shared!Return
<1> QED
  BY <1>7 DEF SharedStep, Shared!Next, Shared!Serve

\* The callers that wait for the flight that c settles are the party of its GET;
\* what they are given is in the flight from then on.
LEMMA SettleSplits ==
    ASSUME Known, NEW c \in Callers, Settle(c), NEW d \in Callers \ {c}
    PROVE  IF d \in Shared!Party(c)
           THEN /\ Status'[d] = IF failed[c] THEN "asking" ELSE "answered"
                /\ Amount'[d] = n[c] /\ Amount[d] = 0
           ELSE Status'[d] = Status[d] /\ Amount'[d] = Amount[d]
<1>0. TypeOK /\ LocalOK /\ FlightsLed
  BY DEF Known, Inv
<1>1. /\ pc[c] = "settle" /\ inflight' = [inflight EXCEPT ![key[c]] = NoFlight]
      /\ pc' = [pc EXCEPT ![c] = "close"] /\ UNCHANGED <<key, ref, n, failed>>
  BY DEF Settle
<1>2. /\ key[c] \in Keys /\ ref[c] \in Flights /\ inflight[key[c]] = ref[c] /\ Fetching(c)
  BY <1>0, <1>1, ChunkFetchAssumption DEF LocalOK, Leads, FlightsLed, Fetching, TypeOK
<1>3. /\ flight'[ref[c]].err = failed[c] /\ flight'[ref[c]].got = n[c]
      /\ \A f \in Flights \ {ref[c]} : flight'[f] = flight[f]
  BY <1>0, <1>2 DEF Settle, TypeOK, Flight
<1>4. pc'[d] = pc[d] /\ pc[d] \in PcValues
  BY <1>0, <1>1 DEF TypeOK
<1>5. ASSUME pc[d] = "wait"
      PROVE  /\ key[d] \in Keys /\ ref[d] \in Flights
             /\ ref[d] = ref[c] => key[d] = key[c]
  BY <1>2, <1>5, KnownOfWaiters
<1>6. d \in Shared!Party(c) <=> (pc[d] = "wait" /\ inflight[key[d]] = ref[d] /\ key[d] = key[c])
  BY <1>4, StatusSays DEF Shared!Party
<1>7. CASE d \in Shared!Party(c)
  <2>1. pc[d] = "wait" /\ key[d] = key[c] /\ ref[d] = ref[c] /\ inflight[key[d]] = ref[d]
    BY <1>2, <1>6, <1>7
  <2>2. inflight'[key[d]] # ref[d]
    BY <1>0, <1>1, <1>2, <2>1, ChunkFetchAssumption DEF TypeOK
  <2>3. Status'[d] = IF failed[c] THEN "asking" ELSE "answered"
    BY <1>1, <1>3, <1>4, <2>1, <2>2 DEF Status
  <2>4. Amount'[d] = n[c]
    BY <1>1, <1>3, <1>4, <2>1, <2>2 DEF Amount
  <2> QED
    BY <1>7, <2>1, <2>3, <2>4, AmountIs
<1>8. CASE d \notin Shared!Party(c)
  <2>1. ASSUME pc[d] = "wait"
        PROVE  /\ inflight'[key[d]] = ref[d] <=> inflight[key[d]] = ref[d]
               /\ flight'[ref[d]] = flight[ref[d]]
    <3>1. CASE key[d] = key[c]
      <4>1. inflight[key[d]] # ref[d] /\ ref[d] # ref[c] /\ ref[d] # NoFlight
        BY <1>2, <1>5, <1>6, <1>8, <2>1, <3>1, ChunkFetchAssumption
      <4> QED
        BY <1>0, <1>1, <1>2, <1>3, <1>5, <2>1, <3>1, <4>1 DEF TypeOK
    <3>2. CASE key[d] # key[c]
      BY <1>0, <1>1, <1>2, <1>3, <1>5, <2>1, <3>2 DEF TypeOK
    <3> QED
      BY <3>1, <3>2
  <2> QED
    BY <1>1, <1>4, <1>8, <2>1, SeesTheSame
<1> QED
  BY <1>7, <1>8

\* A flight is settled: its GET delivers to all who wait for it, or fails.
LEMMA SettleEndsTheGet == ASSUME Known, NEW c \in Callers, Settle(c) PROVE SharedStep
<1>0. TypeOK
  BY DEF Known, Inv
<1>1. /\ pc[c] = "settle" /\ pc' = [pc EXCEPT ![c] = "close"]
      /\ UNCHANGED <<key, ref, n, failed, cancelled>>
  BY DEF Settle
<1>2. Status[c] = "leading" /\ Amount[c] = 0
  BY <1>1, StatusIs, AmountIs
<1>3. Status'[c] = (IF failed[c] THEN "failed" ELSE "answered") /\ Amount'[c] = n[c]
  BY <1>0, <1>1 DEF TypeOK, Status, Amount, Outcome
<1>4. c \notin Shared!Party(c)
  BY <1>2 DEF Shared!Party
<1>5. /\ Status' = [d \in Callers |-> Status'[d]] /\ Amount' = [d \in Callers |-> Amount'[d]]
      /\ Amount = [d \in Callers |-> Amount[d]]
  BY MapsAreFunctions
<1>6. CASE failed[c]
  <2>1. n[c] = 0
    BY <1>6 DEF Known, NothingOnFailure
  <2>2. \A d \in Callers : /\ Amount'[d] = Amount[d]
                           /\ Status'[d] = IF d = c THEN "failed"
                                           ELSE IF d \in Shared!Party(c) THEN "asking"
                                           ELSE Status[d]
    BY <1>2, <1>3, <1>6, <2>1, SettleSplits
  <2>3. Amount' = Amount
    BY <1>5, <2>2
  <2>4. Status' = [d \in Callers |-> IF d = c THEN "failed"
                                     ELSE IF d \in Shared!Party(c) THEN "asking" ELSE Status[d]]
    BY <1>5, <2>2
  <2>5. Shared!GetFails(c)
    BY <1>1, <1>2, <2>3, <2>4 DEF Shared!GetFails
  <2> QED
    BY <2>5 DEF SharedStep, Shared!Next, Shared!Serve
<1>7. CASE ~failed[c]
  <2>1. n[c] \in 0 .. ChunkLen[key[c]]
    BY <1>1, <1>7 DEF Known, EndsInChunk
  <2>2. \A d \in Callers :
          /\ Amount'[d] = IF d \in Shared!Party(c) \union {c} THEN n[c] ELSE Amount[d]
          /\ Status'[d] = IF d \in Shared!Party(c) \union {c} THEN "answered" ELSE Status[d]
    BY <1>3, <1>4, <1>7, SettleSplits
  <2>3. Amount' = [d \in Callers |-> IF d \in Shared!Party(c) \union {c} THEN n[c] ELSE Amount[d]]
    BY <1>5, <2>2
  <2>4. Status' = [d \in Callers |-> IF d \in Shared!Party(c) \union {c} THEN "answered"
                                     ELSE Status[d]]
    BY <1>5, <2>2
  <2>5. Shared!GetDelivers(c)
    BY <1>1, <1>2, <2>1, <2>3, <2>4 DEF Shared!GetDelivers
  <2> QED
    BY <2>5 DEF SharedStep, Shared!Next, Shared!Serve
<1> QED
  BY <1>6, <1>7

----------------------------------------------------------------------------
(* The theorem. *)

\* The first states are mapped to first states.
LEMMA StartsLikeShared == Init => Known /\ Shared!Init
<1> SUFFICES ASSUME Init PROVE Known /\ Shared!Init
  OBVIOUS
<1>1. Known
  BY InvInit DEF Init, FreshFlight, Known, NothingOnFailure, EndsInChunk
<1>2. Status = [c \in Callers |-> "idle"] /\ Amount = [c \in Callers |-> 0]
  BY DEF Init, Status, Amount
<1> QED
  BY <1>1, <1>2 DEF Init, Shared!Init

\* And steps to steps.
LEMMA StepsLikeShared == Known /\ [Next]_vars => SharedStep
<1> SUFFICES ASSUME Known, [Next]_vars PROVE SharedStep
  OBVIOUS
<1>1. CASE UNCHANGED vars
  BY <1>1 DEF vars, SharedStep, Shared!vars, Status, Amount, Outcome
<1>2. ASSUME NEW c \in Callers, WaitCancelled(c) PROVE SharedStep
  BY <1>2, WaiterGivesUp DEF WaitCancelled
<1> QED
  BY <1>1, <1>2, BeginAsks, CancelGoesAway, LeadStarts, JoinAttaches, WaiterWakes,
     WaiterAsksAgain, GetRuns, SettleEndsTheGet, CloseIsUnseen, ReturnReturns DEF Next, Step

\* src/internal/proxy/backend.go:97-155: FetchChunkShared does what CoalescedGet
\* promises, however many callers, chunks and flights there are.
THEOREM Implements == Spec => ImplementsCoalescedGet
<1>1. Known /\ [Next]_vars => Known'
  BY KnownStep
<1>2. Known /\ [Next]_vars => [Shared!Next]_Shared!vars
  BY StepsLikeShared DEF SharedStep
<1> QED
  BY StartsLikeShared, <1>1, <1>2, PTL DEF Spec, ImplementsCoalescedGet, Shared!SafeSpec
=============================================================================
