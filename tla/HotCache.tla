------------------------------ MODULE HotCache ------------------------------
(***************************************************************************)
(* One shard of the RAM tier (src/internal/cache/lru.go): a map, a list in *)
(* order of use, and a byte budget.  Every operation holds the shard's     *)
(* mutex from its first access to its last, so each is one step; the hash  *)
(* that picks the shard of a chunk is left out.  handed is what the step   *)
(* gave to onEvict, and since is a history variable.                       *)
(***************************************************************************)
EXTENDS Integers, Sequences, SequencesExt, FiniteSets

CONSTANTS
    Keys,       \* cache.ChunkKey values that hash to this shard
    Chunks,     \* values of the data argument of Put
    Size,       \* len(data) of each
    Capacity,   \* shard.capacity
    Absent

ASSUME HotCacheAssumption ==
    /\ Size \in [Chunks -> Nat]
    /\ Capacity \in Int
    /\ Absent \notin Chunks

VARIABLES
    items,      \* shard.items: the data of each entry, Absent = not in the map
    order,      \* shard.evictList, front first
    used,       \* shard.used
    handed,     \* what the last step handed to onEvict
    since       \* history: the chunks used since each one was last used

vars == <<items, order, used, handed, since>>

Init ==
    /\ items = [k \in Keys |-> Absent]
    /\ order = << >>
    /\ used = 0
    /\ handed = {}
    /\ since = [k \in Keys |-> {}]

Resident == {k \in Keys : items[k] # Absent}

\* MoveToFront of the element that the map holds for the chunk.
MoveToFront(k) ==
    \E i \in 1 .. Len(order) : order[i] = k /\ order' = <<k>> \o RemoveAt(order, i)

Touch(k) == since' = [j \in Keys |-> IF j = k THEN {} ELSE since[j] \union {k}]

\* How many bytes the entries of some chunks hold.
Bytes(K) == Cardinality(UNION {{k} \X (1 .. Size[items[k]]) : k \in K})

----------------------------------------------------------------------------

\* Get finds the chunk.  (When it does not, it changes nothing but a counter.)
Hit(k) ==
    /\ items[k] # Absent
    /\ MoveToFront(k)
    /\ Touch(k)
    /\ handed' = {}
    /\ UNCHANGED <<items, used>>

\* Put of a chunk that is there: the data is replaced, and nothing is evicted
\* even if the new data is longer.
Replace(k, d) ==
    /\ items[k] # Absent
    /\ MoveToFront(k)
    /\ items' = [items EXCEPT ![k] = d]
    /\ used' = used - Size[items[k]] + Size[d]
    /\ Touch(k)
    /\ handed' = {}

\* The m entries at the back of the list.
Back(m) == {order[i] : i \in (Len(order) - m + 1) .. Len(order)}

\* Slip: wants a byte to spare.
RoomStrictly(m, d) == m = Len(order) \/ used - Bytes(Back(m)) + Size[d] < Capacity

\* After m evictions the loop of Put may stop: there is room, or the list is empty.
Room(m, d) == m = Len(order) \/ used - Bytes(Back(m)) + Size[d] <= Capacity

\* It stops after m.
Evicts(m, d) == Room(m, d) /\ \A i \in 0 .. m - 1 : ~Room(i, d)

\* Slip: leaves the victims in the map.
InsertUndeleted(k, d) ==
    /\ items[k] = Absent
    /\ \E m \in 0 .. Len(order) :
        /\ Evicts(m, d)
        /\ order' = <<k>> \o SubSeq(order, 1, Len(order) - m)
        /\ items' = [items EXCEPT ![k] = d]
        /\ used' = used - Bytes(Back(m)) + Size[d]
        /\ handed' = {<<j, items[j]>> : j \in Back(m)}
    /\ Touch(k)

\* Put of a new chunk: evictTail until it fits or nothing is left, then it goes
\* in, however long it is.
Insert(k, d) ==
    /\ items[k] = Absent
    /\ \E m \in 0 .. Len(order) :
        /\ Evicts(m, d)
        /\ order' = <<k>> \o SubSeq(order, 1, Len(order) - m)
        /\ items' = [j \in Keys |-> IF j = k THEN d ELSE IF j \in Back(m) THEN Absent ELSE items[j]]
        /\ used' = used - Bytes(Back(m)) + Size[d]
        /\ handed' = {<<j, items[j]>> : j \in Back(m)}
    /\ Touch(k)

Next ==
    \E k \in Keys :
        \/ Hit(k)
        \/ \E d \in Chunks : Replace(k, d) \/ Insert(k, d)

Spec == Init /\ [][Next]_vars

----------------------------------------------------------------------------
(* Properties. *)

\* The map and the list describe the same entries, each once: no entry lives on
\* in one of them after the other has lost it.
ListMatchesMap ==
    /\ IsInjective(order)
    /\ {order[i] : i \in 1 .. Len(order)} = Resident

\* used is what the entries hold, after any mix of insertions, replacements by
\* longer or shorter data, and evictions: an error here never heals.
UsedIsTheSum == used = Bytes(Resident)

\* The shard's three accounts of what it holds agree.
AccountsAgree == ListMatchesMap /\ UsedIsTheSum

Entered(k) == items[k] = Absent /\ items'[k] # Absent
Left(k) == items[k] # Absent /\ items'[k] = Absent

\* A new chunk leaves the shard within its capacity, or is alone in it, even if
\* replacements had taken it over before.
InsertionFits ==
    [][(\E k \in Keys : Entered(k)) => used' <= Capacity \/ Cardinality(Resident') = 1]_vars

\* Nothing is evicted that could have stayed: had the most recently used victim
\* been kept, the new chunk would not have fitted.
NoEvictionInVain ==
    [][\A k \in Keys :
        (Left(k) /\ \A j \in Keys : Left(j) /\ j # k => k \in since[j]) =>
            used' + Size[items[k]] > Capacity]_vars

\* Victims are the least recently used: every chunk that stays has been used
\* since any chunk that goes.
LeastRecentlyUsedGoes ==
    [][\A j, k \in Keys : (Left(j) /\ items'[k] # Absent) => k \in since'[j]]_vars

\* Every chunk that leaves the RAM tier is handed to the disk tier with the data
\* it had, and nothing else is.
LeaversAreHandedOver ==
    [][handed' = {<<k, items[k]>> : k \in {j \in Keys : Left(j)}}]_vars

\* lru.go:83-90: an insertion evicts as much as it must, no more, by order of use,
\* and hands over all that it evicts.
EvictionIsExact ==
    InsertionFits /\ NoEvictionInVain /\ LeastRecentlyUsedGoes /\ LeaversAreHandedOver

=============================================================================
