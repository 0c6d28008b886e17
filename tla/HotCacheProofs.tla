--------------------------- MODULE HotCacheProofs ---------------------------
(* Invariants of HotCache for any chunks, data and capacity. *)
EXTENDS HotCache, SequenceTheorems, FiniteSetTheorems, TLAPS

----------------------------------------------------------------------------
(* The inductive invariant, in parts. *)

TypeOK ==
    /\ items \in [Keys -> Chunks \union {Absent}]
    /\ order \in Seq(Keys)
    /\ used \in Int
    /\ since \in [Keys -> SUBSET Keys]

\* The list is in order of use: before an entry stand the entries used since it.
OrderOfUse ==
    \A i, j \in 1 .. Len(order) : order[i] \in since[order[j]] <=> i < j

Inv == TypeOK /\ ListMatchesMap /\ UsedIsTheSum /\ OrderOfUse

----------------------------------------------------------------------------
(* What the entries of some chunks hold, in a map f from chunks to data. *)

Cells(f, K) == UNION {{k} \X (1 .. Size[f[k]]) : k \in K}

\* One chunk and n bytes make n pairs.
LEMMA PairsOfOne ==
    ASSUME NEW k, NEW n \in Nat
    PROVE  IsFiniteSet({k} \X (1 .. n)) /\ Cardinality({k} \X (1 .. n)) = n
<1>1. IsFiniteSet(1 .. n) /\ Cardinality(1 .. n) = n
  <2>1. /\ IsFiniteSet(1 .. n)
        /\ Cardinality(1 .. n) = IF 1 > n THEN 0 ELSE n - 1 + 1
    BY FS_Interval
  <2> QED
    BY <2>1
<1>2. IsFiniteSet({k}) /\ Cardinality({k}) = 1
  BY FS_Singleton
<1>3. \A T : IsFiniteSet(T) =>
        /\ IsFiniteSet({k} \X T)
        /\ Cardinality({k} \X T) = Cardinality({k}) * Cardinality(T)
  BY <1>2, FS_Product
<1>4. IsFiniteSet({k} \X (1 .. n)) /\ Cardinality({k} \X (1 .. n)) = 1 * n
  BY <1>1, <1>2, <1>3
<1>5. 1 * n = n
  OBVIOUS
<1> QED
  BY <1>4, <1>5

\* The bytes of an entry are as many as its data is long.
LEMMA CellsOfOne ==
    ASSUME NEW f, NEW k, f[k] \in Chunks
    PROVE  /\ IsFiniteSet(Cells(f, {k}))
           /\ Cardinality(Cells(f, {k})) = Size[f[k]]
<1>1. Size[f[k]] \in Nat
  BY HotCacheAssumption
<1>2. Cells(f, {k}) = {k} \X (1 .. Size[f[k]])
  BY DEF Cells
<1>3. /\ IsFiniteSet({k} \X (1 .. Size[f[k]]))
      /\ Cardinality({k} \X (1 .. Size[f[k]])) = Size[f[k]]
  BY <1>1, PairsOfOne, Zenon
<1> QED
  BY <1>2, <1>3, Zenon

\* Finitely many entries hold finitely many bytes.
LEMMA CellsFinite ==
    ASSUME NEW f, NEW K, IsFiniteSet(K), \A k \in K : f[k] \in Chunks
    PROVE  IsFiniteSet(Cells(f, K)) /\ Cardinality(Cells(f, K)) \in Nat
<1> DEFINE Parts == {{k} \X (1 .. Size[f[k]]) : k \in K}
           part == [k \in K |-> {k} \X (1 .. Size[f[k]])]
<1>1. part \in Surjection(K, Parts)
  BY DEF Surjection
<1>2. IsFiniteSet(Parts)
  BY <1>1, FS_Surjection
<1>3. ASSUME NEW P \in Parts PROVE IsFiniteSet(P)
  <2>1. PICK k \in K : P = Cells(f, {k})
    BY <1>3 DEF Cells
  <2> QED
    BY <2>1, CellsOfOne
<1>4. IsFiniteSet(UNION Parts)
  <2> HIDE DEF Parts
  <2> QED
    BY <1>2, <1>3, FS_UNION
<1> QED
  BY <1>4, FS_CardinalityType DEF Cells

\* What two sets of entries hold adds up if no entry is in both.
LEMMA CellsAddUp ==
    ASSUME NEW f, NEW K, NEW L, IsFiniteSet(K), IsFiniteSet(L), K \intersect L = {},
           \A k \in K \union L : f[k] \in Chunks
    PROVE  Cardinality(Cells(f, K \union L)) =
             Cardinality(Cells(f, K)) + Cardinality(Cells(f, L))
<1>1. /\ IsFiniteSet(Cells(f, K)) /\ Cardinality(Cells(f, K)) \in Nat
      /\ IsFiniteSet(Cells(f, L)) /\ Cardinality(Cells(f, L)) \in Nat
  BY CellsFinite
<1>2. Cells(f, K \union L) = Cells(f, K) \union Cells(f, L)
  BY DEF Cells
<1>3. \A S, x : x \in Cells(f, S) => x[1] \in S
  BY DEF Cells
<1>4. Cells(f, K) \intersect Cells(f, L) = {}
  BY <1>3
<1>5. Cardinality(Cells(f, K) \intersect Cells(f, L)) = 0
  BY <1>4, FS_EmptySet
<1>6. \A S, T : (IsFiniteSet(S) /\ IsFiniteSet(T)) =>
        Cardinality(S \union T) =
          Cardinality(S) + Cardinality(T) - Cardinality(S \intersect T)
  BY FS_Union
<1>7. Cardinality(Cells(f, K) \union Cells(f, L)) =
        Cardinality(Cells(f, K)) + Cardinality(Cells(f, L)) - 0
  BY <1>1, <1>5, <1>6
<1>8. Cardinality(Cells(f, K \union L)) = Cardinality(Cells(f, K) \union Cells(f, L))
  BY <1>2, Zenon
<1> QED
  BY <1>1, <1>7, <1>8

\* What entries hold depends on their data alone.
LEMMA CellsAgree ==
    ASSUME NEW f, NEW g, NEW K, \A k \in K : f[k] = g[k]
    PROVE  Cells(f, K) = Cells(g, K)
BY DEF Cells

----------------------------------------------------------------------------
(* The list. *)

\* A sequence names finitely many chunks.
LEMMA RangeFinite ==
    ASSUME NEW s \in Seq(Keys)
    PROVE  IsFiniteSet({s[i] : i \in 1 .. Len(s)})
<1>1. Len(s) \in Nat /\ s \in [1 .. Len(s) -> Keys]
  BY LenProperties
<1>2. s \in Surjection(1 .. Len(s), {s[i] : i \in 1 .. Len(s)})
  BY <1>1 DEF Surjection
<1>3. IsFiniteSet(1 .. Len(s))
  BY <1>1, FS_Interval
<1> QED
  BY <1>2, <1>3, FS_Surjection

\* What MoveToFront leaves at each place of the list.
LEMMA MovedToFront ==
    ASSUME NEW s \in Seq(Keys), NEW i \in 1 .. Len(s)
    PROVE  LET t == <<s[i]>> \o RemoveAt(s, i)
           IN  /\ t \in Seq(Keys) /\ Len(t) = Len(s)
               /\ t[1] = s[i]
               /\ \A j \in 2 .. i : t[j] = s[j - 1]
               /\ \A j \in i + 1 .. Len(s) : t[j] = s[j]
<1> DEFINE a == SubSeq(s, 1, i - 1)
           b == SubSeq(s, i + 1, Len(s))
<1>1. Len(s) \in Nat /\ i \in Nat /\ i >= 1 /\ i <= Len(s) /\ \A j \in 1 .. Len(s) : s[j] \in Keys
  BY LenProperties, ElementOfSeq
<1>2. /\ a \in Seq(Keys) /\ Len(a) = i - 1
      /\ \A j \in 1 .. i - 1 : a[j] = s[j]
  BY <1>1, SubSeqProperties
<1>3. /\ b \in Seq(Keys) /\ Len(b) = Len(s) - i
      /\ \A j \in 1 .. Len(s) - i : b[j] = s[i + j]
  BY <1>1, SubSeqProperties
<1>4. /\ a \o b \in Seq(Keys) /\ Len(a \o b) = Len(s) - 1
      /\ \A j \in 1 .. Len(s) - 1 : (a \o b)[j] = IF j <= i - 1 THEN a[j] ELSE b[j - (i - 1)]
  <2> HIDE DEF a, b
  <2> QED
    BY <1>1, <1>2, <1>3, ConcatProperties
<1>5. <<s[i]>> \in Seq(Keys) /\ Len(<<s[i]>>) = 1 /\ <<s[i]>>[1] = s[i]
  BY <1>1
<1>6. /\ <<s[i]>> \o (a \o b) \in Seq(Keys) /\ Len(<<s[i]>> \o (a \o b)) = 1 + (Len(s) - 1)
      /\ \A j \in 1 .. 1 + (Len(s) - 1) :
           (<<s[i]>> \o (a \o b))[j] = IF j <= 1 THEN <<s[i]>>[j] ELSE (a \o b)[j - 1]
  <2> HIDE DEF a, b
  <2> QED
    BY <1>4, <1>5, ConcatProperties
<1> DEFINE t == <<s[i]>> \o (a \o b)
<1>7. t[1] = s[i] /\ \A j \in 2 .. Len(s) : t[j] = (a \o b)[j - 1]
  <2> HIDE DEF a, b
  <2> QED
    BY <1>1, <1>5, <1>6
<1>8. ASSUME NEW j \in 2 .. i PROVE t[j] = s[j - 1]
  <2> HIDE DEF a, b, t
  <2>1. j \in 2 .. Len(s) /\ j - 1 \in 1 .. Len(s) - 1 /\ j - 1 <= i - 1 /\ j - 1 \in 1 .. i - 1
    BY <1>1
  <2> QED
    BY <1>2, <1>4, <1>7, <2>1
<1>9. ASSUME NEW j \in i + 1 .. Len(s) PROVE t[j] = s[j]
  <2> HIDE DEF a, b, t
  <2>1. /\ j \in 2 .. Len(s) /\ j - 1 \in 1 .. Len(s) - 1 /\ ~(j - 1 <= i - 1)
        /\ (j - 1) - (i - 1) = j - i /\ j - i \in 1 .. Len(s) - i /\ i + (j - i) = j
    BY <1>1
  <2> QED
    BY <1>3, <1>4, <1>7, <2>1
<1>10. Len(t) = Len(s) /\ t \in Seq(Keys)
  <2> HIDE DEF a, b
  <2> QED
    BY <1>1, <1>6
<1>11. t = <<s[i]>> \o RemoveAt(s, i)
  BY DEF RemoveAt
<1> HIDE DEF t
<1> QED
  BY <1>7, <1>8, <1>9, <1>10, <1>11

\* What an insertion behind m evictions leaves at each place of the list.
LEMMA PushedToFront ==
    ASSUME NEW s \in Seq(Keys), NEW k \in Keys, NEW m \in 0 .. Len(s)
    PROVE  LET t == <<k>> \o SubSeq(s, 1, Len(s) - m)
           IN  /\ t \in Seq(Keys) /\ Len(t) = Len(s) - m + 1
               /\ t[1] = k
               /\ \A j \in 2 .. Len(s) - m + 1 : t[j] = s[j - 1]
<1> DEFINE a == SubSeq(s, 1, Len(s) - m)
<1>1. Len(s) \in Nat /\ m \in Nat /\ m <= Len(s) /\ \A j \in 1 .. Len(s) : s[j] \in Keys
  BY LenProperties, ElementOfSeq
<1>2. /\ a \in Seq(Keys) /\ Len(a) = Len(s) - m
      /\ \A j \in 1 .. Len(s) - m : a[j] = s[j]
  BY <1>1, SubSeqProperties
<1>3. <<k>> \in Seq(Keys) /\ Len(<<k>>) = 1 /\ <<k>>[1] = k
  OBVIOUS
<1>4. /\ <<k>> \o a \in Seq(Keys) /\ Len(<<k>> \o a) = 1 + (Len(s) - m)
      /\ \A j \in 1 .. 1 + (Len(s) - m) :
           (<<k>> \o a)[j] = IF j <= 1 THEN <<k>>[j] ELSE a[j - 1]
  <2> HIDE DEF a
  <2>1. /\ <<k>> \o a \in Seq(Keys) /\ Len(<<k>> \o a) = Len(<<k>>) + Len(a)
        /\ \A j \in 1 .. Len(<<k>>) + Len(a) :
             (<<k>> \o a)[j] = IF j <= Len(<<k>>) THEN <<k>>[j] ELSE a[j - Len(<<k>>)]
    BY <1>2, <1>3, ConcatProperties
  <2> QED
    BY <1>2, <1>3, <2>1
<1> HIDE DEF a
<1>5. (<<k>> \o a)[1] = k
  BY <1>1, <1>3, <1>4
<1>6. ASSUME NEW j \in 2 .. Len(s) - m + 1 PROVE (<<k>> \o a)[j] = s[j - 1]
  <2>1. j \in 1 .. 1 + (Len(s) - m) /\ ~(j <= 1) /\ j - 1 \in 1 .. Len(s) - m
    BY <1>1
  <2> QED
    BY <1>2, <1>4, <2>1
<1>7. Len(<<k>> \o a) = Len(s) - m + 1
  BY <1>1, <1>4
<1> QED
  BY <1>4, <1>5, <1>6, <1>7 DEF a

\* A list that starts with the chunk just used, and goes on with others in the
\* order they had, names each once and is in order of use.
LEMMA Reordered ==
    ASSUME TypeOK, IsInjective(order), OrderOfUse, NEW k \in Keys, Touch(k),
           order' \in Seq(Keys), Len(order') >= 1, order'[1] = k,
           NEW old \in [2 .. Len(order') -> 1 .. Len(order)],
           \A i, j \in 2 .. Len(order') : i < j => old[i] < old[j],
           \A j \in 2 .. Len(order') : order'[j] = order[old[j]] /\ order'[j] # k
    PROVE  IsInjective(order') /\ OrderOfUse' /\ since' \in [Keys -> SUBSET Keys]
<1>1. /\ Len(order) \in Nat /\ DOMAIN order = 1 .. Len(order)
      /\ \A j \in 1 .. Len(order) : order[j] \in Keys
      /\ Len(order') \in Nat /\ DOMAIN order' = 1 .. Len(order')
      /\ \A j \in 1 .. Len(order') : order'[j] \in Keys
  BY LenProperties, ElementOfSeq DEF TypeOK
<1>2. since' \in [Keys -> SUBSET Keys]
  BY DEF Touch, TypeOK
<1>3. \A x \in Keys : since'[x] = IF x = k THEN {} ELSE since[x] \union {k}
  BY DEF Touch
<1>4. \A i, j \in 2 .. Len(order') : (i < j <=> old[i] < old[j]) /\ (old[i] = old[j] => i = j)
  <2> TAKE i, j \in 2 .. Len(order')
  <2>1. i \in Int /\ j \in Int /\ old[i] \in Int /\ old[j] \in Int
    BY <1>1
  <2>2. (i < j => old[i] < old[j]) /\ (j < i => old[j] < old[i])
    OBVIOUS
  <2> QED
    BY <2>1, <2>2
<1>5. ASSUME NEW i \in 1 .. Len(order'), NEW j \in 1 .. Len(order'), order'[i] = order'[j]
      PROVE  i = j
  <2>1. CASE i = 1 \/ j = 1
    BY <1>1, <1>5, <2>1
  <2>2. CASE i \in 2 .. Len(order') /\ j \in 2 .. Len(order')
    <3>1. order[old[i]] = order[old[j]] /\ old[i] \in DOMAIN order /\ old[j] \in DOMAIN order
      BY <1>1, <1>5, <2>2
    <3>2. old[i] = old[j]
      BY <3>1 DEF IsInjective
    <3> QED
      BY <1>4, <2>2, <3>2
  <2> QED
    BY <1>1, <2>1, <2>2
<1>6. ASSUME NEW i \in 1 .. Len(order'), NEW j \in 1 .. Len(order')
      PROVE  order'[i] \in since'[order'[j]] <=> i < j
  <2>1. CASE j = 1
    <3>1. since'[order'[j]] = {}
      BY <1>1, <1>3, <2>1
    <3>2. order'[i] \notin since'[order'[j]]
      BY <3>1
    <3> QED
      BY <1>1, <2>1, <3>2
  <2>2. CASE i = 1 /\ j \in 2 .. Len(order')
    BY <1>1, <1>3, <2>2
  <2>3. CASE i \in 2 .. Len(order') /\ j \in 2 .. Len(order')
    <3>1. order[old[i]] \in since[order[old[j]]] <=> old[i] < old[j]
      BY <2>3 DEF OrderOfUse
    <3>2. order'[i] \in since'[order'[j]] <=> order[old[i]] \in since[order[old[j]]]
      <4>1. /\ order'[i] = order[old[i]] /\ order'[i] # k
            /\ order'[j] = order[old[j]] /\ order'[j] # k
        BY <2>3
      <4>2. since'[order'[j]] = since[order[old[j]]] \union {k}
        BY <1>1, <1>3, <4>1
      <4> QED
        BY <4>1, <4>2
    <3> QED
      BY <1>4, <2>3, <3>1, <3>2
  <2> QED
    BY <1>1, <2>1, <2>2, <2>3
<1>7. IsInjective(order')
  BY <1>1, <1>5 DEF IsInjective
<1> QED
  BY <1>2, <1>6, <1>7 DEF OrderOfUse

\* MoveToFront keeps the list one of the same chunks, in order of use.
LEMMA MoveKeepsList ==
    ASSUME TypeOK, IsInjective(order), OrderOfUse, NEW k \in Keys, MoveToFront(k), Touch(k)
    PROVE  /\ order' \in Seq(Keys) /\ since' \in [Keys -> SUBSET Keys]
           /\ IsInjective(order') /\ OrderOfUse'
           /\ {order'[i] : i \in 1 .. Len(order')} = {order[i] : i \in 1 .. Len(order)}
<1>1. PICK i \in 1 .. Len(order) : order[i] = k /\ order' = <<k>> \o RemoveAt(order, i)
  BY DEF MoveToFront
<1>2. order \in Seq(Keys) /\ Len(order) \in Nat /\ DOMAIN order = 1 .. Len(order)
  BY LenProperties DEF TypeOK
<1>3. /\ order' \in Seq(Keys) /\ Len(order') = Len(order)
      /\ order'[1] = k
      /\ \A j \in 2 .. i : order'[j] = order[j - 1]
      /\ \A j \in i + 1 .. Len(order) : order'[j] = order[j]
  BY <1>1, <1>2, MovedToFront
<1> DEFINE old == [j \in 2 .. Len(order') |-> IF j <= i THEN j - 1 ELSE j]
<1>4. old \in [2 .. Len(order') -> 1 .. Len(order)]
  BY <1>2, <1>3
<1>5. \A a, b \in 2 .. Len(order') : a < b => old[a] < old[b]
  BY <1>2, <1>3
<1>6. ASSUME NEW j \in 2 .. Len(order')
      PROVE  order'[j] = order[old[j]] /\ order'[j] # k
  <2>1. old[j] # i /\ old[j] \in 1 .. Len(order)
    BY <1>2, <1>3
  <2>2. order'[j] = order[old[j]]
    BY <1>2, <1>3
  <2> QED
    BY <1>1, <1>2, <2>1, <2>2 DEF IsInjective
<1>7. \A x : (\E j \in 1 .. Len(order') : x = order'[j]) <=> \E j \in 1 .. Len(order) : x = order[j]
  <2> TAKE x
  <2>1. ASSUME NEW j \in 1 .. Len(order') PROVE \E a \in 1 .. Len(order) : order'[j] = order[a]
    <3>1. CASE j = 1
      BY <1>1, <1>3, <3>1
    <3>2. CASE j \in 2 .. Len(order')
      BY <1>4, <1>6, <3>2
    <3> QED
      BY <1>2, <1>3, <3>1, <3>2
  <2>2. ASSUME NEW j \in 1 .. Len(order) PROVE \E a \in 1 .. Len(order') : order[j] = order'[a]
    <3>1. CASE j = i
      BY <1>1, <1>2, <1>3, <3>1
    <3>2. CASE j < i
      <4>1. j + 1 \in 2 .. i /\ j + 1 \in 1 .. Len(order') /\ (j + 1) - 1 = j
        BY <1>2, <1>3, <3>2
      <4> QED
        BY <1>3, <4>1
    <3>3. CASE j > i
      BY <1>2, <1>3, <3>3
    <3> QED
      BY <1>2, <3>1, <3>2, <3>3
  <2> QED
    BY <2>1, <2>2
<1>8. {order'[j] : j \in 1 .. Len(order')} = {order[j] : j \in 1 .. Len(order)}
  BY <1>7
<1> HIDE DEF old
<1>9. Len(order') >= 1
  BY <1>2, <1>3
<1> QED
  BY <1>3, <1>4, <1>5, <1>6, <1>8, <1>9, Reordered

\* An insertion leaves the list one of the chunks that stay and the new one, in
\* order of use.
LEMMA InsertKeepsList ==
    ASSUME TypeOK, ListMatchesMap, OrderOfUse, NEW k \in Keys, items[k] = Absent,
           NEW m \in 0 .. Len(order),
           order' = <<k>> \o SubSeq(order, 1, Len(order) - m), Touch(k)
    PROVE  /\ order' \in Seq(Keys) /\ since' \in [Keys -> SUBSET Keys]
           /\ IsInjective(order') /\ OrderOfUse'
           /\ {order'[i] : i \in 1 .. Len(order')} = (Resident \ Back(m)) \union {k}
<1>1. /\ order \in Seq(Keys) /\ Len(order) \in Nat /\ DOMAIN order = 1 .. Len(order)
      /\ m \in Nat /\ m <= Len(order)
  BY LenProperties DEF TypeOK
<1>2. /\ order' \in Seq(Keys) /\ Len(order') = Len(order) - m + 1
      /\ order'[1] = k
      /\ \A j \in 2 .. Len(order) - m + 1 : order'[j] = order[j - 1]
  BY <1>1, PushedToFront
<1> DEFINE old == [j \in 2 .. Len(order') |-> j - 1]
<1>3. old \in [2 .. Len(order') -> 1 .. Len(order)]
  BY <1>1, <1>2
<1>4. \A a, b \in 2 .. Len(order') : a < b => old[a] < old[b]
  BY <1>1, <1>2
<1>5. \A j \in 1 .. Len(order) : order[j] # k
  BY DEF ListMatchesMap, Resident
<1>6. \A j \in 2 .. Len(order') : order'[j] = order[old[j]] /\ order'[j] # k
  BY <1>1, <1>2, <1>3, <1>5
<1>7. \A j \in 1 .. Len(order) : order[j] \in Back(m) <=> j >= Len(order) - m + 1
  <2> TAKE j \in 1 .. Len(order)
  <2>1. ASSUME NEW i \in Len(order) - m + 1 .. Len(order), order[j] = order[i]
        PROVE  j >= Len(order) - m + 1
    <3>1. i \in 1 .. Len(order)
      BY <1>1
    <3>2. i = j
      BY <1>1, <2>1, <3>1 DEF ListMatchesMap, IsInjective
    <3> QED
      BY <3>2
  <2>2. j >= Len(order) - m + 1 => j \in Len(order) - m + 1 .. Len(order)
    BY <1>1
  <2> QED
    BY <2>1, <2>2 DEF Back
<1>8. \A x : (\E j \in 1 .. Len(order') : x = order'[j]) <=> x \in (Resident \ Back(m)) \union {k}
  <2> TAKE x
  <2>1. ASSUME NEW j \in 1 .. Len(order')
        PROVE  order'[j] \in (Resident \ Back(m)) \union {k}
    <3>1. CASE j = 1
      BY <1>2, <3>1
    <3>2. CASE j \in 2 .. Len(order')
      <4>1. /\ order'[j] = order[j - 1] /\ j - 1 \in 1 .. Len(order)
            /\ ~(j - 1 >= Len(order) - m + 1)
        BY <1>1, <1>2, <3>2
      <4> QED
        BY <1>7, <4>1 DEF ListMatchesMap
    <3> QED
      BY <1>1, <1>2, <3>1, <3>2
  <2>2. ASSUME x \in Resident \ Back(m) PROVE \E j \in 1 .. Len(order') : x = order'[j]
    <3>1. PICK i \in 1 .. Len(order) : x = order[i]
      BY <2>2 DEF ListMatchesMap
    <3>2. i < Len(order) - m + 1
      BY <1>1, <1>7, <2>2, <3>1
    <3>3. i + 1 \in 2 .. Len(order) - m + 1 /\ i + 1 \in 1 .. Len(order') /\ (i + 1) - 1 = i
      BY <1>1, <1>2, <3>2
    <3>4. order'[i + 1] = order[i]
      BY <1>2, <3>3
    <3> QED
      BY <3>1, <3>3, <3>4
  <2>3. 1 \in 1 .. Len(order') /\ order'[1] = k
    BY <1>1, <1>2
  <2> QED
    BY <2>1, <2>2, <2>3
<1>9. {order'[j] : j \in 1 .. Len(order')} = (Resident \ Back(m)) \union {k}
  BY <1>8
<1> HIDE DEF old
<1>10. Len(order') >= 1
  BY <1>1, <1>2
<1> QED
  BY <1>2, <1>3, <1>4, <1>6, <1>9, <1>10, Reordered DEF ListMatchesMap

----------------------------------------------------------------------------
(* The byte budget. *)

\* The entries are finitely many, and so are any of them.
LEMMA ResidentFinite ==
    ASSUME TypeOK, ListMatchesMap
    PROVE  /\ \A K \in SUBSET Resident : IsFiniteSet(K)
           /\ \A k \in Resident : k \in Keys /\ items[k] \in Chunks
<1>1. IsFiniteSet({order[i] : i \in 1 .. Len(order)})
  BY RangeFinite DEF TypeOK
<1>2. IsFiniteSet(Resident)
  BY <1>1, Zenon DEF ListMatchesMap
<1>3. \A K \in SUBSET Resident : IsFiniteSet(K)
  BY <1>2, FS_Subset
<1> QED
  BY <1>3 DEF Resident, TypeOK

\* Bytes, by the map.
LEMMA BytesIsCells == \A K : Bytes(K) = Cardinality(Cells(items, K))
BY DEF Bytes, Cells

\* The entries at the back of the list are entries.
LEMMA BackResident ==
    ASSUME TypeOK, ListMatchesMap, NEW m \in 0 .. Len(order)
    PROVE  Back(m) \subseteq Resident
<1>1. Len(order) \in Nat
  BY LenProperties DEF TypeOK
<1>2. \A i \in Len(order) - m + 1 .. Len(order) : i \in 1 .. Len(order)
  BY <1>1
<1> QED
  BY <1>2 DEF Back, ListMatchesMap

\* What stays and what goes make up what there was; what there will be is what
\* stays and the new data.
LEMMA BytesMove ==
    ASSUME TypeOK, ListMatchesMap, UsedIsTheSum, NEW k \in Keys, NEW d \in Chunks,
           NEW V \in SUBSET Resident, items'[k] = d, k \notin Resident \ V,
           \A j \in Resident \ V : items'[j] = items[j],
           Resident' = (Resident \ V) \union {k},
           used' = used - Bytes(V) + Size[d]
    PROVE  UsedIsTheSum' /\ used' \in Int
<1> DEFINE S == Resident \ V
<1>1. /\ IsFiniteSet(S) /\ IsFiniteSet(V) /\ IsFiniteSet({k})
      /\ \A j \in S : items[j] \in Chunks /\ items'[j] \in Chunks
      /\ \A j \in V : items[j] \in Chunks
      /\ S \union V = Resident /\ S \intersect V = {} /\ S \intersect {k} = {}
  BY ResidentFinite, FS_Singleton
<1>2. /\ Cardinality(Cells(items, S)) \in Nat
      /\ Cardinality(Cells(items, V)) \in Nat
      /\ Size[d] \in Nat
  BY <1>1, CellsFinite, HotCacheAssumption
<1>3. Cardinality(Cells(items, S \union V)) =
        Cardinality(Cells(items, S)) + Cardinality(Cells(items, V))
  BY <1>1, CellsAddUp
<1>4. Cardinality(Cells(items', S \union {k})) =
        Cardinality(Cells(items', S)) + Cardinality(Cells(items', {k}))
  BY <1>1, CellsAddUp
<1>5. Cardinality(Cells(items', {k})) = Size[d]
  BY CellsOfOne
<1>6. Cells(items', S) = Cells(items, S)
  BY CellsAgree
<1>7. Bytes(Resident)' = Cardinality(Cells(items', Resident'))
  BY DEF Bytes, Cells
<1>8. Cardinality(Cells(items', Resident')) = Cardinality(Cells(items', S \union {k}))
  BY Zenon
<1>9. /\ used = Cardinality(Cells(items, Resident))
      /\ Bytes(V) = Cardinality(Cells(items, V))
  BY BytesIsCells DEF UsedIsTheSum
<1>10. Cardinality(Cells(items, Resident)) = Cardinality(Cells(items, S \union V))
  BY <1>1, Zenon
<1>11. Cardinality(Cells(items', S)) = Cardinality(Cells(items, S))
  BY <1>6, Zenon
<1> HIDE DEF S
<1>12. used' = Cardinality(Cells(items, S)) + Size[d]
  BY <1>2, <1>3, <1>9, <1>10
<1>13. used' = Bytes(Resident)'
  BY <1>4, <1>5, <1>7, <1>8, <1>11, <1>12
<1> QED
  BY <1>2, <1>12, <1>13 DEF UsedIsTheSum

----------------------------------------------------------------------------
(* The steps. *)

\* The empty shard.
LEMMA InitInv == Init => Inv
<1> SUFFICES ASSUME Init PROVE Inv
  OBVIOUS
<1>1. order = << >> /\ Len(order) = 0 /\ order \in Seq(Keys)
  BY EmptySeq DEF Init
<1>2. TypeOK
  BY <1>1 DEF Init, TypeOK
<1>3. Resident = {}
  BY DEF Init, Resident
<1>4. ListMatchesMap
  BY <1>1, <1>3 DEF ListMatchesMap, IsInjective
<1>5. UsedIsTheSum
  <2>1. Cells(items, Resident) = {}
    BY <1>3 DEF Cells
  <2>2. Bytes(Resident) = 0
    BY <2>1, BytesIsCells, FS_EmptySet
  <2> QED
    BY <2>2 DEF UsedIsTheSum, Init
<1>6. OrderOfUse
  BY <1>1 DEF OrderOfUse
<1> QED
  BY <1>2, <1>4, <1>5, <1>6 DEF Inv

\* Get keeps the accounts.
LEMMA HitInv ==
    ASSUME Inv, NEW k \in Keys, Hit(k)
    PROVE  Inv'
<1> USE DEF Inv
<1>1. MoveToFront(k) /\ Touch(k) /\ items' = items /\ used' = used
  BY DEF Hit
<1>2. /\ order' \in Seq(Keys) /\ since' \in [Keys -> SUBSET Keys]
      /\ IsInjective(order') /\ OrderOfUse'
      /\ {order'[i] : i \in 1 .. Len(order')} = {order[i] : i \in 1 .. Len(order)}
  BY <1>1, MoveKeepsList DEF ListMatchesMap
<1>3. Resident' = Resident
  BY <1>1 DEF Resident
<1>4. TypeOK'
  BY <1>1, <1>2 DEF TypeOK
<1>5. ListMatchesMap'
  BY <1>2, <1>3 DEF ListMatchesMap
<1>6. UsedIsTheSum'
  BY <1>1 DEF UsedIsTheSum, Bytes, Resident
<1> QED
  BY <1>2, <1>4, <1>5, <1>6

\* Put of a chunk that is there keeps the accounts.
LEMMA ReplaceInv ==
    ASSUME Inv, NEW k \in Keys, NEW d \in Chunks, Replace(k, d)
    PROVE  Inv'
<1> USE DEF Inv
<1>1. /\ items[k] # Absent /\ MoveToFront(k) /\ Touch(k)
      /\ items' = [items EXCEPT ![k] = d]
      /\ used' = used - Size[items[k]] + Size[d]
  BY DEF Replace
<1>2. /\ order' \in Seq(Keys) /\ since' \in [Keys -> SUBSET Keys]
      /\ IsInjective(order') /\ OrderOfUse'
      /\ {order'[i] : i \in 1 .. Len(order')} = {order[i] : i \in 1 .. Len(order)}
  BY <1>1, MoveKeepsList DEF ListMatchesMap
<1>3. /\ items' \in [Keys -> Chunks \union {Absent}]
      /\ items'[k] = d /\ \A j \in Keys \ {k} : items'[j] = items[j]
  BY <1>1 DEF TypeOK
<1>4. Resident' = Resident /\ k \in Resident
  BY <1>1, <1>3, HotCacheAssumption DEF Resident
<1>5. UsedIsTheSum' /\ used' \in Int
  <2>1. Bytes({k}) = Size[items[k]]
    BY <1>4, BytesIsCells, ResidentFinite, CellsOfOne
  <2>2. {k} \in SUBSET Resident /\ k \notin Resident \ {k}
    BY <1>4
  <2>3. Resident' = (Resident \ {k}) \union {k}
    BY <1>4
  <2>4. \A j \in Resident \ {k} : items'[j] = items[j]
    BY <1>3 DEF Resident
  <2>5. used' = used - Bytes({k}) + Size[d]
    BY <1>1, <2>1
  <2> QED
    BY <1>3, <2>2, <2>3, <2>4, <2>5, BytesMove
<1>6. TypeOK'
  BY <1>2, <1>3, <1>5 DEF TypeOK
<1>7. ListMatchesMap'
  BY <1>2, <1>4 DEF ListMatchesMap
<1> QED
  BY <1>2, <1>5, <1>6, <1>7

\* What an insertion does to the map.
LEMMA InsertMoves ==
    ASSUME Inv, NEW k \in Keys, NEW d \in Chunks, items[k] = Absent,
           NEW m \in 0 .. Len(order),
           items' = [j \in Keys |->
             IF j = k THEN d ELSE IF j \in Back(m) THEN Absent ELSE items[j]]
    PROVE  /\ items' \in [Keys -> Chunks \union {Absent}]
           /\ items'[k] = d /\ k \notin Resident
           /\ \A j \in Resident \ Back(m) : items'[j] = items[j]
           /\ Resident' = (Resident \ Back(m)) \union {k}
           /\ Back(m) \subseteq Resident
           /\ \A j \in Keys : Entered(j) <=> j = k
           /\ \A j \in Keys : Left(j) <=> j \in Back(m)
<1>1. /\ items \in [Keys -> Chunks \union {Absent}]
      /\ Absent \notin Chunks /\ d # Absent
      /\ Back(m) \subseteq Resident
  BY HotCacheAssumption, BackResident DEF Inv, TypeOK
<1>2. \A j \in Keys : items'[j] =
        IF j = k THEN d ELSE IF j \in Back(m) THEN Absent ELSE items[j]
  OBVIOUS
<1>3. \A j \in Keys : j \in Resident <=> items[j] # Absent
  BY DEF Resident
<1>4. \A j \in Keys : Entered(j) <=> j = k
  BY <1>1, <1>2, <1>3 DEF Entered
<1>5. \A j \in Keys : Left(j) <=> j \in Back(m)
  BY <1>1, <1>2, <1>3 DEF Left
<1>6. Resident' = (Resident \ Back(m)) \union {k}
  <2>1. \A j : j \in Resident' <=> j \in Keys /\ items'[j] # Absent
    BY DEF Resident
  <2>2. \A j : j \in Resident <=> j \in Keys /\ items[j] # Absent
    BY DEF Resident
  <2> QED
    BY <1>1, <1>2, <2>1, <2>2
<1> QED
  BY <1>1, <1>2, <1>3, <1>4, <1>5, <1>6 DEF Resident

\* Put of a new chunk keeps the accounts.
LEMMA InsertInv ==
    ASSUME Inv, NEW k \in Keys, NEW d \in Chunks, Insert(k, d)
    PROVE  Inv'
<1>1. PICK m \in 0 .. Len(order) :
        /\ order' = <<k>> \o SubSeq(order, 1, Len(order) - m)
        /\ items' = [j \in Keys |->
             IF j = k THEN d ELSE IF j \in Back(m) THEN Absent ELSE items[j]]
        /\ used' = used - Bytes(Back(m)) + Size[d]
  BY DEF Insert
<1>2. items[k] = Absent /\ Touch(k)
  BY DEF Insert
<1>3. /\ items' \in [Keys -> Chunks \union {Absent}]
      /\ items'[k] = d /\ k \notin Resident
      /\ \A j \in Resident \ Back(m) : items'[j] = items[j]
      /\ Resident' = (Resident \ Back(m)) \union {k}
      /\ Back(m) \subseteq Resident
  BY <1>1, <1>2, InsertMoves
<1>4. /\ order' \in Seq(Keys) /\ since' \in [Keys -> SUBSET Keys]
      /\ IsInjective(order') /\ OrderOfUse'
      /\ {order'[i] : i \in 1 .. Len(order')} = (Resident \ Back(m)) \union {k}
  BY <1>1, <1>2, InsertKeepsList DEF Inv
<1>5. UsedIsTheSum' /\ used' \in Int
  BY <1>1, <1>3, BytesMove DEF Inv
<1>6. TypeOK'
  BY <1>3, <1>4, <1>5 DEF TypeOK
<1>7. ListMatchesMap'
  BY <1>3, <1>4 DEF ListMatchesMap
<1> QED
  BY <1>4, <1>5, <1>6, <1>7 DEF Inv

\* The invariant is inductive.
LEMMA InvHolds == Spec => []Inv
<1>1. Inv /\ [Next]_vars => Inv'
  <2> SUFFICES ASSUME Inv, [Next]_vars PROVE Inv'
    OBVIOUS
  <2>1. CASE Next
    BY <2>1, HitInv, ReplaceInv, InsertInv DEF Next
  <2>2. CASE UNCHANGED vars
    BY <2>2 DEF vars, Inv, TypeOK, ListMatchesMap, UsedIsTheSum, OrderOfUse, Resident, Bytes
  <2> QED
    BY <2>1, <2>2
<1> QED
  BY <1>1, InitInv, PTL DEF Spec

----------------------------------------------------------------------------
(* The theorems. *)

\* After any operations the map, the list and the byte count of a shard agree:
\* an entry is in both or in neither, and used is what the entries hold.
THEOREM AccountsAlwaysAgree == Spec => []AccountsAgree
<1>1. Inv => AccountsAgree
  BY DEF Inv, AccountsAgree
<1> QED
  BY <1>1, InvHolds, PTL

\* Places of the list behind which the victims stand.
LEMMA BackPlaces ==
    ASSUME Inv, NEW m \in 0 .. Len(order), NEW j \in 1 .. Len(order)
    PROVE  order[j] \in Back(m) <=> j >= Len(order) - m + 1
<1>1. Len(order) \in Nat /\ DOMAIN order = 1 .. Len(order)
  BY LenProperties DEF Inv, TypeOK
<1>2. ASSUME NEW i \in Len(order) - m + 1 .. Len(order), order[j] = order[i]
      PROVE  j >= Len(order) - m + 1
  <2>1. i \in 1 .. Len(order)
    BY <1>1
  <2>2. i = j
    BY <1>1, <1>2, <2>1 DEF Inv, ListMatchesMap, IsInjective
  <2> QED
    BY <2>2
<1>3. j >= Len(order) - m + 1 => j \in Len(order) - m + 1 .. Len(order)
  BY <1>1
<1> QED
  BY <1>2, <1>3 DEF Back

\* A victim that was used after all the others is the first of them in the list,
\* and the others are what one eviction less would have taken.
LEMMA LatestVictim ==
    ASSUME Inv, NEW m \in 0 .. Len(order), NEW k \in Back(m),
           \A j \in Back(m) : j # k => k \in since[j]
    PROVE  /\ m \in 1 .. Len(order)
           /\ Bytes(Back(m)) = Bytes(Back(m - 1)) + Size[items[k]]
           /\ Bytes(Back(m)) \in Nat /\ Bytes(Back(m - 1)) \in Nat
           /\ Size[items[k]] \in Nat
<1>1. Len(order) \in Nat /\ DOMAIN order = 1 .. Len(order)
  BY LenProperties DEF Inv, TypeOK
<1>2. PICK p \in Len(order) - m + 1 .. Len(order) : k = order[p]
  BY DEF Back
<1>3. m \in 1 .. Len(order) /\ p \in 1 .. Len(order)
  BY <1>1, <1>2
<1> DEFINE q == Len(order) - m + 1
<1>4. p = q
  <2>1. q \in 1 .. Len(order) /\ p >= q /\ order[q] \in Back(m)
    BY <1>1, <1>2, <1>3, BackPlaces
  <2>2. order[q] # k => p < q
    <3>1. order[p] \in since[order[q]] <=> p < q
      BY <1>3, <2>1 DEF Inv, OrderOfUse
    <3> QED
      BY <1>2, <2>1, <3>1
  <2>3. order[q] = k => p = q
    BY <1>1, <1>2, <1>3, <2>1 DEF Inv, ListMatchesMap, IsInjective
  <2>4. p \in Int /\ q \in Int
    BY <1>1, <1>3
  <2> QED
    BY <2>1, <2>2, <2>3, <2>4
<1>5. m - 1 \in 0 .. Len(order)
  BY <1>3
<1>6. \A j \in 1 .. Len(order) : order[j] \in Back(m - 1) <=> j >= Len(order) - m + 2
  <2> TAKE j \in 1 .. Len(order)
  <2>1. order[j] \in Back(m - 1) <=> j >= Len(order) - (m - 1) + 1
    BY <1>5, BackPlaces
  <2>2. Len(order) - (m - 1) + 1 = Len(order) - m + 2
    BY <1>1, <1>3
  <2> QED
    BY <2>1, <2>2
<1>7. Back(m) \subseteq Resident /\ Back(m - 1) \subseteq Resident
  BY <1>5, BackResident DEF Inv
<1>8. \A x \in Resident : \E j \in 1 .. Len(order) : x = order[j]
  BY DEF Inv, ListMatchesMap
<1>9. k \notin Back(m - 1)
  BY <1>1, <1>2, <1>3, <1>4, <1>6
<1>10. Back(m) = Back(m - 1) \union {k}
  <2>1. ASSUME NEW x \in Resident
        PROVE  x \in Back(m) <=> x \in Back(m - 1) \/ x = k
    <3>1. PICK j \in 1 .. Len(order) : x = order[j]
      BY <1>8
    <3>2. x \in Back(m) <=> j >= Len(order) - m + 1
      BY <3>1, BackPlaces
    <3>3. x \in Back(m - 1) <=> j >= Len(order) - m + 2
      BY <1>6, <3>1
    <3>4. x = k <=> j = p
      BY <1>1, <1>2, <1>3, <3>1 DEF Inv, ListMatchesMap, IsInjective
    <3> QED
      BY <1>1, <1>3, <1>4, <3>2, <3>3, <3>4
  <2> QED
    BY <1>7, <2>1
<1>11. /\ IsFiniteSet(Back(m - 1)) /\ IsFiniteSet({k}) /\ IsFiniteSet(Back(m))
       /\ \A j \in Back(m) : items[j] \in Chunks
  BY <1>7, ResidentFinite, FS_Singleton DEF Inv
<1>12. Cardinality(Cells(items, Back(m - 1) \union {k})) =
         Cardinality(Cells(items, Back(m - 1))) + Cardinality(Cells(items, {k}))
  BY <1>9, <1>10, <1>11, CellsAddUp
<1>13. /\ Cardinality(Cells(items, {k})) = Size[items[k]]
       /\ Size[items[k]] \in Nat
  BY <1>11, CellsOfOne, HotCacheAssumption
<1>14. /\ Cardinality(Cells(items, Back(m - 1))) \in Nat
       /\ Cardinality(Cells(items, Back(m))) \in Nat
  BY <1>10, <1>11, CellsFinite
<1>15. Cardinality(Cells(items, Back(m))) = Cardinality(Cells(items, Back(m - 1) \union {k}))
  BY <1>10, Zenon
<1> QED
  BY <1>3, <1>12, <1>13, <1>14, <1>15, BytesIsCells

\* An operation that is no insertion evicts nothing.
LEMMA OthersEvictNothing ==
    ASSUME Inv, NEW k \in Keys, Hit(k) \/ \E d \in Chunks : Replace(k, d)
    PROVE  /\ handed' = {}
           /\ \A j \in Keys : ~Left(j) /\ ~Entered(j)
<1>1. CASE Hit(k)
  BY <1>1 DEF Hit, Left, Entered
<1>2. CASE \E d \in Chunks : Replace(k, d)
  <2>1. PICK d \in Chunks : Replace(k, d)
    BY <1>2
  <2>2. d # Absent
    BY HotCacheAssumption
  <2>3. items[k] # Absent /\ items' = [items EXCEPT ![k] = d] /\ handed' = {}
    BY <2>1 DEF Replace
  <2>4. \A j \in Keys : items'[j] = IF j = k THEN d ELSE items[j]
    BY <2>3 DEF Inv, TypeOK
  <2> QED
    BY <2>2, <2>3, <2>4 DEF Left, Entered
<1> QED
  BY <1>1, <1>2

\* What each part of EvictionIsExact says of a step.
Fits == (\E k \in Keys : Entered(k)) => used' <= Capacity \/ Cardinality(Resident') = 1
NoneInVain ==
    \A k \in Keys :
        (Left(k) /\ \A j \in Keys : Left(j) /\ j # k => k \in since[j]) =>
            used' + Size[items[k]] > Capacity
LatestStay == \A j, k \in Keys : (Left(j) /\ items'[k] # Absent) => k \in since'[j]
HandedOver == handed' = {<<k, items[k]>> : k \in {j \in Keys : Left(j)}}

\* An insertion evicts as it should.
LEMMA InsertIsExact ==
    ASSUME Inv, NEW k \in Keys, NEW d \in Chunks, Insert(k, d)
    PROVE  Fits /\ NoneInVain /\ LatestStay /\ HandedOver
<1>1. PICK m \in 0 .. Len(order) :
        /\ Evicts(m, d)
        /\ order' = <<k>> \o SubSeq(order, 1, Len(order) - m)
        /\ items' = [j \in Keys |->
             IF j = k THEN d ELSE IF j \in Back(m) THEN Absent ELSE items[j]]
        /\ used' = used - Bytes(Back(m)) + Size[d]
        /\ handed' = {<<j, items[j]>> : j \in Back(m)}
  BY DEF Insert
<1>2. items[k] = Absent /\ Touch(k)
  BY DEF Insert
<1>3. /\ items'[k] = d /\ k \notin Resident
      /\ Resident' = (Resident \ Back(m)) \union {k}
      /\ Back(m) \subseteq Resident
      /\ \A j \in Keys : Left(j) <=> j \in Back(m)
  BY <1>1, <1>2, InsertMoves
<1>4. /\ Len(order) \in Nat /\ used \in Int /\ Size[d] \in Nat /\ Capacity \in Int
      /\ Resident \subseteq Keys
  BY LenProperties, HotCacheAssumption DEF Inv, TypeOK, Resident
<1>5. Resident = {order[i] : i \in 1 .. Len(order)}
  BY DEF Inv, ListMatchesMap
<1>6. Fits
  <2>1. CASE m = Len(order)
    <3>1. Back(m) = Resident
      BY <1>4, <1>5, <2>1 DEF Back
    <3>2. Resident' = {k}
      BY <1>3, <3>1
    <3> QED
      BY <3>2, FS_Singleton DEF Fits
  <2>2. CASE m # Len(order)
    BY <1>1, <2>2 DEF Evicts, Room, Fits
  <2> QED
    BY <2>1, <2>2
<1>7. NoneInVain
  <2> SUFFICES ASSUME NEW v \in Back(m), \A j \in Back(m) : j # v => v \in since[j]
               PROVE  used' + Size[items[v]] > Capacity
    BY <1>3, <1>4 DEF NoneInVain
  <2>1. /\ m \in 1 .. Len(order)
        /\ Bytes(Back(m)) = Bytes(Back(m - 1)) + Size[items[v]]
        /\ Bytes(Back(m)) \in Nat /\ Bytes(Back(m - 1)) \in Nat
        /\ Size[items[v]] \in Nat
    BY LatestVictim
  <2>2. ~Room(m - 1, d)
    BY <1>1, <1>4, <2>1 DEF Evicts
  <2>3. ~(used - Bytes(Back(m - 1)) + Size[d] <= Capacity)
    BY <2>2 DEF Room
  <2>4. used' = used - Bytes(Back(m)) + Size[d]
    BY <1>1
  <2>5. \A b, c, s \in Nat : b = c + s => (used - b + Size[d]) + s = used - c + Size[d]
    BY <1>4
  <2>6. used' + Size[items[v]] = used - Bytes(Back(m - 1)) + Size[d]
    BY <2>1, <2>4, <2>5
  <2>7. used - Bytes(Back(m - 1)) + Size[d] \in Int
    BY <1>4, <2>1
  <2> QED
    BY <1>4, <2>3, <2>6, <2>7
<1>8. LatestStay
  <2> SUFFICES ASSUME NEW j \in Keys, NEW x \in Keys, Left(j), items'[x] # Absent
               PROVE  x \in since'[j]
    BY DEF LatestStay
  <2>1. j \in Back(m) /\ j # k /\ x \in (Resident \ Back(m)) \union {k}
    <3>1. x \in Resident'
      BY DEF Resident
    <3> QED
      BY <1>3, <3>1
  <2>2. since'[j] = since[j] \union {k}
    BY <1>2, <2>1 DEF Touch
  <2>3. CASE x = k
    BY <2>2, <2>3
  <2>4. CASE x \in Resident \ Back(m)
    <3>1. PICK a \in 1 .. Len(order) : x = order[a]
      BY <1>5, <2>4
    <3>2. PICK b \in 1 .. Len(order) : j = order[b]
      BY <1>3, <1>5, <2>1
    <3>3. ~(a >= Len(order) - m + 1) /\ b >= Len(order) - m + 1
      BY <2>1, <2>4, <3>1, <3>2, BackPlaces
    <3>4. a < b
      BY <1>4, <3>3
    <3>5. order[a] \in since[order[b]]
      BY <3>4 DEF Inv, OrderOfUse
    <3> QED
      BY <2>2, <3>1, <3>2, <3>5
  <2> QED
    BY <2>1, <2>3, <2>4
<1>9. HandedOver
  <2>1. {j \in Keys : Left(j)} = Back(m)
    BY <1>3, <1>4
  <2> QED
    BY <1>1, <2>1 DEF HandedOver
<1> QED
  BY <1>6, <1>7, <1>8, <1>9

\* An insertion brings the shard within its capacity or leaves it one entry,
\* evicts no more than it must and the least recently used first, and hands over
\* what it evicts; nothing else evicts or hands over anything.
THEOREM EvictionAlwaysExact == Spec => EvictionIsExact
<1>1. Inv /\ [Next]_vars =>
        [Fits]_vars /\ [NoneInVain]_vars /\ [LatestStay]_vars /\ [HandedOver]_vars
  <2> SUFFICES ASSUME Inv, Next PROVE Fits /\ NoneInVain /\ LatestStay /\ HandedOver
    OBVIOUS
  <2>1. CASE \E k \in Keys, d \in Chunks : Insert(k, d)
    BY <2>1, InsertIsExact
  <2>2. CASE \E k \in Keys : Hit(k) \/ \E d \in Chunks : Replace(k, d)
    <3>1. handed' = {} /\ \A j \in Keys : ~Left(j) /\ ~Entered(j)
      BY <2>2, OthersEvictNothing
    <3> QED
      BY <3>1 DEF Fits, NoneInVain, LatestStay, HandedOver
  <2> QED
    BY <2>1, <2>2 DEF Next
<1>2. Spec => [][Fits]_vars /\ [][NoneInVain]_vars /\ [][LatestStay]_vars /\ [][HandedOver]_vars
  BY <1>1, InvHolds, PTL DEF Spec
<1> QED
  BY <1>2, PTL DEF EvictionIsExact, InsertionFits, NoEvictionInVain, LeastRecentlyUsedGoes,
              LeaversAreHandedOver, Fits, NoneInVain, LatestStay, HandedOver

=============================================================================
