--------------------------- MODULE ColdCacheProofs ---------------------------
(* Invariants of ColdCache for any goroutines, chunks, files and payloads. *)
EXTENDS ColdCache, TLAPS

----------------------------------------------------------------------------
(* The inductive invariant, in parts. *)

\* A write in progress has cells left to write and has left no hole behind it.
WritesOK ==
    \A w \in Writers :
        /\ wpc[w] \in {"idle", "open"} => pos[w] = 0
        /\ wpc[w] = "write" => pos[w] < Len(load[w]) /\ pos[w] <= Len(bytes[wfd[w]])

\* File f is named or open on behalf of chunk k.
Uses(k, f) ==
    \/ tmp[k] = f
    \/ final[k] = f
    \/ \E w \in Writers : wkey[w] = k /\ wfd[w] = f
    \/ \E r \in Readers : rkey[r] = k /\ rfd[r] = f

\* No file serves two chunks.
FilesApart == \A j, k \in Keys, f \in Files : Uses(j, f) /\ Uses(k, f) => j = k

\* The state of a chunk whose Puts have never overlapped: the only one that runs
\* has ".tmp" for itself, and neither the chunk file nor what a reader has open
\* is ".tmp".
AlonePut(k) == \A v, w \in Writers : v \in Putting(k) /\ w \in Putting(k) => v = w

FinalSafe(k) == final[k] # NoFile => Whole(final[k]) /\ final[k] # tmp[k]

WriterSafe(k, w) ==
    wkey[w] = k =>
        /\ wpc[w] \in {"write", "rename"} => wfd[w] = tmp[k]
        /\ wpc[w] = "write" =>
            /\ Len(bytes[wfd[w]]) = pos[w]
            /\ \A i \in 1 .. pos[w] : bytes[wfd[w]][i] = load[w][i]
        /\ wpc[w] = "rename" => bytes[wfd[w]] = load[w]

ReaderSafe(k, r) ==
    rkey[r] = k =>
        /\ rpc[r] = "read" =>
            /\ rfd[r] # tmp[k] /\ Whole(rfd[r])
            /\ Len(got[r]) <= Len(bytes[rfd[r]])
            /\ \A i \in 1 .. Len(got[r]) : got[r][i] = bytes[rfd[r]][i]
        /\ rpc[r] = "hit" => got[r] \in Payloads

Safe(k) ==
    /\ AlonePut(k)
    /\ FinalSafe(k)
    /\ \A w \in Writers : WriterSafe(k, w)
    /\ \A r \in Readers : ReaderSafe(k, r)

SoloSafe == \A k \in Keys : ~overlapped[k] => Safe(k)

\* A reader that has nothing open has read nothing.
IdleReads == \A r \in Readers : rpc[r] = "idle" => got[r] = << >>

Inv == TypeOK /\ WritesOK /\ FilesApart /\ IdleReads /\ SoloSafe

----------------------------------------------------------------------------
(* Types. *)

\* A file that a cell is written to, without a hole, is a sequence still.
LEMMA CellWritten ==
    ASSUME NEW old \in Seq(Cells), NEW cell \in Cells, NEW m \in Nat \ {0},
           m - 1 <= Len(old)
    PROVE  /\ WithCell(old, m, cell) \in Seq(Cells)
           /\ Len(WithCell(old, m, cell)) = IF Len(old) < m THEN m ELSE Len(old)
           /\ \A i \in 1 .. Len(WithCell(old, m, cell)) :
                WithCell(old, m, cell)[i] = IF i = m THEN cell ELSE old[i]
<1> DEFINE new == WithCell(old, m, cell)
<1> DEFINE len == IF Len(old) < m THEN m ELSE Len(old)
<1>1. len \in Nat /\ \A i \in 1 .. len : i = m \/ i \in 1 .. Len(old)
  OBVIOUS
<1>2. \A i \in 1 .. len : (IF i = m THEN cell ELSE old[i]) \in Cells
  BY <1>1
<1>3. new \in [1 .. len -> Cells] /\ \A i \in 1 .. len : new[i] = IF i = m THEN cell ELSE old[i]
  BY <1>2 DEF WithCell
<1>4. new \in Seq(Cells) /\ Len(new) = len
  BY <1>1, <1>3
<1> QED
  BY <1>3, <1>4

LEMMA TypeInit == Init => TypeOK /\ WritesOK
  BY ColdCacheAssumption DEF Init, TypeOK, WritesOK

\* Returning from Put keeps the writer's variables within their types.
LEMMA EndPutType ==
    ASSUME TypeOK, WritesOK, NEW w \in Writers, EndPut(w),
           UNCHANGED <<bytes, rpc, rkey, rfd, got, overlapped>>,
           tmp' \in [Keys -> Files \union {NoFile}],
           final' \in [Keys -> Files \union {NoFile}],
           broken' \in [Keys -> BOOLEAN]
    PROVE  TypeOK' /\ WritesOK'
<1>1. TypeOK'
  BY ColdCacheAssumption DEF EndPut, TypeOK
<1>2. WritesOK'
  BY DEF EndPut, TypeOK, WritesOK
<1> QED
  BY <1>1, <1>2

LEMMA TypeStep ==
    ASSUME TypeOK, WritesOK, [Next]_vars
    PROVE  TypeOK' /\ WritesOK'
<1> USE ColdCacheAssumption
<1>1. ASSUME NEW w \in Writers, NEW k \in Keys, NEW p \in Payloads, StartPut(w, k, p)
      PROVE  TypeOK' /\ WritesOK'
  <2>1. TypeOK'
    BY <1>1 DEF StartPut, TypeOK
  <2>2. WritesOK'
    BY <1>1 DEF StartPut, TypeOK, WritesOK
  <2> QED
    BY <2>1, <2>2
<1>2. ASSUME NEW w \in Writers, OpenTmp(w)
      PROVE  TypeOK' /\ WritesOK'
  <2>1. PICK f \in Files :
          /\ IF tmp[wkey[w]] = NoFile THEN Unused(f) ELSE f = tmp[wkey[w]] /\ Unlocked(f)
          /\ tmp' = [tmp EXCEPT ![wkey[w]] = f]
          /\ bytes' = [bytes EXCEPT ![f] = << >>]
          /\ wfd' = [wfd EXCEPT ![w] = f]
    BY <1>2 DEF OpenTmp
  <2>2. /\ wpc[w] = "open" /\ wpc' = [wpc EXCEPT ![w] = Wrote(w, 0)]
        /\ UNCHANGED <<final, wkey, load, pos, rpc, rkey, rfd, got, overlapped, solo, broken>>
    BY <1>2 DEF OpenTmp
  <2>3. Wrote(w, 0) \in {"rename", "write"}
    BY DEF Wrote
  <2>4. bytes' \in [Files -> Seq(Cells)]
    BY <2>1 DEF TypeOK
  <2>5. TypeOK'
    BY <2>1, <2>2, <2>3, <2>4 DEF TypeOK
  <2>6. pos[w] = 0 /\ Len(load[w]) \in Nat /\ (Wrote(w, 0) = "write" => Len(load[w]) > 0)
    BY <2>2 DEF TypeOK, WritesOK, Wrote
  <2>7. \A v \in Writers : (v # w /\ wpc[v] = "write" /\ wfd[v] = f) => pos[v] = 0
    BY <2>1 DEF Unused, Unlocked
  <2>8. ASSUME NEW v \in Writers, wpc'[v] = "write"
        PROVE  pos'[v] < Len(load'[v]) /\ pos'[v] <= Len(bytes'[wfd'[v]])
    <3>1. CASE v = w
      BY <2>1, <2>2, <2>6, <2>8, <3>1 DEF TypeOK
    <3>2. CASE v # w
      <4>1. wpc[v] = "write" /\ wfd'[v] = wfd[v] /\ wfd[v] \in Files
        BY <2>1, <2>2, <2>8, <3>2 DEF TypeOK
      <4>2. CASE wfd[v] = f
        BY <2>1, <2>2, <2>7, <3>2, <4>1, <4>2 DEF TypeOK, WritesOK
      <4>3. CASE wfd[v] # f
        BY <2>1, <2>2, <4>1, <4>3 DEF TypeOK, WritesOK
      <4> QED
        BY <4>2, <4>3
    <3> QED
      BY <3>1, <3>2
  <2>9. WritesOK'
    BY <2>2, <2>3, <2>8 DEF TypeOK, WritesOK
  <2> QED
    BY <2>5, <2>9
<1>3. ASSUME NEW w \in Writers, WriteCell(w)
      PROVE  TypeOK' /\ WritesOK'
  <2> DEFINE m == pos[w] + 1
             f == wfd[w]
             new == WithCell(bytes[f], m, load[w][m])
  <2>1. /\ wpc[w] = "write" /\ bytes' = [bytes EXCEPT ![f] = new]
        /\ pos' = [pos EXCEPT ![w] = m] /\ wpc' = [wpc EXCEPT ![w] = Wrote(w, m)]
        /\ UNCHANGED <<tmp, final, wkey, load, wfd, rpc, rkey, rfd, got, overlapped, solo, broken>>
    BY <1>3 DEF WriteCell
  <2>2. f \in Files /\ bytes[f] \in Seq(Cells) /\ load[w] \in Seq(Cells) /\ m \in Nat \ {0}
    BY <2>1 DEF TypeOK
  <2>3. m <= Len(load[w]) /\ m - 1 <= Len(bytes[f])
    BY <2>1, <2>2 DEF WritesOK, TypeOK
  <2>4. load[w][m] \in Cells
    BY <2>2, <2>3
  <2>5. new \in Seq(Cells) /\ Len(new) = IF Len(bytes[f]) < m THEN m ELSE Len(bytes[f])
    BY <2>2, <2>3, <2>4, CellWritten
  <2> HIDE DEF new
  <2>6. Wrote(w, m) \in {"rename", "write"} /\ (Wrote(w, m) = "write" => m # Len(load[w]))
    BY DEF Wrote
  <2>7. TypeOK'
    BY <2>1, <2>2, <2>5, <2>6 DEF TypeOK
  <2>8. Len(bytes[f]) <= Len(bytes'[f]) /\ m <= Len(bytes'[f])
    BY <2>1, <2>2, <2>5 DEF TypeOK
  <2>9. ASSUME NEW v \in Writers, wpc'[v] = "write"
        PROVE  pos'[v] < Len(load'[v]) /\ pos'[v] <= Len(bytes'[wfd'[v]])
    <3>1. CASE v = w
      BY <2>1, <2>2, <2>3, <2>6, <2>8, <2>9, <3>1 DEF TypeOK
    <3>2. CASE v # w
      <4>1. wpc[v] = "write" /\ wfd[v] \in Files /\ pos[v] <= Len(bytes[wfd[v]])
            /\ pos[v] < Len(load[v]) /\ pos[v] \in Nat /\ bytes[wfd[v]] \in Seq(Cells)
        BY <2>1, <2>9, <3>2 DEF TypeOK, WritesOK
      <4>2. CASE wfd[v] = f
        <5>1. pos'[v] = pos[v] /\ load' = load /\ wfd' = wfd
          BY <2>1, <3>2 DEF TypeOK
        <5>2. bytes'[f] \in Seq(Cells)
          BY <2>2, <2>7 DEF TypeOK
        <5> QED
          BY <2>2, <2>8, <4>1, <4>2, <5>1, <5>2
      <4>3. CASE wfd[v] # f
        BY <2>1, <2>2, <3>2, <4>1, <4>3 DEF TypeOK
      <4> QED
        BY <4>2, <4>3
    <3> QED
      BY <3>1, <3>2
  <2>10. WritesOK'
    BY <2>1, <2>6, <2>9 DEF TypeOK, WritesOK
  <2> QED
    BY <2>7, <2>10
<1>4. ASSUME NEW w \in Writers, OpenFails(w)
      PROVE  TypeOK' /\ WritesOK'
  BY <1>4, EndPutType DEF OpenFails, TypeOK
<1>5. ASSUME NEW w \in Writers, WriteFails(w)
      PROVE  TypeOK' /\ WritesOK'
  BY <1>5, EndPutType DEF WriteFails, TypeOK
<1>6. ASSUME NEW w \in Writers, Rename(w)
      PROVE  TypeOK' /\ WritesOK'
  <2>1. /\ tmp' \in [Keys -> Files \union {NoFile}]
        /\ final' \in [Keys -> Files \union {NoFile}]
    BY <1>6 DEF Rename, TypeOK
  <2> QED
    BY <1>6, <2>1, EndPutType DEF Rename, TypeOK
<1>7. ASSUME NEW w \in Writers, RenameFails(w)
      PROVE  TypeOK' /\ WritesOK'
  BY <1>7 DEF RenameFails, TypeOK, WritesOK
<1>8. ASSUME NEW w \in Writers, Remove(w)
      PROVE  TypeOK' /\ WritesOK'
  BY <1>8, EndPutType DEF Remove, TypeOK
<1>9. ASSUME NEW r \in Readers, NEW k \in Keys, OpenFinal(r, k)
      PROVE  TypeOK' /\ WritesOK'
  BY <1>9 DEF OpenFinal, TypeOK, WritesOK
<1>10. ASSUME NEW r \in Readers, ReadCell(r)
       PROVE  TypeOK' /\ WritesOK'
  <2>1. rfd[r] \in Files /\ bytes[rfd[r]] \in Seq(Cells) /\ got[r] \in Seq(Cells)
    BY <1>10 DEF ReadCell, TypeOK
  <2>2. bytes[rfd[r]][Len(got[r]) + 1] \in Cells
    BY <1>10, <2>1 DEF ReadCell
  <2>3. Append(got[r], bytes[rfd[r]][Len(got[r]) + 1]) \in Seq(Cells)
    BY <2>1, <2>2
  <2> QED
    BY <1>10, <2>3 DEF ReadCell, TypeOK, WritesOK
<1>11. ASSUME NEW r \in Readers, ReadEnds(r) \/ Serve(r)
       PROVE  TypeOK' /\ WritesOK'
  <2>1. CASE ReadEnds(r)
    BY <2>1 DEF ReadEnds, TypeOK, WritesOK
  <2>2. CASE Serve(r)
    <3>1. rpc[r] = "hit" /\ rfd[r] = NoFile
      BY <2>2 DEF Serve, TypeOK
    <3>2. << >> \in Seq(Cells)
      OBVIOUS
    <3> QED
      BY <2>2, <3>1, <3>2 DEF Serve, TypeOK, WritesOK
  <2> QED
    BY <1>11, <2>1, <2>2
<1>12. CASE Exit
  BY <1>12 DEF Exit, TypeOK, WritesOK
<1>13. CASE UNCHANGED vars
  BY <1>13 DEF vars, TypeOK, WritesOK
<1> QED
  BY <1>1, <1>2, <1>3, <1>4, <1>5, <1>6, <1>7, <1>8, <1>9, <1>10, <1>11, <1>12,
     <1>13 DEF Next, PutStep

----------------------------------------------------------------------------
(* No file serves two chunks. *)

LEMMA ApartFrame ==
    ASSUME FilesApart, \A k \in Keys, f \in Files : Uses(k, f)' => Uses(k, f)
    PROVE  FilesApart'
  BY DEF FilesApart

LEMMA ApartStep ==
    ASSUME TypeOK, FilesApart, [Next]_vars
    PROVE  FilesApart'
<1> USE ColdCacheAssumption
<1>1. ASSUME NEW w \in Writers, NEW k \in Keys, NEW p \in Payloads, StartPut(w, k, p)
      PROVE  FilesApart'
  <2>1. wfd[w] = NoFile
    BY <1>1 DEF StartPut, TypeOK
  <2>2. \A j \in Keys, f \in Files : Uses(j, f)' => Uses(j, f)
    BY <1>1, <2>1 DEF StartPut, TypeOK, Uses
  <2> QED
    BY <2>2, ApartFrame
<1>2. ASSUME NEW w \in Writers, OpenTmp(w)
      PROVE  FilesApart'
  <2>1. PICK g \in Files :
          /\ IF tmp[wkey[w]] = NoFile THEN Unused(g) ELSE g = tmp[wkey[w]] /\ Unlocked(g)
          /\ tmp' = [tmp EXCEPT ![wkey[w]] = g]
          /\ wfd' = [wfd EXCEPT ![w] = g]
    BY <1>2 DEF OpenTmp
  <2>2. UNCHANGED <<final, wkey, rkey, rfd>> /\ wkey[w] \in Keys
    BY <1>2 DEF OpenTmp, TypeOK
  <2>3. \A j \in Keys, f \in Files : Uses(j, f)' => Uses(j, f) \/ (f = g /\ j = wkey[w])
    BY <2>1, <2>2 DEF TypeOK, Uses
  <2>4. \A j \in Keys : Uses(j, g) => j = wkey[w]
    <3>1. CASE Unused(g)
      BY <3>1 DEF Unused, Uses
    <3>2. CASE g = tmp[wkey[w]]
      BY <2>2, <3>2 DEF FilesApart, Uses
    <3> QED
      BY <2>1, <3>1, <3>2
  <2> QED
    BY <2>3, <2>4 DEF FilesApart
<1>3. ASSUME NEW w \in Writers, WriteCell(w) \/ RenameFails(w)
      PROVE  FilesApart'
  BY <1>3, ApartFrame DEF WriteCell, RenameFails, Uses
<1>4. ASSUME NEW w \in Writers, OpenFails(w) \/ WriteFails(w)
      PROVE  FilesApart'
  <2>1. /\ wkey' = [wkey EXCEPT ![w] = NoKey] /\ wfd' = [wfd EXCEPT ![w] = NoFile]
        /\ UNCHANGED <<tmp, final, rkey, rfd>>
    BY <1>4 DEF OpenFails, WriteFails, EndPut
  <2>2. \A j \in Keys, f \in Files : Uses(j, f)' => Uses(j, f)
    BY <2>1 DEF TypeOK, Uses
  <2> QED
    BY <2>2, ApartFrame
<1>5. ASSUME NEW w \in Writers, Rename(w) \/ Remove(w)
      PROVE  FilesApart'
  <2>1. /\ tmp' = [tmp EXCEPT ![wkey[w]] = NoFile]
        /\ final' = final \/ final' = [final EXCEPT ![wkey[w]] = tmp[wkey[w]]]
        /\ wkey' = [wkey EXCEPT ![w] = NoKey] /\ wfd' = [wfd EXCEPT ![w] = NoFile]
        /\ UNCHANGED <<rkey, rfd>>
    BY <1>5 DEF Rename, Remove, EndPut
  <2>2. \A j \in Keys, f \in Files : Uses(j, f)' => Uses(j, f)
    BY <2>1 DEF TypeOK, Uses
  <2> QED
    BY <2>2, ApartFrame
<1>6. ASSUME NEW r \in Readers, NEW k \in Keys, OpenFinal(r, k)
      PROVE  FilesApart'
  <2>1. \A j \in Keys, f \in Files : Uses(j, f)' => Uses(j, f)
    BY <1>6 DEF OpenFinal, TypeOK, Uses
  <2> QED
    BY <2>1, ApartFrame
<1>7. ASSUME NEW r \in Readers, ReadCell(r) \/ ReadEnds(r) \/ Serve(r)
      PROVE  FilesApart'
  <2>1. \A j \in Keys, f \in Files : Uses(j, f)' => Uses(j, f)
    BY <1>7 DEF ReadCell, ReadEnds, Serve, TypeOK, Uses
  <2> QED
    BY <2>1, ApartFrame
<1>8. CASE Exit
  <2>1. \A j \in Keys, f \in Files : Uses(j, f)' => Uses(j, f)
    BY <1>8 DEF Exit, Uses
  <2> QED
    BY <2>1, ApartFrame
<1>9. CASE UNCHANGED vars
  BY <1>9, ApartFrame DEF vars, Uses
<1> QED
  BY <1>1, <1>2, <1>3, <1>4, <1>5, <1>6, <1>7, <1>8, <1>9 DEF Next, PutStep

LEMMA IdleReadsStep ==
    ASSUME TypeOK, IdleReads, [Next]_vars
    PROVE  IdleReads'
<1>1. ASSUME NEW w \in Writers, \/ \E k \in Keys, p \in Payloads : StartPut(w, k, p)
                               \/ PutStep(w)
      PROVE  IdleReads'
  BY <1>1 DEF StartPut, PutStep, OpenTmp, OpenFails, WriteCell, WriteFails, Rename,
              RenameFails, Remove, IdleReads
<1>2. ASSUME NEW r \in Readers, \/ \E k \in Keys : OpenFinal(r, k)
                               \/ ReadCell(r) \/ ReadEnds(r) \/ Serve(r)
      PROVE  IdleReads'
  BY <1>2 DEF OpenFinal, ReadCell, ReadEnds, Serve, TypeOK, IdleReads
<1>3. CASE Exit \/ UNCHANGED vars
  BY <1>3 DEF Exit, vars, IdleReads
<1> QED
  BY <1>1, <1>2, <1>3 DEF Next

----------------------------------------------------------------------------
(* Chunks whose Puts have never overlapped. *)

\* Steps that leave alone what chunk k's goroutines and files are.
LEMMA SafeFrame ==
    ASSUME TypeOK, NEW k \in Keys, Safe(k),
           tmp'[k] = tmp[k], final'[k] = final[k],
           \A w \in Writers :
                /\ wkey'[w] = k <=> wkey[w] = k
                /\ wkey[w] = k => /\ wpc'[w] = wpc[w] /\ load'[w] = load[w]
                                  /\ wfd'[w] = wfd[w] /\ pos'[w] = pos[w],
           \A r \in Readers :
                /\ rkey'[r] = k <=> rkey[r] = k
                /\ rkey[r] = k => /\ rpc'[r] = rpc[r] /\ rfd'[r] = rfd[r] /\ got'[r] = got[r],
           \A f \in Files : Uses(k, f) => bytes'[f] = bytes[f]
    PROVE  Safe(k)'
<1> USE ColdCacheAssumption
<1>1. AlonePut(k)'
  BY DEF Safe, AlonePut, Putting
<1>2. FinalSafe(k)'
  BY DEF TypeOK, Safe, FinalSafe, Whole, Uses
<1>3. ASSUME NEW w \in Writers
      PROVE  WriterSafe(k, w)'
  <2> SUFFICES ASSUME wkey'[w] = k
               PROVE  WriterSafe(k, w)'
    BY DEF WriterSafe
  <2>1. wkey[w] = k /\ wpc'[w] = wpc[w] /\ load'[w] = load[w] /\ wfd'[w] = wfd[w] /\ pos'[w] = pos[w]
    OBVIOUS
  <2>2. wpc[w] \in {"write", "rename"} => bytes'[wfd[w]] = bytes[wfd[w]]
    BY <2>1 DEF TypeOK, Uses
  <2> QED
    BY <2>1, <2>2 DEF Safe, WriterSafe
<1>4. ASSUME NEW r \in Readers
      PROVE  ReaderSafe(k, r)'
  <2> SUFFICES ASSUME rkey'[r] = k
               PROVE  ReaderSafe(k, r)'
    BY DEF ReaderSafe
  <2>1. rkey[r] = k /\ rpc'[r] = rpc[r] /\ rfd'[r] = rfd[r] /\ got'[r] = got[r]
    OBVIOUS
  <2>2. rpc[r] = "read" => bytes'[rfd[r]] = bytes[rfd[r]]
    BY <2>1 DEF TypeOK, Uses
  <2> QED
    BY <2>1, <2>2 DEF Safe, ReaderSafe, Whole
<1> QED
  BY <1>1, <1>2, <1>3, <1>4 DEF Safe

\* A writer of chunk k, which is alone, opens ".tmp".
LEMMA SafeOpenTmp ==
    ASSUME TypeOK, WritesOK, NEW k \in Keys, Safe(k), NEW w \in Writers, wkey[w] = k, OpenTmp(w)
    PROVE  Safe(k)'
<1> USE ColdCacheAssumption
<1>1. PICK g \in Files :
        /\ IF tmp[k] = NoFile THEN Unused(g) ELSE g = tmp[k]
        /\ tmp' = [tmp EXCEPT ![k] = g]
        /\ bytes' = [bytes EXCEPT ![g] = << >>]
        /\ wfd' = [wfd EXCEPT ![w] = g]
  BY DEF OpenTmp
<1>2. /\ wpc[w] = "open" /\ wpc' = [wpc EXCEPT ![w] = Wrote(w, 0)]
      /\ UNCHANGED <<final, wkey, load, pos, rpc, rkey, rfd, got>>
  BY DEF OpenTmp
<1>3. /\ \A v \in Writers : wkey[v] = k => v = w
      /\ AlonePut(k)'
  BY <1>2 DEF Safe, AlonePut, Putting, TypeOK
<1>4. final[k] # NoFile => final[k] # g
  BY <1>1 DEF Safe, FinalSafe, Unused
<1>5. FinalSafe(k)'
  BY <1>1, <1>2, <1>4 DEF TypeOK, Safe, FinalSafe, Whole
<1>6. ASSUME NEW v \in Writers
      PROVE  WriterSafe(k, v)'
  <2> SUFFICES ASSUME v = w
               PROVE  WriterSafe(k, v)'
    BY <1>2, <1>3 DEF WriterSafe
  <2>1. wfd'[w] = g /\ tmp'[k] = g /\ bytes'[g] = << >> /\ pos'[w] = 0 /\ load' = load
    BY <1>1, <1>2 DEF TypeOK, WritesOK
  <2>2. wpc'[w] = Wrote(w, 0)
    BY <1>2 DEF TypeOK
  <2>3. Wrote(w, 0) = "rename" => load[w] = << >>
    BY DEF Wrote, TypeOK
  <2> QED
    BY <2>1, <2>2, <2>3 DEF WriterSafe, Wrote
<1>7. ASSUME NEW r \in Readers
      PROVE  ReaderSafe(k, r)'
  <2>1. rkey[r] = k /\ rpc[r] = "read" => rfd[r] # g /\ rfd[r] \in Files
    BY <1>1 DEF TypeOK, Safe, ReaderSafe, Unused
  <2> QED
    BY <1>1, <1>2, <2>1 DEF TypeOK, Safe, ReaderSafe, Whole
<1> QED
  BY <1>3, <1>5, <1>6, <1>7 DEF Safe

\* It writes a cell: neither the chunk file nor a reader's file is the one it has open.
LEMMA SafeWriteCell ==
    ASSUME TypeOK, WritesOK, NEW k \in Keys, Safe(k), NEW w \in Writers, wkey[w] = k, WriteCell(w)
    PROVE  Safe(k)'
<1> USE ColdCacheAssumption
<1> DEFINE m == pos[w] + 1
           f == wfd[w]
           new == WithCell(bytes[f], m, load[w][m])
<1>1. /\ wpc[w] = "write" /\ bytes' = [bytes EXCEPT ![f] = new]
      /\ pos' = [pos EXCEPT ![w] = m] /\ wpc' = [wpc EXCEPT ![w] = Wrote(w, m)]
      /\ UNCHANGED <<tmp, final, wkey, load, wfd, rpc, rkey, rfd, got>>
  BY DEF WriteCell
<1>2. f \in Files /\ bytes[f] \in Seq(Cells) /\ load[w] \in Seq(Cells) /\ m \in Nat \ {0}
  BY <1>1 DEF TypeOK
<1>3. /\ f = tmp[k] /\ Len(bytes[f]) = m - 1 /\ m <= Len(load[w])
      /\ \A i \in 1 .. m - 1 : bytes[f][i] = load[w][i]
  BY <1>1, <1>2 DEF Safe, WriterSafe, WritesOK, TypeOK
<1>4. load[w][m] \in Cells
  BY <1>2, <1>3
<1>5. /\ new \in Seq(Cells) /\ Len(new) = m
      /\ \A i \in 1 .. m : new[i] = IF i = m THEN load[w][m] ELSE bytes[f][i]
  BY <1>2, <1>3, <1>4, CellWritten
<1> HIDE DEF new
<1>6. \A i \in 1 .. m : new[i] = load[w][i]
  BY <1>2, <1>3, <1>5
<1>7. m = Len(load[w]) => new = load[w]
  BY <1>2, <1>5, <1>6
<1>8. /\ \A v \in Writers : wkey[v] = k => v = w
      /\ AlonePut(k)'
  BY <1>1 DEF Safe, AlonePut, Putting, TypeOK
<1>9. FinalSafe(k)'
  BY <1>1, <1>3 DEF TypeOK, Safe, FinalSafe, Whole
<1>10. ASSUME NEW v \in Writers
       PROVE  WriterSafe(k, v)'
  <2> SUFFICES ASSUME v = w
               PROVE  WriterSafe(k, v)'
    BY <1>1, <1>8 DEF WriterSafe
  <2>1. wpc'[w] = Wrote(w, m) /\ pos'[w] = m /\ bytes'[f] = new
    BY <1>1, <1>2 DEF TypeOK
  <2>2. wfd'[w] = f /\ tmp'[k] = f /\ load'[w] = load[w]
    BY <1>1, <1>3
  <2>3. wpc'[w] = "rename" => bytes'[wfd'[w]] = load'[w]
    BY <1>7, <2>1, <2>2 DEF Wrote
  <2> QED
    BY <1>5, <1>6, <2>1, <2>2, <2>3 DEF WriterSafe
<1>11. ASSUME NEW r \in Readers
       PROVE  ReaderSafe(k, r)'
  <2>1. rkey[r] = k /\ rpc[r] = "read" => rfd[r] # f /\ bytes'[rfd[r]] = bytes[rfd[r]]
    BY <1>1, <1>3 DEF TypeOK, Safe, ReaderSafe
  <2> QED
    BY <1>1, <2>1 DEF Safe, ReaderSafe, Whole
<1> QED
  BY <1>8, <1>9, <1>10, <1>11 DEF Safe

\* It returns, leaving or moving or removing ".tmp".
LEMMA SafeEndPut ==
    ASSUME TypeOK, NEW k \in Keys, Safe(k), NEW w \in Writers, wkey[w] = k, EndPut(w),
           UNCHANGED <<bytes, rpc, rkey, rfd, got>>,
           \/ tmp' = tmp /\ final' = final
           \/ tmp' = [tmp EXCEPT ![k] = NoFile] /\ final' = final
           \/ /\ tmp' = [tmp EXCEPT ![k] = NoFile]
              /\ final' = [final EXCEPT ![k] = tmp[k]]
              /\ wpc[w] = "rename"
    PROVE  Safe(k)'
<1> USE ColdCacheAssumption
<1>1. \A v \in Writers : wkey'[v] # k
  BY DEF EndPut, Safe, AlonePut, Putting, TypeOK
<1>2. AlonePut(k)' /\ \A v \in Writers : WriterSafe(k, v)'
  BY <1>1 DEF AlonePut, Putting, WriterSafe
<1>3. tmp'[k] = tmp[k] \/ tmp'[k] = NoFile
  BY DEF TypeOK
<1>4. FinalSafe(k)'
  <2>1. CASE final' = final
    BY <1>3, <2>1 DEF TypeOK, Safe, FinalSafe, Whole
  <2>2. CASE final'[k] = tmp[k] /\ tmp'[k] = NoFile /\ wpc[w] = "rename"
    <3>1. wfd[w] = tmp[k] /\ bytes[tmp[k]] \in Payloads
      BY <2>2 DEF TypeOK, Safe, WriterSafe
    <3> QED
      BY <2>2, <3>1 DEF FinalSafe, Whole
  <2> QED
    BY <2>1, <2>2 DEF TypeOK
<1>5. \A r \in Readers : ReaderSafe(k, r)'
  BY <1>3 DEF TypeOK, Safe, ReaderSafe, Whole
<1> QED
  BY <1>2, <1>4, <1>5 DEF Safe

\* A reader goes on: it opened the chunk file, never ".tmp", and reads to its end.
LEMMA SafeRead ==
    ASSUME TypeOK, IdleReads, NEW k \in Keys, Safe(k), NEW q \in Readers,
           OpenFinal(q, k) \/ (rkey[q] = k /\ (ReadCell(q) \/ ReadEnds(q) \/ Serve(q)))
    PROVE  Safe(k)'
<1> USE ColdCacheAssumption
<1>1. UNCHANGED <<tmp, final, bytes, wpc, wkey, load, wfd, pos>>
  BY DEF OpenFinal, ReadCell, ReadEnds, Serve
<1>2. AlonePut(k)' /\ FinalSafe(k)' /\ \A w \in Writers : WriterSafe(k, w)'
  BY <1>1 DEF Safe, AlonePut, Putting, FinalSafe, Whole, WriterSafe
<1>3. ASSUME NEW r \in Readers, r # q
      PROVE  ReaderSafe(k, r)'
  <2>1. rkey'[r] = rkey[r] /\ rpc'[r] = rpc[r] /\ rfd'[r] = rfd[r] /\ got'[r] = got[r]
    BY <1>3 DEF OpenFinal, ReadCell, ReadEnds, Serve, TypeOK
  <2>2. ReaderSafe(k, r)
    BY DEF Safe
  <2>3. tmp' = tmp /\ bytes' = bytes
    BY <1>1
  <2> QED
    BY <2>1, <2>2, <2>3 DEF ReaderSafe, Whole
<1>4. ReaderSafe(k, q)'
  <2>1. CASE OpenFinal(q, k)
    BY <1>1, <2>1 DEF OpenFinal, TypeOK, IdleReads, Safe, FinalSafe, ReaderSafe, Whole
  <2>2. CASE rkey[q] = k /\ ReadCell(q)
    <3> DEFINE s == got[q]
               file == bytes[rfd[q]]
    <3>1. s \in Seq(Cells) /\ file \in Seq(Cells) /\ Len(s) < Len(file)
      BY <2>2 DEF ReadCell, TypeOK
    <3>2. /\ rfd[q] # tmp[k] /\ file \in Payloads
          /\ \A i \in 1 .. Len(s) : s[i] = file[i]
      BY <2>2 DEF ReadCell, Safe, ReaderSafe, Whole
    <3>3. got'[q] = Append(s, file[Len(s) + 1]) /\ rfd'[q] = rfd[q] /\ rpc'[q] = "read"
      BY <2>2 DEF ReadCell, TypeOK
    <3>4. /\ Len(got'[q]) <= Len(file)
          /\ \A i \in 1 .. Len(got'[q]) : got'[q][i] = file[i]
      BY <3>1, <3>2, <3>3
    <3> QED
      BY <1>1, <3>2, <3>3, <3>4 DEF ReaderSafe, Whole
  <2>3. CASE rkey[q] = k /\ ReadEnds(q)
    <3> DEFINE s == got[q]
               file == bytes[rfd[q]]
    <3>1. s \in Seq(Cells) /\ file \in Seq(Cells) /\ Len(s) >= Len(file)
      BY <2>3 DEF ReadEnds, TypeOK
    <3>2. /\ file \in Payloads /\ Len(s) <= Len(file)
          /\ \A i \in 1 .. Len(s) : s[i] = file[i]
      BY <2>3 DEF ReadEnds, Safe, ReaderSafe, Whole
    <3>3. s = file
      BY <3>1, <3>2
    <3>4. got'[q] = s /\ rpc'[q] = "hit"
      BY <2>3 DEF ReadEnds, TypeOK
    <3> QED
      BY <3>2, <3>3, <3>4 DEF ReaderSafe
  <2>4. CASE rkey[q] = k /\ Serve(q)
    BY <2>4 DEF Serve, TypeOK, ReaderSafe
  <2> QED
    BY <2>1, <2>2, <2>3, <2>4
<1> QED
  BY <1>2, <1>3, <1>4 DEF Safe

LEMMA SoloStep ==
    ASSUME Inv, [Next]_vars
    PROVE  SoloSafe'
<1> USE ColdCacheAssumption DEF Inv
<1> SUFFICES ASSUME NEW k \in Keys, ~overlapped'[k]
             PROVE  Safe(k)'
  BY DEF SoloSafe
<1>1. ~overlapped[k] /\ Safe(k)
  <2>1. ~overlapped[k]
    <3>1. CASE overlapped' = overlapped
      BY <3>1
    <3>2. ASSUME NEW w \in Writers, NEW j \in Keys, NEW p \in Payloads, StartPut(w, j, p)
          PROVE  overlapped[k] => overlapped'[k]
      BY <3>2 DEF StartPut, TypeOK
    <3>3. ASSUME NEW w \in Writers, PutStep(w)
          PROVE  overlapped' = overlapped
      BY <3>3 DEF PutStep, OpenTmp, OpenFails, WriteCell, WriteFails, Rename, RenameFails,
         Remove
    <3>4. ASSUME NEW r \in Readers, \/ \E j \in Keys : OpenFinal(r, j)
                                   \/ ReadCell(r) \/ ReadEnds(r) \/ Serve(r)
          PROVE  overlapped' = overlapped
      BY <3>4 DEF OpenFinal, ReadCell, ReadEnds, Serve
    <3> QED
      BY <3>1, <3>2, <3>3, <3>4 DEF Next, Exit, vars
  <2> QED
    BY <2>1 DEF SoloSafe
<1>2. ASSUME NEW w \in Writers, NEW j \in Keys, NEW p \in Payloads, StartPut(w, j, p)
      PROVE  Safe(k)'
  <2>1. wkey[w] = NoKey
    BY <1>2 DEF StartPut, TypeOK
  <2>2. CASE j = k
    <3>1. Putting(k) = {}
      BY <1>2, <2>2 DEF StartPut, TypeOK
    <3>2. \A v \in Writers : wkey[v] # k
      BY <3>1 DEF Putting, TypeOK
    <3>3. \A v \in Writers : wkey'[v] = k => v = w
      BY <1>2, <3>2 DEF StartPut, TypeOK
    <3>4. wpc'[w] = "open"
      BY <1>2 DEF StartPut, TypeOK
    <3>5. AlonePut(k)' /\ \A v \in Writers : WriterSafe(k, v)'
      BY <3>3, <3>4 DEF AlonePut, Putting, WriterSafe
    <3>6. FinalSafe(k)' /\ \A r \in Readers : ReaderSafe(k, r)'
      BY <1>1, <1>2 DEF StartPut, Safe, FinalSafe, ReaderSafe, Whole
    <3> QED
      BY <3>5, <3>6 DEF Safe
  <2>3. CASE j # k
    BY <1>1, <1>2, <2>1, <2>3, SafeFrame DEF StartPut, TypeOK
  <2> QED
    BY <2>2, <2>3
<1>3. ASSUME NEW w \in Writers, PutStep(w)
      PROVE  Safe(k)'
  <2>1. wkey[w] \in Keys
    BY <1>3 DEF PutStep, OpenTmp, OpenFails, WriteCell, WriteFails, Rename, RenameFails,
                Remove, TypeOK
  <2>2. CASE wkey[w] = k
    <3>1. CASE OpenTmp(w)
      BY <1>1, <2>2, <3>1, SafeOpenTmp
    <3>2. CASE WriteCell(w)
      BY <1>1, <2>2, <3>2, SafeWriteCell
    <3>3. CASE OpenFails(w) \/ WriteFails(w) \/ Rename(w) \/ Remove(w)
      BY <1>1, <2>2, <3>3, SafeEndPut DEF OpenFails, WriteFails, Rename, Remove
    <3>4. CASE RenameFails(w)
      <4>1. /\ wpc' = [wpc EXCEPT ![w] = "remove"]
            /\ UNCHANGED <<tmp, final, bytes, wkey, load, wfd, pos, rpc, rkey, rfd, got>>
        BY <3>4 DEF RenameFails
      <4>2. AlonePut(k)' /\ \A v \in Writers : WriterSafe(k, v)'
        BY <1>1, <2>2, <4>1 DEF Safe, AlonePut, Putting, WriterSafe, TypeOK
      <4>3. FinalSafe(k)' /\ \A r \in Readers : ReaderSafe(k, r)'
        BY <1>1, <4>1 DEF Safe, FinalSafe, ReaderSafe, Whole
      <4> QED
        BY <4>2, <4>3 DEF Safe
    <3> QED
      BY <1>3, <3>1, <3>2, <3>3, <3>4 DEF PutStep
  <2>3. CASE wkey[w] # k
    <3>1. /\ tmp'[k] = tmp[k] /\ final'[k] = final[k]
          /\ UNCHANGED <<rpc, rkey, rfd, got>>
          /\ wkey' = wkey \/ wkey' = [wkey EXCEPT ![w] = NoKey]
          /\ \A v \in Writers : v # w => /\ wpc'[v] = wpc[v] /\ load'[v] = load[v]
                                        /\ wfd'[v] = wfd[v] /\ pos'[v] = pos[v]
      BY <1>3, <2>3 DEF PutStep, OpenTmp, OpenFails, WriteCell, WriteFails, Rename, RenameFails,
                        Remove, EndPut, TypeOK
    <3>2. ASSUME NEW f \in Files, Uses(k, f)
          PROVE  bytes'[f] = bytes[f]
      <4>1. CASE OpenTmp(w)
        <5>1. PICK g \in Files :
                /\ IF tmp[wkey[w]] = NoFile THEN Unused(g) ELSE g = tmp[wkey[w]]
                /\ bytes' = [bytes EXCEPT ![g] = << >>]
          BY <4>1 DEF OpenTmp
        <5>2. g # f
          BY <2>1, <2>3, <3>2, <5>1 DEF FilesApart, Uses, Unused
        <5> QED
          BY <5>1, <5>2 DEF TypeOK
      <4>2. CASE WriteCell(w)
        <5>1. Uses(wkey[w], wfd[w]) /\ wfd[w] \in Files
          BY <4>2 DEF WriteCell, Uses, TypeOK
        <5>2. wfd[w] # f
          BY <2>1, <2>3, <3>2, <5>1 DEF FilesApart
        <5> QED
          BY <4>2, <5>2 DEF WriteCell, TypeOK
      <4>3. CASE ~OpenTmp(w) /\ ~WriteCell(w)
        BY <1>3, <4>3 DEF PutStep, OpenFails, WriteFails, Rename, RenameFails, Remove
      <4> QED
        BY <4>1, <4>2, <4>3
    <3>3. \A v \in Writers : wkey'[v] = k <=> wkey[v] = k
      BY <2>3, <3>1 DEF TypeOK
    <3> QED
      BY <1>1, <2>3, <3>1, <3>2, <3>3, SafeFrame
  <2> QED
    BY <2>2, <2>3
<1>4. ASSUME NEW q \in Readers, NEW j \in Keys, OpenFinal(q, j)
      PROVE  Safe(k)'
  <2>1. CASE j = k
    BY <1>1, <1>4, <2>1, SafeRead
  <2>2. CASE j # k
    <3>1. rkey[q] = NoKey
      BY <1>4 DEF OpenFinal, TypeOK
    <3> QED
      BY <1>1, <1>4, <2>2, <3>1, SafeFrame DEF OpenFinal, TypeOK
  <2> QED
    BY <2>1, <2>2
<1>5. ASSUME NEW q \in Readers, ReadCell(q) \/ ReadEnds(q) \/ Serve(q)
      PROVE  Safe(k)'
  <2>1. CASE rkey[q] = k
    BY <1>1, <1>5, <2>1, SafeRead
  <2>2. CASE rkey[q] # k
    BY <1>1, <1>5, <2>2, SafeFrame DEF ReadCell, ReadEnds, Serve, TypeOK
  <2> QED
    BY <2>1, <2>2
<1>6. CASE Exit
  <2>1. /\ UNCHANGED <<tmp, final, bytes>>
        /\ \A w \in Writers : wkey'[w] # k
        /\ \A r \in Readers : rkey'[r] # k
    BY <1>6 DEF Exit
  <2> QED
    BY <1>1, <2>1 DEF Safe, AlonePut, Putting, FinalSafe, Whole, WriterSafe, ReaderSafe
<1>7. CASE UNCHANGED vars
  BY <1>1, <1>7, SafeFrame DEF vars
<1> QED
  BY <1>2, <1>3, <1>4, <1>5, <1>6, <1>7 DEF Next

----------------------------------------------------------------------------
(* The theorems. *)

LEMMA InvInit == Init => Inv
<1> SUFFICES ASSUME Init PROVE Inv
  OBVIOUS
<1>1. TypeOK /\ WritesOK
  BY TypeInit
<1>2. FilesApart /\ IdleReads
  BY ColdCacheAssumption DEF Init, FilesApart, IdleReads, Uses
<1>3. SoloSafe
  BY ColdCacheAssumption
     DEF Init, SoloSafe, Safe, AlonePut, Putting, FinalSafe, WriterSafe, ReaderSafe
<1> QED
  BY <1>1, <1>2, <1>3 DEF Inv

LEMMA InvStep == Inv /\ [Next]_vars => Inv'
  BY TypeStep, ApartStep, IdleReadsStep, SoloStep DEF Inv

\* Every goroutine, file and history variable keeps its type.
THEOREM TypesHold == Spec => []TypeOK
<1>1. Inv => TypeOK
  BY DEF Inv
<1> QED
  BY <1>1, InvInit, InvStep, PTL DEF Spec

\* tmp-rename keeps every chunk file whole that no two Puts fought over.
THEOREM TornOnlyByOverlapHolds == Spec => []TornOnlyByOverlap
<1>1. Inv => TornOnlyByOverlap
  BY DEF Inv, SoloSafe, Safe, FinalSafe, TornOnlyByOverlap
<1> QED
  BY <1>1, InvInit, InvStep, PTL DEF Spec

\* And every read of it is whole, whatever replaces it meanwhile.
THEOREM ReadsAreWholeHolds == Spec => []ReadsAreWhole
<1>1. Inv => ReadsAreWhole
  BY DEF Inv, TypeOK, SoloSafe, Safe, ReaderSafe, ReadsAreWhole
<1> QED
  BY <1>1, InvInit, InvStep, PTL DEF Spec

----------------------------------------------------------------------------
(* Races heal: bytes that a shorter version leaves of a longer one are never *)
(* cut off, but that breaks the chunk only until a Put is alone.            *)

\* Puts of a chunk that is not broken, or one that is alone.
Sound(w) == wpc[w] # "idle" /\ (solo[w] \/ ~broken[wkey[w]])

\* No other Put of the chunk runs beside one that is solo.
SoloAlone ==
    \A v, w \in Writers :
        (solo[w] /\ wpc[w] # "idle" /\ wpc[v] # "idle" /\ wkey[v] = wkey[w]) => v = w

\* Sound Puts of a chunk write as much as one another.
SameLengths ==
    \A v, w \in Writers :
        (Sound(w) /\ wpc[v] # "idle" /\ wkey[v] = wkey[w]) => Len(load[v]) = Len(load[w])

\* The file that a sound Put writes has no more than that.
NoTail ==
    \A w \in Writers : (Sound(w) /\ wpc[w] = "write") => Len(bytes[wfd[w]]) <= Len(load[w])

\* What a write has put into its file is there still: no other writes there
\* before it is done.
WritesKept ==
    \A w \in Writers : wpc[w] = "write" =>
        \A i \in 1 .. pos[w] : bytes[wfd[w]][i] = load[w][i]

OneWriteAtATime ==
    \A v, w \in Writers :
        (wpc[v] = "write" /\ wpc[w] = "write" /\ wfd[v] = wfd[w] /\ pos[v] > 0 /\ pos[w] > 0)
            => v = w

\* A file is whole, or a write of it is to come or under way.
Mending(f) == Whole(f) \/ \E w \in Writers : wfd[w] = f /\ wpc[w] = "write"

\* A Put of the chunk will move or remove ".tmp".
Attended(k) == \E w \in Writers : wkey[w] = k /\ wpc[w] \in {"write", "rename", "remove"}

Healing ==
    \A k \in Keys : ~broken[k] =>
        /\ tmp[k] # NoFile => Mending(tmp[k]) /\ Attended(k)
        /\ final[k] # NoFile => Mending(final[k])

\* What a solo Put writes, and moves when it is whole, is ".tmp".
SoloFile ==
    \A w \in Writers : solo[w] =>
        /\ wpc[w] \in {"write", "rename"} => wfd[w] = tmp[wkey[w]]
        /\ wpc[w] = "rename" => Whole(wfd[w])

RaceInv ==
    /\ SoloAlone /\ SameLengths /\ NoTail
    /\ WritesKept /\ OneWriteAtATime
    /\ SoloFile /\ Healing

\* A write of a file goes on for the chunk that has the file's name.
LEMMA WriterOfFile ==
    ASSUME TypeOK, FilesApart, NEW k \in Keys, NEW f \in Files, Uses(k, f),
           NEW w \in Writers, wfd[w] = f
    PROVE  wkey[w] = k
<1>1. wkey[w] \in Keys /\ wpc[w] # "idle"
  BY ColdCacheAssumption DEF TypeOK
<1> QED
  BY <1>1 DEF FilesApart, Uses

\* A chunk whose files, and the writers that have them open, a step leaves alone.
LEMMA HealingFrame ==
    ASSUME TypeOK, FilesApart, Healing, NEW k \in Keys, ~broken[k],
           tmp'[k] = tmp[k] \/ tmp'[k] = NoFile,
           final'[k] = final[k] \/ final'[k] = tmp[k],
           \A f \in Files : Uses(k, f) => bytes'[f] = bytes[f],
           \A w \in Writers : (wkey[w] = k /\ wpc[w] = "write") =>
                wfd'[w] = wfd[w] /\ wpc'[w] = "write",
           \A w \in Writers : (wkey[w] = k /\ wpc[w] \in {"write", "rename", "remove"}) =>
                \/ tmp'[k] = NoFile
                \/ wkey'[w] = k /\ wpc'[w] \in {"write", "rename", "remove"}
    PROVE  /\ tmp'[k] # NoFile => Mending(tmp[k])' /\ Attended(k)'
           /\ final'[k] # NoFile => Mending(final[k])'
<1>1. ASSUME NEW f \in Files, f = tmp[k] \/ f = final[k], Mending(f)
      PROVE  Mending(f)'
  <2>1. Uses(k, f)
    BY <1>1 DEF Uses
  <2>2. CASE Whole(f)
    BY <2>1, <2>2 DEF Mending, Whole
  <2>3. ASSUME NEW w \in Writers, wfd[w] = f, wpc[w] = "write"
        PROVE  Mending(f)'
    BY <2>1, <2>3, WriterOfFile DEF Mending
  <2> QED
    BY <1>1, <2>2, <2>3 DEF Mending
<1>2. /\ tmp[k] # NoFile => tmp[k] \in Files /\ Mending(tmp[k])
      /\ final[k] # NoFile => final[k] \in Files /\ Mending(final[k])
      /\ tmp[k] # NoFile => Attended(k)
  BY DEF TypeOK, Healing
<1>3. tmp[k] # NoFile => \A f : f = tmp[k] => Mending(f)'
  BY <1>1, <1>2
<1>4. final[k] # NoFile => \A f : f = final[k] => Mending(f)'
  BY <1>1, <1>2
<1>5. tmp'[k] # NoFile => Attended(k)'
  BY <1>2 DEF Attended
<1>6. \A f : Mending(f)' <=>
        (bytes'[f] \in Payloads \/ \E w \in Writers : wfd'[w] = f /\ wpc'[w] = "write")
  BY DEF Mending, Whole
<1>7. Mending(tmp[k])' <=>
        (bytes'[tmp'[k]] \in Payloads \/ \E w \in Writers : wfd'[w] = tmp'[k] /\ wpc'[w] = "write")
  BY DEF Mending, Whole
<1>8. Mending(final[k])' <=>
        (bytes'[final'[k]] \in Payloads \/ \E w \in Writers : wfd'[w] = final'[k] /\ wpc'[w] = "write")
  BY DEF Mending, Whole
<1> QED
  BY <1>3, <1>4, <1>5, <1>6, <1>7, <1>8

\* What an open of ".tmp" does.
LEMMA OpenTmpDoes ==
    ASSUME TypeOK, WritesOK, NEW w \in Writers, OpenTmp(w)
    PROVE  \E g \in Files :
             /\ wkey[w] \in Keys /\ load[w] \in Payloads
             /\ tmp'[wkey[w]] = g /\ \A k \in Keys : k # wkey[w] => tmp'[k] = tmp[k]
             /\ bytes'[g] = << >> /\ \A f \in Files : f # g => bytes'[f] = bytes[f]
             /\ wfd'[w] = g /\ pos'[w] = 0 /\ wpc[w] = "open" /\ wpc'[w] = Wrote(w, 0)
             /\ \A v \in Writers : v # w => wfd'[v] = wfd[v] /\ wpc'[v] = wpc[v]
             /\ \A v \in Writers : (wfd[v] = g /\ wpc[v] = "write") => pos[v] = 0
             /\ UNCHANGED <<final, wkey, load, pos, solo, broken>>
             /\ \A k \in Keys : (k # wkey[w] /\ Uses(k, g)) => ~FilesApart
<1>1. PICK g \in Files :
        /\ IF tmp[wkey[w]] = NoFile THEN Unused(g) ELSE g = tmp[wkey[w]] /\ Unlocked(g)
        /\ tmp' = [tmp EXCEPT ![wkey[w]] = g]
        /\ bytes' = [bytes EXCEPT ![g] = << >>]
        /\ wfd' = [wfd EXCEPT ![w] = g]
  BY DEF OpenTmp
<1>2. /\ wpc[w] = "open" /\ wpc' = [wpc EXCEPT ![w] = Wrote(w, 0)]
      /\ UNCHANGED <<final, wkey, load, pos, solo, broken>>
  BY DEF OpenTmp
<1>3. wkey[w] \in Keys /\ load[w] \in Payloads /\ pos'[w] = 0
  BY <1>2, ColdCacheAssumption DEF TypeOK, WritesOK
<1>4. \A v \in Writers : (wfd[v] = g /\ wpc[v] = "write") => pos[v] = 0
  BY <1>1 DEF Unused, Unlocked
<1>5. /\ tmp'[wkey[w]] = g /\ \A k \in Keys : k # wkey[w] => tmp'[k] = tmp[k]
      /\ bytes'[g] = << >> /\ \A f \in Files : f # g => bytes'[f] = bytes[f]
      /\ wfd'[w] = g /\ wpc'[w] = Wrote(w, 0)
      /\ \A v \in Writers : v # w => wfd'[v] = wfd[v] /\ wpc'[v] = wpc[v]
  BY <1>1, <1>2, <1>3 DEF TypeOK
<1>6. ASSUME NEW k \in Keys, k # wkey[w], Uses(k, g)
      PROVE  ~FilesApart
  <2>1. CASE Unused(g)
    BY <1>6, <2>1 DEF Unused, Uses
  <2>2. CASE g = tmp[wkey[w]]
    BY <1>3, <1>6, <2>2 DEF FilesApart, Uses
  <2> QED
    BY <1>1, <2>1, <2>2
<1> QED
  BY <1>2, <1>3, <1>4, <1>5, <1>6

\* What a write of a cell does.
LEMMA WriteCellDoes ==
    ASSUME TypeOK, WritesOK, NEW w \in Writers, WriteCell(w)
    PROVE  LET m == pos[w] + 1
               f == wfd[w]
           IN  /\ wkey[w] \in Keys /\ f \in Files /\ load[w] \in Payloads
               /\ m \in Nat /\ m >= 1 /\ m <= Len(load[w]) /\ Len(load[w]) \in Nat
               /\ wpc[w] = "write" /\ pos'[w] = m /\ wpc'[w] = Wrote(w, m)
               /\ bytes'[f] \in Seq(Cells)
               /\ Len(bytes'[f]) = IF Len(bytes[f]) < m THEN m ELSE Len(bytes[f])
               /\ \A i \in 1 .. Len(bytes'[f]) :
                    bytes'[f][i] = IF i = m THEN load[w][m] ELSE bytes[f][i]
               /\ \A g \in Files : g # f => bytes'[g] = bytes[g]
               /\ \A v \in Writers : v # w => pos'[v] = pos[v] /\ wpc'[v] = wpc[v]
               /\ pos[w] = 0 => Unlocked(f)
               /\ UNCHANGED <<tmp, final, wkey, load, wfd, solo, broken>>
<1> DEFINE m == pos[w] + 1
           f == wfd[w]
           new == WithCell(bytes[f], m, load[w][m])
<1>1. /\ wpc[w] = "write" /\ bytes' = [bytes EXCEPT ![f] = new]
      /\ pos' = [pos EXCEPT ![w] = m] /\ wpc' = [wpc EXCEPT ![w] = Wrote(w, m)]
      /\ UNCHANGED <<tmp, final, wkey, load, wfd, solo, broken>>
      /\ pos[w] = 0 => Unlocked(f)
  BY DEF WriteCell
<1>2. /\ f \in Files /\ bytes[f] \in Seq(Cells) /\ load[w] \in Seq(Cells) /\ m \in Nat \ {0}
      /\ wkey[w] \in Keys /\ load[w] \in Payloads /\ Len(load[w]) \in Nat
  BY <1>1, ColdCacheAssumption DEF TypeOK
<1>3. m <= Len(load[w]) /\ m - 1 <= Len(bytes[f])
  BY <1>1, <1>2 DEF WritesOK, TypeOK
<1>4. load[w][m] \in Cells
  BY <1>2, <1>3
<1>5. /\ new \in Seq(Cells) /\ Len(new) = IF Len(bytes[f]) < m THEN m ELSE Len(bytes[f])
      /\ \A i \in 1 .. Len(new) : new[i] = IF i = m THEN load[w][m] ELSE bytes[f][i]
  <2> DEFINE old == bytes[f]
             cell == load[w][m]
             file == WithCell(old, m, cell)
  <2>1. old \in Seq(Cells) /\ cell \in Cells /\ m \in Nat \ {0} /\ m - 1 <= Len(old)
    BY <1>2, <1>3, <1>4
  <2>2. /\ file \in Seq(Cells) /\ Len(file) = IF Len(old) < m THEN m ELSE Len(old)
        /\ \A i \in 1 .. Len(file) : file[i] = IF i = m THEN cell ELSE old[i]
    <3> HIDE DEF old, cell, m
    <3> QED
      BY <2>1, CellWritten
  <2> QED
    BY <2>2, Zenon
<1> HIDE DEF new
<1>6. bytes'[f] = new /\ \A g \in Files : g # f => bytes'[g] = bytes[g]
  BY <1>1, <1>2 DEF TypeOK
<1>7. /\ pos'[w] = m /\ wpc'[w] = Wrote(w, m)
      /\ \A v \in Writers : v # w => pos'[v] = pos[v] /\ wpc'[v] = wpc[v]
  BY <1>1 DEF TypeOK
<1> QED
  BY <1>1, <1>2, <1>3, <1>5, <1>6, <1>7

\* A step that is neither writes nothing and starts no write.
LEMMA OthersWriteNothing ==
    ASSUME TypeOK, [Next]_vars, \A w \in Writers : ~OpenTmp(w) /\ ~WriteCell(w)
    PROVE  /\ bytes' = bytes
           /\ \A w \in Writers : wpc'[w] = "write" =>
                wpc[w] = "write" /\ wfd'[w] = wfd[w] /\ pos'[w] = pos[w] /\ load'[w] = load[w]
<1>1. ASSUME NEW w \in Writers, \/ \E k \in Keys, p \in Payloads : StartPut(w, k, p)
                               \/ PutStep(w)
      PROVE  /\ bytes' = bytes
             /\ \A v \in Writers : wpc'[v] = "write" =>
                  wpc[v] = "write" /\ wfd'[v] = wfd[v] /\ pos'[v] = pos[v] /\ load'[v] = load[v]
  BY <1>1 DEF StartPut, PutStep, OpenFails, WriteFails, Rename, RenameFails, Remove, EndPut,
     TypeOK
<1>2. ASSUME NEW r \in Readers, \/ \E k \in Keys : OpenFinal(r, k)
                               \/ ReadCell(r) \/ ReadEnds(r) \/ Serve(r)
      PROVE  UNCHANGED <<bytes, wpc, wfd, pos, load>>
  BY <1>2 DEF OpenFinal, ReadCell, ReadEnds, Serve
<1>3. CASE Exit \/ UNCHANGED vars
  BY <1>3 DEF Exit, vars
<1> QED
  BY <1>1, <1>2, <1>3 DEF Next

\* What the start of a Put does.
LEMMA PutStarted ==
    ASSUME TypeOK, NEW w \in Writers, NEW k \in Keys, NEW p \in Payloads, StartPut(w, k, p)
    PROVE  /\ wpc[w] = "idle" /\ wpc'[w] = "open" /\ wkey'[w] = k /\ load'[w] = p
           /\ \A v \in Writers : v # w =>
                /\ wpc'[v] = wpc[v] /\ wkey'[v] = wkey[v] /\ load'[v] = load[v]
                /\ solo'[v] => solo[v] /\ ~(wpc[v] # "idle" /\ wkey[v] = k)
           /\ solo'[w] => \A v \in Writers : wpc[v] # "idle" => wkey[v] # k
           /\ \A j \in Keys : ~broken'[j] => ~broken[j]
           /\ ~broken'[k] => \A v \in Writers :
                (wpc[v] # "idle" /\ wkey[v] = k) => Len(load[v]) = Len(p)
           /\ UNCHANGED <<tmp, final, bytes, wfd, pos>>
<1>1. /\ wpc[w] = "idle" /\ wpc' = [wpc EXCEPT ![w] = "open"]
      /\ wkey' = [wkey EXCEPT ![w] = k] /\ load' = [load EXCEPT ![w] = p]
      /\ UNCHANGED <<tmp, final, bytes, wfd, pos>>
  BY DEF StartPut
<1>2. \A v \in Writers :
        solo'[v] = IF v = w THEN Putting(k) = {} ELSE solo[v] /\ v \notin Putting(k)
  BY DEF StartPut
<1>3. broken' = [broken EXCEPT ![k] = broken[k] \/ \E v \in Putting(k) : Len(load[v]) # Len(p)]
  BY DEF StartPut
<1>4. \A v \in Writers : v \in Putting(k) <=> wpc[v] # "idle" /\ wkey[v] = k
  BY DEF Putting
<1>5. /\ \A j \in Keys : j # k => broken'[j] = broken[j]
      /\ broken'[k] = (broken[k] \/ \E v \in Putting(k) : Len(load[v]) # Len(p))
  BY <1>3 DEF TypeOK
<1>6. \A v \in Writers : v # w => (solo'[v] => solo[v] /\ v \notin Putting(k))
  BY <1>2
<1>7. solo'[w] => Putting(k) = {}
  BY <1>2
<1>8. /\ wpc'[w] = "open" /\ wkey'[w] = k /\ load'[w] = p
      /\ \A v \in Writers : v # w =>
           wpc'[v] = wpc[v] /\ wkey'[v] = wkey[v] /\ load'[v] = load[v]
  BY <1>1 DEF TypeOK
<1>9. \A v \in Writers : v # w => (solo'[v] => solo[v] /\ ~(wpc[v] # "idle" /\ wkey[v] = k))
  BY <1>4, <1>6, Zenon
<1>10. solo'[w] => \A v \in Writers : wpc[v] # "idle" => wkey[v] # k
  BY <1>4, <1>7
<1>11. \A j \in Keys : ~broken'[j] => ~broken[j]
  BY <1>5, Zenon
<1>12. ~broken'[k] => \A v \in Writers :
         (wpc[v] # "idle" /\ wkey[v] = k) => Len(load[v]) = Len(p)
  BY <1>4, <1>5, Zenon
<1> QED
  BY <1>1, <1>8, <1>9, <1>10, <1>11, <1>12, Zenon

\* A Put under way keeps its chunk and its data, and does not become sound.
LEMMA SoundStays ==
    ASSUME TypeOK, SoloAlone, [Next]_vars,
           NEW v \in Writers, wpc[v] # "idle", wpc'[v] # "idle"
    PROVE  /\ wkey'[v] = wkey[v] /\ load'[v] = load[v]
           /\ solo'[v] => solo[v]
           /\ Sound(v)' => Sound(v)
<1>0. wkey[v] \in Keys
  BY DEF TypeOK
<1>1. ASSUME NEW w \in Writers, NEW k \in Keys, NEW p \in Payloads, StartPut(w, k, p)
      PROVE  /\ wkey'[v] = wkey[v] /\ load'[v] = load[v]
             /\ solo'[v] => solo[v]
             /\ Sound(v)' => Sound(v)
  BY <1>0, <1>1, PutStarted DEF Sound
<1>2. ASSUME NEW w \in Writers,
             OpenTmp(w) \/ WriteCell(w) \/ RenameFails(w)
      PROVE  /\ wkey'[v] = wkey[v] /\ load'[v] = load[v]
             /\ solo'[v] => solo[v]
             /\ Sound(v)' => Sound(v)
  BY <1>2 DEF OpenTmp, WriteCell, RenameFails, Sound
<1>3. ASSUME NEW w \in Writers,
             OpenFails(w) \/ WriteFails(w) \/ Rename(w) \/ Remove(w)
      PROVE  /\ wkey'[v] = wkey[v] /\ load'[v] = load[v]
             /\ solo'[v] => solo[v]
             /\ Sound(v)' => Sound(v)
  <2>1. /\ wpc[w] # "idle" /\ v # w
        /\ \A u \in Writers : u # w =>
             wkey'[u] = wkey[u] /\ load'[u] = load[u] /\ solo'[u] = solo[u]
    BY <1>3 DEF OpenFails, WriteFails, Rename, Remove, EndPut, TypeOK
  <2>2. ~broken'[wkey[v]] => ~broken[wkey[v]] \/ solo[v]
    <3>1. CASE Rename(w)
      <4>1. broken' = [broken EXCEPT ![wkey[w]] = broken[wkey[w]] /\ ~solo[w]]
        BY <3>1 DEF Rename
      <4>2. CASE wkey[v] = wkey[w]
        <5>1. ~solo[w]
          BY <2>1, <4>2 DEF SoloAlone
        <5> QED
          BY <1>0, <4>1, <4>2, <5>1 DEF TypeOK
      <4>3. CASE wkey[v] # wkey[w]
        BY <1>0, <4>1, <4>3 DEF TypeOK
      <4> QED
        BY <4>2, <4>3
    <3>2. CASE WriteFails(w)
      <4>1. broken' = [broken EXCEPT ![wkey[w]] = TRUE]
        BY <3>2 DEF WriteFails
      <4> QED
        BY <1>0, <4>1 DEF TypeOK
    <3>3. CASE OpenFails(w) \/ Remove(w)
      BY <3>3 DEF OpenFails, Remove
    <3> QED
      BY <1>3, <3>1, <3>2, <3>3
  <2> QED
    BY <2>1, <2>2 DEF Sound
<1>4. ASSUME NEW r \in Readers, \/ \E k \in Keys : OpenFinal(r, k)
                               \/ ReadCell(r) \/ ReadEnds(r) \/ Serve(r)
      PROVE  /\ wkey'[v] = wkey[v] /\ load'[v] = load[v]
             /\ solo'[v] => solo[v]
             /\ Sound(v)' => Sound(v)
  BY <1>4 DEF OpenFinal, ReadCell, ReadEnds, Serve, Sound
<1>5. CASE Exit
  BY <1>5 DEF Exit
<1>6. CASE UNCHANGED vars
  BY <1>6 DEF vars, Sound
<1> QED
  BY <1>1, <1>2, <1>3, <1>4, <1>5, <1>6 DEF Next, PutStep

\* Only StartPut starts a Put.
LEMMA OnlyStarts ==
    ASSUME TypeOK, [Next]_vars, NEW v \in Writers, wpc[v] = "idle", wpc'[v] # "idle"
    PROVE  \E k \in Keys, p \in Payloads : StartPut(v, k, p)
<1>1. ASSUME NEW w \in Writers, NEW k \in Keys, NEW p \in Payloads, StartPut(w, k, p)
      PROVE  w = v
  BY <1>1 DEF StartPut, TypeOK
<1>2. ASSUME NEW w \in Writers, PutStep(w)
      PROVE  FALSE
  BY <1>2 DEF PutStep, OpenTmp, OpenFails, WriteCell, WriteFails, Rename, RenameFails, Remove,
              EndPut, TypeOK
<1>3. ASSUME NEW r \in Readers, \/ \E k \in Keys : OpenFinal(r, k)
                               \/ ReadCell(r) \/ ReadEnds(r) \/ Serve(r)
      PROVE  FALSE
  BY <1>3 DEF OpenFinal, ReadCell, ReadEnds, Serve
<1>4. ~Exit /\ ~UNCHANGED vars
  BY DEF Exit, vars
<1> QED
  BY <1>1, <1>2, <1>3, <1>4 DEF Next

\* A Put that another joins is no longer solo, and if their data are not as long,
\* no longer sound.
LEMMA SoundStep ==
    ASSUME TypeOK, SoloAlone, SameLengths, [Next]_vars
    PROVE  SoloAlone' /\ SameLengths'
<1>1. ASSUME NEW w \in Writers, NEW k \in Keys, NEW p \in Payloads, StartPut(w, k, p)
      PROVE  SoloAlone' /\ SameLengths'
  <2>1. /\ wpc[w] = "idle" /\ wkey'[w] = k /\ load'[w] = p
        /\ \A v \in Writers : v # w =>
             /\ wpc'[v] = wpc[v] /\ wkey'[v] = wkey[v] /\ load'[v] = load[v]
             /\ solo'[v] => solo[v] /\ ~(wpc[v] # "idle" /\ wkey[v] = k)
        /\ solo'[w] => \A v \in Writers : wpc[v] # "idle" => wkey[v] # k
        /\ ~broken'[k] => \A v \in Writers :
             (wpc[v] # "idle" /\ wkey[v] = k) => Len(load[v]) = Len(p)
    BY <1>1, PutStarted
  <2>2. SoloAlone'
    <3> SUFFICES ASSUME NEW v \in Writers, NEW u \in Writers, solo'[u], wpc'[u] # "idle",
                        wpc'[v] # "idle", wkey'[v] = wkey'[u], v # u
                 PROVE  FALSE
      BY DEF SoloAlone
    <3>1. CASE u = w
      BY <2>1, <3>1
    <3>2. CASE v = w
      BY <2>1, <3>2
    <3>3. CASE u # w /\ v # w
      BY <2>1, <3>3 DEF SoloAlone
    <3> QED
      BY <3>1, <3>2, <3>3
  <2>3. SameLengths'
    <3> SUFFICES ASSUME NEW v \in Writers, NEW u \in Writers, Sound(u)', wpc'[v] # "idle",
                        wkey'[v] = wkey'[u], v # u
                 PROVE  Len(load'[v]) = Len(load'[u])
      BY DEF SameLengths
    <3>0. wpc'[u] # "idle" /\ (solo'[u] \/ ~broken'[wkey'[u]])
      BY DEF Sound
    <3>1. CASE u = w
      BY <2>1, <3>0, <3>1
    <3>2. CASE v = w
      BY <2>1, <3>0, <3>2
    <3>3. CASE u # w /\ v # w
      <4>1. Sound(u)
        BY <2>1, <3>0, <3>3, SoundStays
      <4> QED
        BY <2>1, <3>3, <4>1 DEF SameLengths
    <3> QED
      BY <3>1, <3>2, <3>3
  <2> QED
    BY <2>2, <2>3
<1>2. CASE \A w \in Writers, k \in Keys, p \in Payloads : ~StartPut(w, k, p)
  <2>1. \A v \in Writers : wpc'[v] # "idle" => wpc[v] # "idle"
    BY <1>2, OnlyStarts
  <2>2. \A v \in Writers : wpc'[v] # "idle" =>
          /\ wkey'[v] = wkey[v] /\ load'[v] = load[v]
          /\ solo'[v] => solo[v]
          /\ Sound(v)' => Sound(v)
    BY <2>1, SoundStays
  <2>3. SoloAlone'
    BY <2>1, <2>2 DEF SoloAlone
  <2>4. SameLengths'
    <3>1. \A v \in Writers : Sound(v)' => wpc'[v] # "idle"
      BY DEF Sound
    <3> QED
      BY <2>1, <2>2, <3>1 DEF SameLengths
  <2> QED
    BY <2>3, <2>4
<1> QED
  BY <1>1, <1>2

\* No write leaves a tail, or disturbs another write.
LEMMA WritesStep ==
    ASSUME TypeOK, WritesOK, FilesApart, SoloAlone, SameLengths, NoTail, WritesKept,
           OneWriteAtATime, [Next]_vars
    PROVE  NoTail' /\ WritesKept' /\ OneWriteAtATime'
<1>1. ASSUME NEW w \in Writers, OpenTmp(w)
      PROVE  NoTail' /\ WritesKept' /\ OneWriteAtATime'
  <2>1. PICK g \in Files :
          /\ bytes'[g] = << >> /\ \A f \in Files : f # g => bytes'[f] = bytes[f]
          /\ wfd'[w] = g /\ pos'[w] = 0
          /\ \A v \in Writers : v # w => wfd'[v] = wfd[v] /\ wpc'[v] = wpc[v]
          /\ \A v \in Writers : (wfd[v] = g /\ wpc[v] = "write") => pos[v] = 0
          /\ UNCHANGED <<wkey, load, pos, solo, broken>>
    BY <1>1, OpenTmpDoes
  <2>2. NoTail'
    <3> SUFFICES ASSUME NEW v \in Writers, Sound(v)', wpc'[v] = "write"
                 PROVE  Len(bytes'[wfd'[v]]) <= Len(load[v])
      BY <2>1 DEF NoTail
    <3>1. Len(load[v]) \in Nat /\ Len(<< >>) = 0
      BY DEF TypeOK
    <3>2. CASE wfd'[v] = g
      BY <2>1, <3>1, <3>2
    <3>3. CASE wfd'[v] # g
      <4>1. v # w /\ wpc[v] = "write" /\ wfd'[v] = wfd[v] /\ wfd[v] \in Files
        BY <2>1, <3>3 DEF TypeOK
      <4>2. Sound(v)
        BY <2>1, <4>1 DEF Sound
      <4> QED
        BY <2>1, <3>3, <4>1, <4>2 DEF NoTail
    <3> QED
      BY <3>2, <3>3
  <2>3. WritesKept'
    <3> SUFFICES ASSUME NEW v \in Writers, wpc'[v] = "write", NEW i \in 1 .. pos'[v]
                 PROVE  bytes'[wfd'[v]][i] = load'[v][i]
      BY DEF WritesKept
    <3>1. v # w /\ pos'[v] # 0 /\ i \in 1 .. pos[v]
      BY <2>1
    <3>2. wpc[v] = "write" /\ wfd'[v] = wfd[v] /\ wfd[v] # g /\ wfd[v] \in Files
      BY <2>1, <3>1 DEF TypeOK
    <3> QED
      BY <2>1, <3>1, <3>2 DEF WritesKept
  <2>4. OneWriteAtATime'
    <3> SUFFICES ASSUME NEW u \in Writers, NEW v \in Writers, wpc'[u] = "write", wpc'[v] = "write",
                        wfd'[u] = wfd'[v], pos'[u] > 0, pos'[v] > 0
                 PROVE  u = v
      BY DEF OneWriteAtATime
    <3>1. u # w /\ v # w
      BY <2>1
    <3> QED
      BY <2>1, <3>1 DEF OneWriteAtATime
  <2> QED
    BY <2>2, <2>3, <2>4
<1>2. ASSUME NEW w \in Writers, WriteCell(w)
      PROVE  NoTail' /\ WritesKept' /\ OneWriteAtATime'
  <2> DEFINE m == pos[w] + 1
             f == wfd[w]
  <2>1. /\ f \in Files /\ load[w] \in Payloads
        /\ m \in Nat /\ m >= 1 /\ m <= Len(load[w]) /\ Len(load[w]) \in Nat
        /\ wpc[w] = "write" /\ pos'[w] = m
        /\ Len(bytes'[f]) = IF Len(bytes[f]) < m THEN m ELSE Len(bytes[f])
        /\ \A i \in 1 .. Len(bytes'[f]) :
             bytes'[f][i] = IF i = m THEN load[w][m] ELSE bytes[f][i]
        /\ \A g \in Files : g # f => bytes'[g] = bytes[g]
        /\ \A v \in Writers : v # w => pos'[v] = pos[v] /\ wpc'[v] = wpc[v]
        /\ pos[w] = 0 => Unlocked(f)
        /\ UNCHANGED <<wkey, load, wfd, solo, broken>> /\ wkey[w] \in Keys
    BY <1>2, WriteCellDoes
  <2>2. pos[w] \in Nat /\ Len(bytes[f]) \in Nat /\ pos[w] <= Len(bytes[f])
    BY <2>1 DEF TypeOK, WritesOK
  <2>3. ASSUME NEW v \in Writers, v # w, wpc[v] = "write", wfd[v] = f
        PROVE  pos[v] = 0
    <3>1. CASE pos[w] = 0
      BY <2>1, <2>3, <3>1 DEF Unlocked
    <3>2. CASE pos[w] > 0
      <4>1. ~(pos[v] > 0)
        BY <2>1, <2>3, <3>2 DEF OneWriteAtATime
      <4> QED
        BY <4>1 DEF TypeOK
    <3> QED
      BY <2>2, <3>1, <3>2
  <2>4. NoTail'
    <3> SUFFICES ASSUME NEW v \in Writers, Sound(v)', wpc'[v] = "write"
                 PROVE  Len(bytes'[wfd[v]]) <= Len(load[v])
      BY <2>1 DEF NoTail
    <3>1. wpc[v] = "write" /\ Sound(v) /\ wfd[v] \in Files
      BY <2>1 DEF Sound, TypeOK
    <3>2. Len(bytes[wfd[v]]) <= Len(load[v])
      BY <3>1 DEF NoTail
    <3>3. CASE wfd[v] = f
      <4>1. wkey[v] = wkey[w]
        <5>1. Uses(wkey[w], f)
          BY DEF Uses
        <5> QED
          BY <2>1, <3>3, <5>1, WriterOfFile
      <4>2. Len(load[w]) = Len(load[v])
        BY <2>1, <3>1, <4>1 DEF SameLengths
      <4> QED
        BY <2>1, <3>2, <3>3, <4>2
    <3>4. CASE wfd[v] # f
      BY <2>1, <3>1, <3>2, <3>4
    <3> QED
      BY <3>3, <3>4
  <2>5. WritesKept'
    <3> SUFFICES ASSUME NEW v \in Writers, wpc'[v] = "write", NEW i \in 1 .. pos'[v]
                 PROVE  bytes'[wfd[v]][i] = load[v][i]
      BY <2>1 DEF WritesKept
    <3>1. CASE v = w
      <4>1. i \in 1 .. Len(bytes'[f]) /\ (i = m \/ i \in 1 .. pos[w])
        BY <2>1, <2>2, <3>1
      <4>2. i \in 1 .. pos[w] => bytes[f][i] = load[w][i]
        BY <2>1 DEF WritesKept
      <4> QED
        BY <2>1, <3>1, <4>1, <4>2
    <3>2. CASE v # w
      <4>1. wpc[v] = "write" /\ pos'[v] = pos[v] /\ wfd[v] \in Files
        BY <2>1, <3>2 DEF TypeOK
      <4>2. wfd[v] # f
        BY <2>3, <3>2, <4>1
      <4> QED
        BY <2>1, <4>1, <4>2 DEF WritesKept
    <3> QED
      BY <3>1, <3>2
  <2>6. OneWriteAtATime'
    <3> SUFFICES ASSUME NEW u \in Writers, NEW v \in Writers, wpc'[u] = "write", wpc'[v] = "write",
                        wfd[u] = wfd[v], pos'[u] > 0, pos'[v] > 0, u # v
                 PROVE  FALSE
      BY <2>1 DEF OneWriteAtATime
    <3>1. CASE u = w
      BY <2>1, <2>3, <3>1
    <3>2. CASE v = w
      BY <2>1, <2>3, <3>2
    <3>3. CASE u # w /\ v # w
      BY <2>1, <3>3 DEF OneWriteAtATime
    <3> QED
      BY <3>1, <3>2, <3>3
  <2> QED
    BY <2>4, <2>5, <2>6
<1>3. CASE \A w \in Writers : ~OpenTmp(w) /\ ~WriteCell(w)
  <2>1. /\ bytes' = bytes
        /\ \A w \in Writers : wpc'[w] = "write" =>
             wpc[w] = "write" /\ wfd'[w] = wfd[w] /\ pos'[w] = pos[w] /\ load'[w] = load[w]
    BY <1>3, OthersWriteNothing
  <2>2. \A w \in Writers : wpc'[w] = "write" => (Sound(w)' => Sound(w))
    BY <2>1, SoundStays
  <2>3. NoTail'
    BY <2>1, <2>2 DEF NoTail
  <2> QED
    BY <2>1, <2>3 DEF WritesKept, OneWriteAtATime
<1> QED
  BY <1>1, <1>2, <1>3

\* The last cell of a sound write makes its file whole.
LEMMA WriteCompletes ==
    ASSUME TypeOK, WritesOK, NoTail, WritesKept, NEW w \in Writers, WriteCell(w), Sound(w)
    PROVE  bytes'[wfd[w]] \in Payloads \/ wpc'[w] = "write"
<1> DEFINE m == pos[w] + 1
           f == wfd[w]
<1>1. /\ f \in Files /\ load[w] \in Payloads
      /\ m \in Nat /\ m >= 1 /\ m <= Len(load[w]) /\ Len(load[w]) \in Nat
      /\ wpc[w] = "write" /\ wpc'[w] = Wrote(w, m)
      /\ bytes'[f] \in Seq(Cells)
      /\ Len(bytes'[f]) = IF Len(bytes[f]) < m THEN m ELSE Len(bytes[f])
      /\ \A i \in 1 .. Len(bytes'[f]) :
           bytes'[f][i] = IF i = m THEN load[w][m] ELSE bytes[f][i]
  BY WriteCellDoes
<1>2. CASE m = Len(load[w])
  <2>1. Len(bytes[f]) \in Nat /\ Len(bytes[f]) <= m /\ load[w] \in Seq(Cells)
    BY <1>1, <1>2 DEF NoTail, TypeOK
  <2>2. Len(bytes'[f]) = Len(load[w])
    BY <1>1, <1>2, <2>1
  <2>3. ASSUME NEW i \in 1 .. Len(load[w]) PROVE bytes'[f][i] = load[w][i]
    <3>1. i = m \/ i \in 1 .. pos[w]
      BY <1>1, <1>2 DEF TypeOK
    <3>2. i \in 1 .. pos[w] => bytes[f][i] = load[w][i]
      BY <1>1 DEF WritesKept
    <3> QED
      BY <1>1, <2>2, <3>1, <3>2
  <2>4. bytes'[f] = load[w]
    BY <1>1, <2>1, <2>2, <2>3
  <2> QED
    BY <1>1, <2>4
<1>3. CASE m # Len(load[w])
  BY <1>1, <1>3 DEF Wrote
<1> QED
  BY <1>2, <1>3

\* What a solo Put writes and moves stays its own.
LEMMA SoloFileStep ==
    ASSUME TypeOK, WritesOK, FilesApart, SoloAlone, NoTail, WritesKept, SoloFile, [Next]_vars
    PROVE  SoloFile'
<1> USE ColdCacheAssumption
<1> SUFFICES ASSUME NEW w \in Writers, solo'[w], wpc'[w] \in {"write", "rename"}
             PROVE  /\ wfd'[w] = tmp'[wkey'[w]]
                    /\ wpc'[w] = "rename" => bytes'[wfd'[w]] \in Payloads
  BY DEF SoloFile, Whole
<1>1. wpc[w] # "idle"
  <2>1. ASSUME wpc[w] = "idle" PROVE FALSE
    <3>1. PICK k \in Keys, p \in Payloads : StartPut(w, k, p)
      BY <2>1, OnlyStarts
    <3>2. wpc'[w] = "open"
      BY <3>1, PutStarted
    <3> QED
      BY <3>2
  <2> QED
    BY <2>1
<1>2. /\ solo[w] /\ wkey'[w] = wkey[w] /\ wkey[w] \in Keys
      /\ Sound(w)
  <2>1. wkey'[w] = wkey[w] /\ solo[w]
    BY <1>1, SoundStays
  <2> QED
    BY <1>1, <2>1 DEF TypeOK, Sound
<1>3. \A u \in Writers : (wpc[u] # "idle" /\ u # w) => wkey[u] # wkey[w]
  BY <1>1, <1>2 DEF SoloAlone
<1>4. wpc[w] \in {"write", "rename"} =>
        /\ wfd[w] = tmp[wkey[w]] /\ wfd[w] \in Files /\ Uses(wkey[w], wfd[w])
        /\ wpc[w] = "rename" => bytes[wfd[w]] \in Payloads
  BY <1>2 DEF SoloFile, Whole, TypeOK, Uses
<1>5. ASSUME wpc'[w] = wpc[w], wfd'[w] = wfd[w], tmp'[wkey[w]] = tmp[wkey[w]],
             wpc[w] \in {"write", "rename"} => bytes'[wfd[w]] = bytes[wfd[w]]
      PROVE  /\ wfd'[w] = tmp'[wkey'[w]]
             /\ wpc'[w] = "rename" => bytes'[wfd'[w]] \in Payloads
  BY <1>2, <1>4, <1>5
<1>6. ASSUME NEW u \in Writers, NEW k \in Keys, NEW p \in Payloads, StartPut(u, k, p)
      PROVE  /\ wfd'[w] = tmp'[wkey'[w]]
             /\ wpc'[w] = "rename" => bytes'[wfd'[w]] \in Payloads
  <2>1. u # w /\ wpc'[w] = wpc[w] /\ UNCHANGED <<tmp, bytes, wfd>>
    BY <1>1, <1>6, PutStarted
  <2> QED
    BY <1>5, <2>1
<1>7. ASSUME NEW u \in Writers, OpenTmp(u)
      PROVE  /\ wfd'[w] = tmp'[wkey'[w]]
             /\ wpc'[w] = "rename" => bytes'[wfd'[w]] \in Payloads
  <2>1. PICK g \in Files :
          /\ wkey[u] \in Keys /\ load[u] \in Payloads
          /\ tmp'[wkey[u]] = g /\ \A i \in Keys : i # wkey[u] => tmp'[i] = tmp[i]
          /\ bytes'[g] = << >> /\ \A f \in Files : f # g => bytes'[f] = bytes[f]
          /\ wfd'[u] = g /\ wpc[u] = "open" /\ wpc'[u] = Wrote(u, 0)
          /\ \A v \in Writers : v # u => wfd'[v] = wfd[v] /\ wpc'[v] = wpc[v]
          /\ \A i \in Keys : (i # wkey[u] /\ Uses(i, g)) => ~FilesApart
    BY <1>7, OpenTmpDoes
  <2>2. CASE u = w
    <3>1. wpc'[w] = "rename" => load[w] = << >>
      BY <2>1, <2>2 DEF Wrote, TypeOK
    <3> QED
      BY <1>2, <2>1, <2>2, <3>1
  <2>3. CASE u # w
    <3>1. wkey[u] # wkey[w]
      BY <1>3, <2>1, <2>3
    <3>2. wpc[w] \in {"write", "rename"} => wfd[w] # g
      BY <1>2, <1>4, <2>1, <3>1
    <3> QED
      BY <1>2, <1>4, <1>5, <2>1, <2>3, <3>1, <3>2
  <2> QED
    BY <2>2, <2>3
<1>8. ASSUME NEW u \in Writers, WriteCell(u)
      PROVE  /\ wfd'[w] = tmp'[wkey'[w]]
             /\ wpc'[w] = "rename" => bytes'[wfd'[w]] \in Payloads
  <2>1. /\ wkey[u] \in Keys /\ wfd[u] \in Files /\ wpc[u] = "write"
        /\ \A g \in Files : g # wfd[u] => bytes'[g] = bytes[g]
        /\ \A v \in Writers : v # u => wpc'[v] = wpc[v]
        /\ UNCHANGED <<tmp, wfd>>
    BY <1>8, WriteCellDoes
  <2>2. CASE u = w
    BY <1>2, <1>4, <1>8, <2>1, <2>2, WriteCompletes
  <2>3. CASE u # w
    <3>1. wpc[w] \in {"write", "rename"} => wfd[w] # wfd[u]
      <4>1. wkey[u] # wkey[w]
        BY <1>3, <2>1, <2>3
      <4> QED
        BY <1>2, <1>4, <2>1, <4>1, WriterOfFile
    <3> QED
      BY <1>4, <1>5, <2>1, <2>3, <3>1
  <2> QED
    BY <2>2, <2>3
<1>9. ASSUME NEW u \in Writers, OpenFails(u) \/ WriteFails(u) \/ Rename(u) \/ Remove(u)
      PROVE  /\ wfd'[w] = tmp'[wkey'[w]]
             /\ wpc'[w] = "rename" => bytes'[wfd'[w]] \in Payloads
  <2>1. /\ wpc[u] # "idle" /\ bytes' = bytes /\ wpc' = [wpc EXCEPT ![u] = "idle"]
        /\ wfd' = [wfd EXCEPT ![u] = NoFile]
        /\ tmp' = tmp \/ tmp' = [tmp EXCEPT ![wkey[u]] = NoFile]
    BY <1>9 DEF OpenFails, WriteFails, Rename, Remove, EndPut
  <2>2. u # w
    BY <2>1 DEF TypeOK
  <2>3. wpc'[w] = wpc[w] /\ wfd'[w] = wfd[w] /\ tmp'[wkey[w]] = tmp[wkey[w]]
    BY <1>2, <1>3, <2>1, <2>2 DEF TypeOK
  <2> QED
    BY <1>5, <2>1, <2>3
<1>10. ASSUME NEW u \in Writers, RenameFails(u)
       PROVE  /\ wfd'[w] = tmp'[wkey'[w]]
              /\ wpc'[w] = "rename" => bytes'[wfd'[w]] \in Payloads
  <2>1. wpc' = [wpc EXCEPT ![u] = "remove"] /\ UNCHANGED <<tmp, bytes, wfd>>
    BY <1>10 DEF RenameFails
  <2>2. wpc'[w] = wpc[w]
    BY <2>1 DEF TypeOK
  <2> QED
    BY <1>5, <2>1, <2>2
<1>11. ASSUME NEW r \in Readers, \/ \E k \in Keys : OpenFinal(r, k)
                                \/ ReadCell(r) \/ ReadEnds(r) \/ Serve(r)
       PROVE  /\ wfd'[w] = tmp'[wkey'[w]]
              /\ wpc'[w] = "rename" => bytes'[wfd'[w]] \in Payloads
  BY <1>5, <1>11 DEF OpenFinal, ReadCell, ReadEnds, Serve
<1>12. CASE Exit
  BY <1>12 DEF Exit
<1>13. CASE UNCHANGED vars
  BY <1>5, <1>13 DEF vars
<1> QED
  BY <1>6, <1>7, <1>8, <1>9, <1>10, <1>11, <1>12, <1>13 DEF Next, PutStep

\* Chunks mend, whatever their Puts do.
LEMMA HealingStep ==
    ASSUME TypeOK, TypeOK', WritesOK, FilesApart, RaceInv, [Next]_vars
    PROVE  Healing'
<1> USE ColdCacheAssumption DEF RaceInv
<1> SUFFICES ASSUME NEW k \in Keys, ~broken'[k]
             PROVE  /\ tmp'[k] # NoFile => Mending(tmp[k])' /\ Attended(k)'
                    /\ final'[k] # NoFile => Mending(final[k])'
  BY DEF Healing
<1>1. ASSUME NEW w \in Writers, NEW j \in Keys, NEW p \in Payloads, StartPut(w, j, p)
      PROVE  /\ tmp'[k] # NoFile => Mending(tmp[k])' /\ Attended(k)'
             /\ final'[k] # NoFile => Mending(final[k])'
  <2>1. /\ UNCHANGED <<tmp, final, bytes, wfd>> /\ wpc[w] = "idle" /\ ~broken[k]
        /\ \A v \in Writers : v # w => wpc'[v] = wpc[v] /\ wkey'[v] = wkey[v]
    BY <1>1, PutStarted
  <2> QED
    BY <2>1, HealingFrame
<1>2. ASSUME NEW w \in Writers, OpenTmp(w)
      PROVE  /\ tmp'[k] # NoFile => Mending(tmp[k])' /\ Attended(k)'
             /\ final'[k] # NoFile => Mending(final[k])'
  <2>1. PICK g \in Files :
          /\ wkey[w] \in Keys /\ load[w] \in Payloads
          /\ tmp'[wkey[w]] = g /\ \A i \in Keys : i # wkey[w] => tmp'[i] = tmp[i]
          /\ bytes'[g] = << >> /\ \A f \in Files : f # g => bytes'[f] = bytes[f]
          /\ wfd'[w] = g /\ wpc[w] = "open" /\ wpc'[w] = Wrote(w, 0)
          /\ \A v \in Writers : v # w => wfd'[v] = wfd[v] /\ wpc'[v] = wpc[v]
          /\ UNCHANGED <<final, wkey, load, broken>>
          /\ \A i \in Keys : (i # wkey[w] /\ Uses(i, g)) => ~FilesApart
    BY <1>2, OpenTmpDoes
  <2>2. CASE k # wkey[w]
    <3>1. \A f \in Files : Uses(k, f) => bytes'[f] = bytes[f]
      BY <2>1, <2>2
    <3> QED
      BY <2>1, <2>2, <3>1, HealingFrame
  <2>3. CASE k = wkey[w]
    <3>1. wpc'[w] = "write" \/ (wpc'[w] = "rename" /\ Len(load[w]) = 0)
      BY <2>1 DEF Wrote
    <3>2. bytes'[g] \in Payloads \/ \E v \in Writers : wfd'[v] = g /\ wpc'[v] = "write"
      <4>1. CASE wpc'[w] = "write"
        BY <2>1, <4>1
      <4>2. CASE wpc'[w] = "rename" /\ Len(load[w]) = 0
        <5>1. load[w] \in Seq(Cells)
          BY DEF TypeOK
        <5>2. load[w] = << >>
          BY <4>2, <5>1
        <5> QED
          BY <2>1, <5>2
      <4> QED
        BY <3>1, <4>1, <4>2
    <3>3. Attended(k)'
      BY <2>1, <2>3, <3>1 DEF Attended
    <3>4. ASSUME final[k] # NoFile, final[k] # g
          PROVE  \/ bytes'[final[k]] \in Payloads
                 \/ \E v \in Writers : wfd'[v] = final[k] /\ wpc'[v] = "write"
      <4>1. final[k] \in Files /\ Mending(final[k])
        BY <2>1, <3>4 DEF TypeOK, Healing
      <4>2. ASSUME NEW v \in Writers, wfd[v] = final[k], wpc[v] = "write"
            PROVE  wfd'[v] = final[k] /\ wpc'[v] = "write"
        BY <2>1, <4>2
      <4> QED
        BY <2>1, <3>4, <4>1, <4>2 DEF Mending, Whole
    <3>5. tmp'[k] = g /\ final'[k] = final[k]
      BY <2>1, <2>3
    <3>6. Mending(tmp[k])'
      BY <3>2, <3>5 DEF Mending, Whole
    <3>7. final'[k] # NoFile => Mending(final[k])'
      BY <3>2, <3>4, <3>5 DEF Mending, Whole
    <3> QED
      BY <3>3, <3>6, <3>7
  <2> QED
    BY <2>2, <2>3
<1>3. ASSUME NEW w \in Writers, WriteCell(w)
      PROVE  /\ tmp'[k] # NoFile => Mending(tmp[k])' /\ Attended(k)'
             /\ final'[k] # NoFile => Mending(final[k])'
  <2> DEFINE m == pos[w] + 1
             f == wfd[w]
  <2>1. /\ wkey[w] \in Keys /\ f \in Files /\ load[w] \in Payloads
        /\ m \in Nat /\ m >= 1 /\ m <= Len(load[w]) /\ Len(load[w]) \in Nat
        /\ wpc[w] = "write" /\ wpc'[w] = Wrote(w, m)
        /\ bytes'[f] \in Seq(Cells)
        /\ Len(bytes'[f]) = IF Len(bytes[f]) < m THEN m ELSE Len(bytes[f])
        /\ \A i \in 1 .. Len(bytes'[f]) :
             bytes'[f][i] = IF i = m THEN load[w][m] ELSE bytes[f][i]
        /\ \A g \in Files : g # f => bytes'[g] = bytes[g]
        /\ \A v \in Writers : v # w => wpc'[v] = wpc[v]
        /\ UNCHANGED <<tmp, final, wkey, load, wfd, solo, broken>>
    BY <1>3, WriteCellDoes
  <2>2. CASE k # wkey[w]
    <3>1. \A h \in Files : Uses(k, h) => bytes'[h] = bytes[h]
      <4>1. Uses(wkey[w], f)
        BY DEF Uses
      <4> QED
        BY <2>1, <2>2, <4>1 DEF FilesApart
    <3>2. \A v \in Writers : wkey[v] = k => v # w
      BY <2>2
    <3> QED
      BY <2>1, <3>1, <3>2, HealingFrame
  <2>3. CASE k = wkey[w]
    <3>1. bytes'[f] \in Payloads \/ wpc'[w] = "write"
      <4>1. Sound(w)
        BY <2>1, <2>3 DEF Sound
      <4> QED
        BY <1>3, <4>1, WriteCompletes
    <3>2. ASSUME NEW h \in Files, Mending(h) PROVE Mending(h)'
      <4>1. CASE h = f
        BY <2>1, <3>1, <4>1 DEF Mending, Whole
      <4>2. CASE h # f
        <5>1. \A v \in Writers : (wfd[v] = h /\ wpc[v] = "write") => wpc'[v] = "write"
          BY <2>1, <4>2
        <5> QED
          BY <2>1, <3>2, <4>2, <5>1 DEF Mending, Whole
      <4> QED
        BY <4>1, <4>2
    <3>3. wpc'[w] \in {"write", "rename"}
      BY <2>1 DEF Wrote
    <3>4. Attended(k) => Attended(k)'
      BY <2>1, <3>3 DEF Attended
    <3>5. /\ tmp[k] # NoFile => tmp[k] \in Files /\ Mending(tmp[k]) /\ Attended(k)
          /\ final[k] # NoFile => final[k] \in Files /\ Mending(final[k])
      BY <2>1 DEF TypeOK, Healing
    <3>6. tmp'[k] = tmp[k] /\ final'[k] = final[k]
      BY <2>1
    <3>7. tmp[k] # NoFile => \A h : h = tmp[k] => Mending(h)'
      BY <3>2, <3>5
    <3>8. final[k] # NoFile => \A h : h = final[k] => Mending(h)'
      BY <3>2, <3>5
    <3> QED
      BY <3>4, <3>5, <3>6, <3>7, <3>8 DEF Mending, Whole
  <2> QED
    BY <2>2, <2>3
<1>4. ASSUME NEW w \in Writers, OpenFails(w) \/ WriteFails(w) \/ RenameFails(w)
      PROVE  /\ tmp'[k] # NoFile => Mending(tmp[k])' /\ Attended(k)'
             /\ final'[k] # NoFile => Mending(final[k])'
  <2>1. /\ UNCHANGED <<tmp, final, bytes>> /\ ~broken[k]
        /\ wpc[w] = "write" => k # wkey[w]
        /\ wpc[w] = "rename" => wpc'[w] = "remove" /\ wkey'[w] = wkey[w]
        /\ \A v \in Writers : v # w => wpc'[v] = wpc[v] /\ wkey'[v] = wkey[v] /\ wfd'[v] = wfd[v]
        /\ wpc[w] \in {"open", "write", "rename"}
    BY <1>4 DEF OpenFails, WriteFails, RenameFails, EndPut, TypeOK
  <2> QED
    BY <2>1, HealingFrame
<1>5. ASSUME NEW w \in Writers, Rename(w) \/ Remove(w)
      PROVE  /\ tmp'[k] # NoFile => Mending(tmp[k])' /\ Attended(k)'
             /\ final'[k] # NoFile => Mending(final[k])'
  <2>1. /\ UNCHANGED bytes /\ wkey[w] \in Keys
        /\ tmp' = [tmp EXCEPT ![wkey[w]] = NoFile]
        /\ \/ Remove(w) /\ final' = final /\ broken' = broken
           \/ /\ Rename(w) /\ wpc[w] = "rename"
              /\ final' = [final EXCEPT ![wkey[w]] = tmp[wkey[w]]]
              /\ broken' = [broken EXCEPT ![wkey[w]] = broken[wkey[w]] /\ ~solo[w]]
        /\ wpc[w] \in {"rename", "remove"}
        /\ \A v \in Writers : v # w => wpc'[v] = wpc[v] /\ wkey'[v] = wkey[v] /\ wfd'[v] = wfd[v]
    BY <1>5 DEF Rename, Remove, EndPut, TypeOK
  <2>2. /\ tmp'[k] = IF k = wkey[w] THEN NoFile ELSE tmp[k]
        /\ final'[k] = final[k] \/ final'[k] = tmp[k]
    BY <2>1 DEF TypeOK
  <2>3. CASE ~broken[k]
    BY <2>1, <2>2, <2>3, HealingFrame
  <2>4. CASE broken[k]
    <3>1. k = wkey[w] /\ wpc[w] = "rename" /\ final'[k] = tmp[k] /\ solo[w]
      BY <2>1, <2>4 DEF TypeOK
    <3>2. wfd[w] = tmp[k] /\ bytes[wfd[w]] \in Payloads
      BY <3>1 DEF SoloFile, Whole
    <3> QED
      BY <2>1, <2>2, <3>1, <3>2 DEF Mending, Whole
  <2> QED
    BY <2>3, <2>4 DEF TypeOK
<1>6. ASSUME NEW r \in Readers, \/ \E j \in Keys : OpenFinal(r, j)
                               \/ ReadCell(r) \/ ReadEnds(r) \/ Serve(r)
      PROVE  /\ tmp'[k] # NoFile => Mending(tmp[k])' /\ Attended(k)'
             /\ final'[k] # NoFile => Mending(final[k])'
  <2>1. UNCHANGED <<tmp, final, bytes, wpc, wkey, wfd, broken>>
    BY <1>6 DEF OpenFinal, ReadCell, ReadEnds, Serve
  <2> QED
    BY <2>1, HealingFrame
<1>7. CASE Exit
  <2>1. /\ UNCHANGED <<tmp, final, bytes>> /\ ~broken[k] /\ Putting(k) = {}
    BY <1>7 DEF Exit
  <2>2. \A w \in Writers : wkey[w] = k => wpc[w] = "idle"
    BY <2>1 DEF Putting
  <2> QED
    BY <2>1, <2>2, HealingFrame
<1>8. CASE UNCHANGED vars
  BY <1>8, HealingFrame DEF vars
<1> QED
  BY <1>1, <1>2, <1>3, <1>4, <1>5, <1>6, <1>7, <1>8 DEF Next, PutStep

\* When no Put of an unbroken chunk runs, nothing is left to mend.
LEMMA HealedWhenQuiet ==
    ASSUME Inv, RaceInv
    PROVE  RacesHeal
<1> SUFFICES ASSUME NEW k \in Keys, Putting(k) = {}, ~broken[k]
             PROVE  tmp[k] = NoFile /\ (final[k] # NoFile => Whole(final[k]))
  BY DEF RacesHeal
<1>1. \A w \in Writers : wkey[w] = k => wpc[w] = "idle"
  BY DEF Putting
<1>2. tmp[k] = NoFile
  BY <1>1 DEF RaceInv, Healing, Attended
<1>3. ASSUME final[k] # NoFile
      PROVE  Whole(final[k])
  <2>1. final[k] \in Files /\ Uses(k, final[k]) /\ Mending(final[k])
    BY <1>3 DEF Inv, TypeOK, Uses, RaceInv, Healing
  <2>2. \A w \in Writers : wfd[w] = final[k] => wkey[w] = k
    BY <2>1, WriterOfFile DEF Inv
  <2> QED
    BY <1>1, <2>1, <2>2 DEF Mending
<1> QED
  BY <1>2, <1>3

\* Puts of one chunk that race, and rename or remove each other's ".tmp", leave a
\* whole file and no ".tmp" once they are over, unless data of different lengths met,
\* a write failed or the process ended; and after any of these, the next Put that is
\* alone and succeeds mends the chunk.
THEOREM RacesAlwaysHeal == Spec => []RacesHeal
<1>1. Init => RaceInv
  BY DEF Init, RaceInv, SoloAlone, SameLengths, Sound, NoTail, WritesKept, OneWriteAtATime,
         SoloFile, Healing
<1>2. Inv /\ RaceInv /\ [Next]_vars => RaceInv'
  <2> SUFFICES ASSUME Inv, RaceInv, [Next]_vars PROVE RaceInv'
    OBVIOUS
  <2>1. SoloAlone' /\ SameLengths'
    BY SoundStep DEF Inv, RaceInv
  <2>2. NoTail' /\ WritesKept' /\ OneWriteAtATime'
    BY WritesStep DEF Inv, RaceInv
  <2>3. SoloFile'
    BY SoloFileStep DEF Inv, RaceInv
  <2>4. Healing'
    BY TypeStep, HealingStep DEF Inv
  <2> QED
    BY <2>1, <2>2, <2>3, <2>4 DEF RaceInv
<1>3. Inv /\ RaceInv => RacesHeal
  BY HealedWhenQuiet
<1> QED
  BY <1>1, <1>2, <1>3, InvInit, InvStep, PTL DEF Spec

=============================================================================
