----------------------------- MODULE ColdCache ------------------------------
(***************************************************************************)
(* The chunk files of the disk tier: ColdCache.Put and Get                 *)
(* (src/internal/cache/disk.go:22-44) on a POSIX file system, as eviction  *)
(* goroutines (evictOnHot, src/cmd/proxy/main.go:45-55) and handlers run   *)
(* them, with the exit of the process, which waits for neither.            *)
(*                                                                         *)
(* A chunk has two names, its path and the path with ".tmp".  A name       *)
(* refers to a file object; an open file stays usable when its name moves. *)
(* A step is one system call, but for the bytes of a read or a write,      *)
(* which other goroutines see arrive one cell at a time.  The file system  *)
(* lets one write (or truncation) of a file go on at a time.               *)
(***************************************************************************)
EXTENDS Naturals, Sequences

CONSTANTS
    Writers,    \* goroutines started by evictOnHot
    Readers,    \* handlers that look a chunk up
    Keys,       \* cache.ChunkKey values, with different paths
    Files,      \* file objects; unreferenced ones are reused
    Cells,      \* what a cell of a chunk may hold
    Payloads,   \* contents that an evicted chunk may have
    NoFile, NoKey

ASSUME ColdCacheAssumption ==
    /\ NoFile \notin Files
    /\ NoKey \notin Keys
    /\ Payloads \subseteq Seq(Cells)

VARIABLES
    tmp,        \* the file that path + ".tmp" of each chunk names
    final,      \* the file that the path of each chunk names
    bytes,      \* the contents of each file
    wpc, wkey,  \* where each writer is, and its chunk
    load,       \* the data it was given
    wfd,        \* the file it has open
    pos,        \* cells it has written
    rpc, rkey,  \* where each reader is, and its chunk
    rfd,        \* the file it has open
    got,        \* cells it has read
    overlapped, \* history: two Puts of the chunk have run at the same time
    solo,       \* history: no other Put of its chunk has run since the writer's began
    broken      \* history: what may have spoilt the chunk (a write failed, the process
                \* ended in a Put, Puts of data of different lengths overlapped), and
                \* no Put has gone through undisturbed since

fileVars   == <<tmp, final, bytes>>
writerVars == <<wpc, wkey, load, wfd, pos>>
readerVars == <<rpc, rkey, rfd, got>>
vars == <<tmp, final, bytes, wpc, wkey, load, wfd, pos, rpc, rkey, rfd, got,
          overlapped, solo, broken>>

Init ==
    /\ tmp = [k \in Keys |-> NoFile]
    /\ final = [k \in Keys |-> NoFile]
    /\ bytes = [f \in Files |-> << >>]
    /\ wpc = [w \in Writers |-> "idle"]
    /\ wkey = [w \in Writers |-> NoKey]
    /\ load = [w \in Writers |-> << >>]
    /\ wfd = [w \in Writers |-> NoFile]
    /\ pos = [w \in Writers |-> 0]
    /\ rpc = [r \in Readers |-> "idle"]
    /\ rkey = [r \in Readers |-> NoKey]
    /\ rfd = [r \in Readers |-> NoFile]
    /\ got = [r \in Readers |-> << >>]
    /\ overlapped = [k \in Keys |-> FALSE]
    /\ solo = [w \in Writers |-> FALSE]
    /\ broken = [k \in Keys |-> FALSE]

\* Goroutines inside ColdCache.Put for chunk k.
Putting(k) == {w \in Writers : wpc[w] # "idle" /\ wkey[w] = k}

Unused(f) ==
    /\ \A k \in Keys : tmp[k] # f /\ final[k] # f
    /\ \A w \in Writers : wfd[w] # f
    /\ \A r \in Readers : rfd[r] # f

\* No write of file f is half done.
Unlocked(f) == \A w \in Writers : wfd[w] = f /\ wpc[w] = "write" => pos[w] = 0

----------------------------------------------------------------------------
(* ColdCache.Put *)

\* The hot tier evicted chunk k, which held p; a goroutine has started.
StartPut(w, k, p) ==
    /\ wpc[w] = "idle"
    /\ wpc' = [wpc EXCEPT ![w] = "open"]
    /\ wkey' = [wkey EXCEPT ![w] = k]
    /\ load' = [load EXCEPT ![w] = p]
    /\ overlapped' = [overlapped EXCEPT ![k] = @ \/ Putting(k) # {}]
    /\ solo' = [v \in Writers |-> IF v = w THEN Putting(k) = {} ELSE solo[v] /\ v \notin Putting(k)]
    /\ broken' = [broken EXCEPT ![k] = @ \/ \E v \in Putting(k) : Len(load[v]) # Len(p)]
    /\ UNCHANGED <<tmp, final, bytes, wfd, pos, rpc, rkey, rfd, got>>

\* Put returns, with or without an error that evictOnHot only logs.
EndPut(w) ==
    /\ wpc' = [wpc EXCEPT ![w] = "idle"]
    /\ wkey' = [wkey EXCEPT ![w] = NoKey]
    /\ load' = [load EXCEPT ![w] = << >>]
    /\ wfd' = [wfd EXCEPT ![w] = NoFile]
    /\ pos' = [pos EXCEPT ![w] = 0]
    /\ solo' = [solo EXCEPT ![w] = FALSE]

\* Where a writer with m cells written goes on.
Wrote(w, m) == IF m = Len(load[w]) THEN "rename" ELSE "write"

\* Slip: writes the chunk file itself.
OpenInPlace(w) ==
    /\ wpc[w] = "open"
    /\ \E f \in Files :
        /\ IF final[wkey[w]] = NoFile THEN Unused(f) ELSE f = final[wkey[w]] /\ Unlocked(f)
        /\ final' = [final EXCEPT ![wkey[w]] = f]
        /\ tmp' = [tmp EXCEPT ![wkey[w]] = f]
        /\ bytes' = [bytes EXCEPT ![f] = << >>]
        /\ wfd' = [wfd EXCEPT ![w] = f]
    /\ wpc' = [wpc EXCEPT ![w] = Wrote(w, 0)]
    /\ UNCHANGED <<wkey, load, pos, rpc, rkey, rfd, got, overlapped, solo, broken>>

\* os.WriteFile opens path + ".tmp" with O_CREATE and O_TRUNC: a new file, or
\* the one another Put of the chunk has left there or is still writing.
OpenTmp(w) ==
    /\ wpc[w] = "open"
    /\ \E f \in Files :
        /\ IF tmp[wkey[w]] = NoFile THEN Unused(f) ELSE f = tmp[wkey[w]] /\ Unlocked(f)
        /\ tmp' = [tmp EXCEPT ![wkey[w]] = f]
        /\ bytes' = [bytes EXCEPT ![f] = << >>]
        /\ wfd' = [wfd EXCEPT ![w] = f]
    /\ wpc' = [wpc EXCEPT ![w] = Wrote(w, 0)]
    /\ UNCHANGED <<final, wkey, load, pos, rpc, rkey, rfd, got, overlapped, solo, broken>>

\* MkdirAll or the open fails.
OpenFails(w) ==
    /\ wpc[w] = "open"
    /\ EndPut(w)
    /\ UNCHANGED <<tmp, final, bytes, rpc, rkey, rfd, got, overlapped, broken>>

\* The contents old with its cell m overwritten or, one past its end, added.
WithCell(old, m, cell) ==
    [i \in 1 .. (IF Len(old) < m THEN m ELSE Len(old)) |-> IF i = m THEN cell ELSE old[i]]

\* The next cell reaches the file, over what it held there.
WriteCell(w) ==
    /\ wpc[w] = "write"
    /\ pos[w] = 0 => Unlocked(wfd[w])
    /\ LET m == pos[w] + 1 IN
        /\ bytes' = [bytes EXCEPT ![wfd[w]] = WithCell(@, m, load[w][m])]
        /\ pos' = [pos EXCEPT ![w] = m]
        /\ wpc' = [wpc EXCEPT ![w] = Wrote(w, m)]
    /\ UNCHANGED <<tmp, final, wkey, load, wfd, rpc, rkey, rfd, got, overlapped, solo, broken>>

\* Slip: goes on to the rename after a failed write.
WriteFailsIgnored(w) ==
    /\ wpc[w] = "write"
    /\ wpc' = [wpc EXCEPT ![w] = "rename"]
    /\ UNCHANGED <<tmp, final, bytes, wkey, load, wfd, pos, rpc, rkey, rfd, got,
                   overlapped, solo, broken>>

\* The disk is full: WriteFile returns the error, and ".tmp" stays.
WriteFails(w) ==
    /\ wpc[w] = "write"
    /\ broken' = [broken EXCEPT ![wkey[w]] = TRUE]
    /\ EndPut(w)
    /\ UNCHANGED <<tmp, final, bytes, rpc, rkey, rfd, got, overlapped>>

\* os.Rename moves whatever ".tmp" names now.
Rename(w) ==
    /\ wpc[w] = "rename"
    /\ tmp[wkey[w]] # NoFile
    /\ final' = [final EXCEPT ![wkey[w]] = tmp[wkey[w]]]
    /\ tmp' = [tmp EXCEPT ![wkey[w]] = NoFile]
    /\ broken' = [broken EXCEPT ![wkey[w]] = @ /\ ~solo[w]]
    /\ EndPut(w)
    /\ UNCHANGED <<bytes, rpc, rkey, rfd, got, overlapped>>

\* os.Rename fails: another Put has moved ".tmp" already, or the disk errs.
RenameFails(w) ==
    /\ wpc[w] = "rename"
    /\ wpc' = [wpc EXCEPT ![w] = "remove"]
    /\ UNCHANGED <<tmp, final, bytes, wkey, load, wfd, pos, rpc, rkey, rfd, got,
                   overlapped, solo, broken>>

\* os.Remove(tmp), whosever it is by now.
Remove(w) ==
    /\ wpc[w] = "remove"
    /\ tmp' = [tmp EXCEPT ![wkey[w]] = NoFile]
    /\ EndPut(w)
    /\ UNCHANGED <<final, bytes, rpc, rkey, rfd, got, overlapped, broken>>

----------------------------------------------------------------------------
(* ColdCache.Get: os.ReadFile of the path. *)

\* Slip: does not see that the file is missing.
OpenFinalUnchecked(r, k) ==
    /\ rpc[r] = "idle"
    /\ rpc' = [rpc EXCEPT ![r] = "read"]
    /\ rkey' = [rkey EXCEPT ![r] = k]
    /\ rfd' = [rfd EXCEPT ![r] = final[k]]
    /\ UNCHANGED <<tmp, final, bytes, wpc, wkey, load, wfd, pos, got, overlapped, solo, broken>>

\* The open fails, and Get misses, if the chunk has no file.
OpenFinal(r, k) ==
    /\ rpc[r] = "idle"
    /\ final[k] # NoFile
    /\ rpc' = [rpc EXCEPT ![r] = "read"]
    /\ rkey' = [rkey EXCEPT ![r] = k]
    /\ rfd' = [rfd EXCEPT ![r] = final[k]]
    /\ UNCHANGED <<tmp, final, bytes, wpc, wkey, load, wfd, pos, got, overlapped, solo, broken>>

ReadCell(r) ==
    /\ rpc[r] = "read"
    /\ Len(got[r]) < Len(bytes[rfd[r]])
    /\ got' = [got EXCEPT ![r] = Append(@, bytes[rfd[r]][Len(@) + 1])]
    /\ UNCHANGED <<tmp, final, bytes, wpc, wkey, load, wfd, pos, rpc, rkey, rfd,
                   overlapped, solo, broken>>

\* The end of the file: Get returns what was read as a hit.
ReadEnds(r) ==
    /\ rpc[r] = "read"
    /\ Len(got[r]) >= Len(bytes[rfd[r]])
    /\ rpc' = [rpc EXCEPT ![r] = "hit"]
    /\ rfd' = [rfd EXCEPT ![r] = NoFile]
    /\ UNCHANGED <<tmp, final, bytes, wpc, wkey, load, wfd, pos, rkey, got,
                   overlapped, solo, broken>>

Serve(r) ==
    /\ rpc[r] = "hit"
    /\ rpc' = [rpc EXCEPT ![r] = "idle"]
    /\ rkey' = [rkey EXCEPT ![r] = NoKey]
    /\ got' = [got EXCEPT ![r] = << >>]
    /\ UNCHANGED <<tmp, final, bytes, wpc, wkey, load, wfd, pos, rfd, overlapped, solo, broken>>

----------------------------------------------------------------------------

\* main returns or the process is killed: files stay, goroutines do not.  The
\* next process finds the files (NewColdCache keeps the directory).
Exit ==
    /\ broken' = [k \in Keys |-> broken[k] \/ Putting(k) # {}]
    /\ wpc' = [w \in Writers |-> "idle"]
    /\ wkey' = [w \in Writers |-> NoKey]
    /\ load' = [w \in Writers |-> << >>]
    /\ wfd' = [w \in Writers |-> NoFile]
    /\ pos' = [w \in Writers |-> 0]
    /\ solo' = [w \in Writers |-> FALSE]
    /\ rpc' = [r \in Readers |-> "idle"]
    /\ rkey' = [r \in Readers |-> NoKey]
    /\ rfd' = [r \in Readers |-> NoFile]
    /\ got' = [r \in Readers |-> << >>]
    /\ UNCHANGED <<tmp, final, bytes, overlapped>>

PutStep(w) ==
    \/ OpenTmp(w) \/ OpenFails(w)
    \/ WriteCell(w) \/ WriteFails(w)
    \/ Rename(w) \/ RenameFails(w) \/ Remove(w)

Next ==
    \/ \E w \in Writers :
        \/ \E k \in Keys, p \in Payloads : StartPut(w, k, p)
        \/ PutStep(w)
    \/ \E r \in Readers :
        \/ \E k \in Keys : OpenFinal(r, k)
        \/ ReadCell(r) \/ ReadEnds(r) \/ Serve(r)
    \/ Exit

Spec == Init /\ [][Next]_vars

----------------------------------------------------------------------------
(* Properties. *)

\* The types of the files and of what each goroutine keeps of them: while it
\* writes, renames or reads it has a chunk and an open file.
TypeOK ==
    /\ tmp \in [Keys -> Files \union {NoFile}]
    /\ final \in [Keys -> Files \union {NoFile}]
    /\ bytes \in [Files -> Seq(Cells)]
    /\ wpc \in [Writers -> {"idle", "open", "write", "rename", "remove"}]
    /\ wkey \in [Writers -> Keys \union {NoKey}]
    /\ load \in [Writers -> Seq(Cells)]
    /\ wfd \in [Writers -> Files \union {NoFile}]
    /\ pos \in [Writers -> Nat]
    /\ rpc \in [Readers -> {"idle", "read", "hit"}]
    /\ rkey \in [Readers -> Keys \union {NoKey}]
    /\ rfd \in [Readers -> Files \union {NoFile}]
    /\ got \in [Readers -> Seq(Cells)]
    /\ overlapped \in [Keys -> BOOLEAN]
    /\ solo \in [Writers -> BOOLEAN]
    /\ broken \in [Keys -> BOOLEAN]
    /\ \A w \in Writers :
        /\ wpc[w] = "idle" <=> wkey[w] = NoKey
        /\ wpc[w] # "idle" => load[w] \in Payloads
        /\ wfd[w] # NoFile <=> wpc[w] \in {"write", "rename", "remove"}
    /\ \A r \in Readers :
        /\ rpc[r] = "idle" <=> rkey[r] = NoKey
        /\ rfd[r] # NoFile <=> rpc[r] = "read"

Whole(f) == bytes[f] \in Payloads

\* README.md:44: evicted chunks are written atomically via tmp-rename.
ChunkFilesAreAtomic == \A k \in Keys : final[k] # NoFile => Whole(final[k])

\* The tmp-rename of disk.go:27-34 keeps a chunk file whole through failed
\* writes, failed renames and the exit of the process at any point, as long as
\* no two Puts of that chunk have run at the same time.
TornOnlyByOverlap ==
    \A k \in Keys : final[k] # NoFile /\ ~Whole(final[k]) => overlapped[k]

\* The same seen by a handler that reads the file while others replace it.
ReadsAreWhole ==
    \A r \in Readers : rpc[r] = "hit" /\ got[r] \notin Payloads => overlapped[rkey[r]]

\* disk.go:27-34: races of Puts heal.  When those of a chunk are over, however many
\* there were, its file is whole and no ".tmp" is left, unless the chunk is
\* broken; and whatever broke it is undone by the next Put that no other
\* disturbs and that succeeds: Rename clears broken then, and this holds again.
RacesHeal ==
    \A k \in Keys :
        (Putting(k) = {} /\ ~broken[k]) =>
            /\ tmp[k] = NoFile
            /\ final[k] # NoFile => Whole(final[k])

=============================================================================
