---------------------------- MODULE CoalescedGet ----------------------------
(***************************************************************************)
(* What Backend.FetchChunkShared promises its callers, apart from how: one *)
(* GET per chunk at a time, shared by all who ask for the chunk while it   *)
(* runs; its bytes go to all of them, its failure only to the caller whose *)
(* request it was; whoever is cancelled may give up.                       *)
(***************************************************************************)
EXTENDS Naturals

CONSTANTS Callers, Keys, ChunkLen, NoKey

VARIABLES
    status,     \* what each caller is doing
    want,       \* the chunk it asked for
    amount,     \* how many bytes of it it was given
    gone        \* its client went away

vars == <<status, want, amount, gone>>

Init ==
    /\ status = [c \in Callers |-> "idle"]
    /\ want = [c \in Callers |-> NoKey]
    /\ amount = [c \in Callers |-> 0]
    /\ gone = [c \in Callers |-> FALSE]

\* The callers that share the GET that c runs.
Party(c) == {d \in Callers : status[d] = "attached" /\ want[d] = want[c]}

Running(k) == \E c \in Callers : status[c] = "leading" /\ want[c] = k

Ask(c, k) ==
    /\ status[c] = "idle"
    /\ status' = [status EXCEPT ![c] = "asking"]
    /\ want' = [want EXCEPT ![c] = k]
    /\ UNCHANGED <<amount, gone>>

GoAway(c) ==
    /\ status[c] # "idle"
    /\ ~gone[c]
    /\ gone' = [gone EXCEPT ![c] = TRUE]
    /\ UNCHANGED <<status, want, amount>>

Start(c) ==
    /\ status[c] = "asking"
    /\ ~Running(want[c])
    /\ status' = [status EXCEPT ![c] = "leading"]
    /\ UNCHANGED <<want, amount, gone>>

Attach(c) ==
    /\ status[c] = "asking"
    /\ Running(want[c])
    /\ status' = [status EXCEPT ![c] = "attached"]
    /\ UNCHANGED <<want, amount, gone>>

\* The GET delivers m bytes: to its leader and to everybody attached.
GetDelivers(c) ==
    /\ status[c] = "leading"
    /\ \E m \in 0 .. ChunkLen[want[c]] : LET served == Party(c) \union {c} IN
        /\ status' = [d \in Callers |-> IF d \in served THEN "answered" ELSE status[d]]
        /\ amount' = [d \in Callers |-> IF d \in served THEN m ELSE amount[d]]
    /\ UNCHANGED <<want, gone>>

\* The GET fails: its leader fails, everybody attached asks again.
GetFails(c) ==
    /\ status[c] = "leading"
    /\ status' = [d \in Callers |-> IF d = c THEN "failed"
                                    ELSE IF d \in Party(c) THEN "asking" ELSE status[d]]
    /\ UNCHANGED <<want, amount, gone>>

\* A caller that does not lead may give up, but only when it was cancelled.
GiveUp(c) ==
    /\ status[c] \in {"asking", "attached", "answered"}
    /\ gone[c]
    /\ status' = [status EXCEPT ![c] = "failed"]
    /\ amount' = [amount EXCEPT ![c] = 0]
    /\ UNCHANGED <<want, gone>>

Return(c) ==
    /\ status[c] \in {"answered", "failed"}
    /\ status' = [status EXCEPT ![c] = "idle"]
    /\ want' = [want EXCEPT ![c] = NoKey]
    /\ amount' = [amount EXCEPT ![c] = 0]
    /\ gone' = [gone EXCEPT ![c] = FALSE]

Serve(c) ==
    \/ Start(c) \/ Attach(c)
    \/ GetDelivers(c) \/ GetFails(c)
    \/ Return(c)

Next ==
    \E c \in Callers :
        \/ \E k \in Keys : Ask(c, k)
        \/ GoAway(c)
        \/ Serve(c)
        \/ GiveUp(c)

SafeSpec == Init /\ [][Next]_vars

\* Every caller that asks is either attached, or leads a GET that ends, and
\* whoever was answered returns.
Spec == SafeSpec /\ \A c \in Callers : WF_vars(Serve(c))

=============================================================================
