------------------------------- MODULE MCReplay -------------------------------
(* A small instance for TLC. *)
EXTENDS Replay, TLC

CONSTANTS w1, w2, lecture, notes, slides, blank

MCStudents == {w1, w2}

MCObjects == {lecture, notes, slides, blank}
MCLength == lecture :> 10 @@ notes :> 3 @@ slides :> 9 @@ blank :> 0
MCKind == lecture :> "video" @@ notes :> "pdf" @@ slides :> "slides" @@ blank :> "other"

MCPhases == <<"direct", "proxy-warm">>

\* Answered in full by a tier; in full without one, and too slowly for the last
\* bucket; and refused, with a body that is too short.
MCAnswers ==
    {[reached |-> TRUE, status |-> 206, cut |-> 0, header |-> "hot", latency |-> 1],
     [reached |-> TRUE, status |-> 206, cut |-> 0, header |-> "", latency |-> 7],
     [reached |-> TRUE, status |-> 502, cut |-> 1, header |-> "", latency |-> 2]}

MCHistEdges == <<1, 3>>

=============================================================================
