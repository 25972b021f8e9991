--------------------------- MODULE MCVideoAnalysis ---------------------------
(***************************************************************************)
(* Small instances of the attempts at videos for TLC.                      *)
(***************************************************************************)
EXTENDS VideoAnalysis

CONSTANTS v1, v2

TwoVideos == {v1, v2}

New        == [text |-> "", file |-> FALSE]
Mistaken   == [text |-> "diagnostic", file |-> FALSE]
Diagnosed  == [text |-> "diagnostic", file |-> TRUE]
TextOnly   == [text |-> "spoken", file |-> FALSE]
Saved      == [text |-> "spoken", file |-> TRUE]
One(r)     == [v \in {v1} |-> r]

Bounds(rows, audio, stops, timeouts, retries) ==
    [rows |-> rows, audio |-> audio, stops |-> stops, timeouts |-> timeouts, retries |-> retries]

\* A new video that runs out of time, one that has a diagnostic for its text and is
\* tried again, one with its text that runs out of time and is retried, one with its
\* file that is stopped and retried; and two videos that lack but their translation and
\* share one slot, with a stop and a retry.
AnalysisBudgets == {
    Bounds(One(New), TRUE, 0, 1, 0),
    Bounds(One(Mistaken), FALSE, 0, 0, 1),
    Bounds(One(TextOnly), FALSE, 0, 1, 1),
    Bounds(One(Diagnosed), FALSE, 1, 0, 1),
    Bounds([v \in TwoVideos |-> Saved], TRUE, 1, 0, 1)}
=============================================================================
