---------------------------- MODULE MCVideoQueue ----------------------------
(***************************************************************************)
(* Small instances of the video queue for TLC.                             *)
(***************************************************************************)
EXTENDS VideoQueue, TLC

CONSTANTS p1, p2, v1, v2, s1, s2

TwoProcesses == {p1, p2}
OneVideo == {v1}
TwoVideos == {v1, v2}
OneSlot == {s1}

Bounds(workers, open, calls, stops, crashes, cuts, errors) ==
    [workers |-> workers, open |-> open, calls |-> calls, stops |-> stops,
     crashes |-> crashes, cuts |-> cuts, errors |-> errors]
Pair(calls, stops, crashes, cuts, errors) ==
    Bounds(TwoProcesses, Videos, calls, stops, crashes, cuts, errors)

\* A restart and a crash; a lost session and a crash; failing statements; a crash
\* and a failing statement.
SafetyBudgets == {Pair(1, 0, 1, 0, 0), Pair(0, 0, 1, 1, 0), Pair(0, 0, 0, 0, 2), Pair(0, 0, 1, 0, 1)}

\* Two processes and one video: a stop and a crash; a crash and a failing
\* statement.  One process and two videos with one slot for both: a crash.  One
\* process and one video: a wake-up or a retry.
LivenessBudgets == {Bounds(TwoProcesses, {v1}, 0, 1, 1, 0, 0), Bounds(TwoProcesses, {v1}, 0, 0, 1, 0, 1),
                    Bounds({p1}, TwoVideos, 0, 0, 1, 0, 0), Bounds({p1}, {v1}, 1, 0, 0, 0, 0)}

OneCall == {Pair(1, 0, 0, 0, 0)}

Symmetry == Permutations(TwoProcesses)
=============================================================================
