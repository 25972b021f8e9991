-------------------------- MODULE MCFeishuDelivery --------------------------
(***************************************************************************)
(* Small instances of the delivery of one Base row for TLC.                *)
(***************************************************************************)
EXTENDS FeishuDelivery, TLC

CONSTANTS v1, v2, a, b

TwoVideos == {v1, v2}
TwoLinks == {a, b}

Bounds(workers, clicks, restarts, edits, crashes, faults, prunes) ==
    [workers |-> workers, clicks |-> clicks, restarts |-> restarts, edits |-> edits,
     crashes |-> crashes, faults |-> faults, prunes |-> prunes]

\* One process: a click; a retry and a failing request; a retry, a crash and a
\* pruned file; an edit and a failing request; three failing requests.  Two
\* processes: a crash.
DeliveryBudgets ==
    {Bounds(1, 1, 0, 0, 0, 0, 0), Bounds(1, 0, 1, 0, 0, 1, 0), Bounds(1, 0, 1, 0, 1, 0, 1),
     Bounds(1, 0, 0, 1, 0, 1, 0), Bounds(1, 0, 0, 0, 0, 3, 0), Bounds(2, 0, 0, 0, 1, 0, 0)}

\* One process and a retry.
OneRetry == {Bounds(1, 0, 1, 0, 0, 0, 0)}
=============================================================================
