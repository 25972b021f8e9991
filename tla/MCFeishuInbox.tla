---------------------------- MODULE MCFeishuInbox ----------------------------
(***************************************************************************)
(* Small instances of the inbox for TLC: two processes on one database;    *)
(* two hand cards and one video of one row.                                *)
(***************************************************************************)
EXTENDS FeishuInbox, TLC

CONSTANTS p1, p2, h1, h2, v1, row

TwoProcesses == {p1, p2}
SameRow == [r \in Requests |-> row]

CardsAndVideo == {h1, h2, v1}
KindByName == [r \in Requests |-> IF r \in {h1, h2} THEN "handcard" ELSE "video"]
=============================================================================
