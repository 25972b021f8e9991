--------------------------- MODULE MCProductDocSync ---------------------------
(***************************************************************************)
(* Small instances of the document synchronisation for TLC: two rows.      *)
(***************************************************************************)
EXTENDS ProductDocSync, TLC

CONSTANTS la, lb

Bounds(second, results, old) ==
    [links |-> (1 :> la @@ 2 :> second), earlier |-> old, results |-> results, edits |-> <<0, 0>>, texts |-> 0,
     faults |-> 0, offline |-> 0, crashes |-> 0, retries |-> 0, calls |-> 0]

File == Bounds(None, {"file"}, None)
Text == Bounds(None, {"translation"}, None)

\* A person edits a link or a text; a manual call and a retry come between; a call fails; the
\* process crashes after a while without a connection; an older video has the link of
\* both rows; a link is typed into one row that the other has, with a manual call.
SyncBudgets == {[Text EXCEPT !.texts = 1], [File EXCEPT !.edits = <<1, 0>>],
                [File EXCEPT !.calls = 1, !.retries = 1],
                [File EXCEPT !.faults = 1], [Text EXCEPT !.faults = 1],
                [Text EXCEPT !.crashes = 1, !.offline = 1], [Bounds(la, {}, la) EXCEPT !.calls = 1],
                [Bounds(la, {}, None) EXCEPT !.links[1] = None, !.edits = <<1, 0>>, !.calls = 1]}
\* The connection is gone once.
OneSpell == {[Text EXCEPT !.offline = 1]}
=============================================================================
