------------------------------ MODULE MCHandCard ------------------------------
(***************************************************************************)
(* Small instances of the hand cards for TLC.                              *)
(***************************************************************************)
EXTENDS HandCard, TLC

CONSTANTS p1, p2, c1, c2, l1, l2, m1, b1, r1, r2, pidX, pidY, d1, d2, d3, n1, n2

Bounds(actors, rows) ==
    [actors |-> actors, rows |-> rows, legacy |-> None, catalog |-> {"facts", "pending"}, videos |-> FALSE,
     at |-> {p1}, edits |-> 0, notes |-> 0, trash |-> 0, faults |-> 0, crashes |-> 0, cuts |-> 0]

OneRow  == r1 :> pidX @@ r2 :> None
SameRow == r1 :> pidX @@ r2 :> pidX

One    == Bounds({c1}, OneRow)
Twice  == Bounds({c1, c2}, SameRow)
Cut    == [Bounds({c1, c2}, OneRow) EXCEPT !.cuts = 1, !.at = {p1, p2}, !.catalog = {"facts"}]
Repair == [Bounds({c1, b1}, OneRow) EXCEPT !.notes = 1]
Move   == [Bounds({c1, m1}, OneRow) EXCEPT !.legacy = pidX]

CardBudgets == {Cut, [Twice EXCEPT !.faults = 1], [Twice EXCEPT !.crashes = 1, !.at = {p1, p2}],
                [One EXCEPT !.edits = 2, !.faults = 1], [One EXCEPT !.notes = 2, !.faults = 1],
                [One EXCEPT !.videos = TRUE, !.faults = 3], [One EXCEPT !.trash = 1, !.faults = 1],
                [Bounds({c1, b1}, OneRow) EXCEPT !.cuts = 1, !.at = {p1, p2}],
                Repair, [Repair EXCEPT !.notes = 0, !.faults = 1],
                [Move EXCEPT !.faults = 1], Bounds({c1, l1, l2}, OneRow)}

=================================================================================
