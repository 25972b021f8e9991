---------------------------- MODULE PaidRequests ----------------------------
(***************************************************************************)
(* What the product catalog promises the owner of the supplier's bill: a   *)
(* request of a product goes out only while every earlier one was refused  *)
(* for lack of credit.  An answer that was lost, or that was of no use,    *)
(* may have been charged and counts as charged.                            *)
(***************************************************************************)
EXTENDS Naturals

VARIABLES
    asked,      \* requests sent to the supplier
    refused     \* those it refused for lack of credit

vars == <<asked, refused>>

Init == asked = 0 /\ refused = 0

Ask ==
    /\ asked = refused
    /\ asked' = asked + 1
    /\ refused' \in {refused, refused + 1}

Spec == Init /\ [][Ask]_vars
=============================================================================
