---------------------------- MODULE InboxContract ----------------------------
(***************************************************************************)
(* What the durable inbox promises the caller of a Feishu action, without  *)
(* its tables, workers, sessions or locks.  An operation is identified by  *)
(* the invocation id of the caller.  It is accepted once, its effect (the  *)
(* creation of a hand card, or of a video with its target row) happens at  *)
(* most once however often the operation is submitted or resumed, and the  *)
(* outcome it is given is final.                                           *)
(*                                                                         *)
(* A video operation has its effect in the very step that completes it.  A *)
(* hand card operation is first started; its effect may follow even after  *)
(* the operation was given the outcome "failed" (it was interrupted and    *)
(* paused for a person to look at), but never twice.                       *)
(***************************************************************************)
EXTENDS Naturals

CONSTANTS
    Requests,   \* the invocation ids
    IsVideo     \* [Requests -> BOOLEAN], the kind of each operation

VARIABLES
    op,         \* op[r]: what the caller is told about operation r
    started,    \* started[r]: hand card r may have its effect
    effects     \* effects[r]: how many times r has had its effect

vars == <<op, started, effects>>

Outcomes == {"completed", "partial", "failed"}

Init ==
    /\ op = [r \in Requests |-> "new"]
    /\ started = [r \in Requests |-> FALSE]
    /\ effects = [r \in Requests |-> 0]

Accept(r) ==
    /\ op[r] = "new"
    /\ op' = [op EXCEPT ![r] = "accepted"]
    /\ UNCHANGED <<started, effects>>

Start(r) ==
    /\ ~IsVideo[r]
    /\ op[r] = "accepted" /\ ~started[r]
    /\ started' = [started EXCEPT ![r] = TRUE]
    /\ UNCHANGED <<op, effects>>

TakeEffect(r) ==
    /\ started[r] /\ effects[r] = 0
    /\ effects' = [effects EXCEPT ![r] = 1]
    /\ UNCHANGED <<op, started>>

\* A hand card may only be reported as done after it has had its effect.
Settle(r) ==
    /\ op[r] = "accepted"
    /\ \E outcome \in Outcomes :
          /\ outcome # "failed" => started[r] /\ effects[r] = 1
          /\ op' = [op EXCEPT ![r] = outcome]
    /\ UNCHANGED <<started, effects>>

Materialize(r) ==
    /\ IsVideo[r]
    /\ op[r] = "accepted"
    /\ op' = [op EXCEPT ![r] = "completed"]
    /\ effects' = [effects EXCEPT ![r] = @ + 1]
    /\ UNCHANGED started

Next == \E r \in Requests :
    Accept(r) \/ Start(r) \/ TakeEffect(r) \/ Settle(r) \/ Materialize(r)

Spec == Init /\ [][Next]_vars
=============================================================================
