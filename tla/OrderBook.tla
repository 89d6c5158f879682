----------------------------- MODULE OrderBook -----------------------------
(***************************************************************************)
(* What the sandbox promises about an order, whoever handles it: it is     *)
(* accepted once, it is then executed in full, cancelled or left open, and *)
(* what has been decided is never decided again.                           *)
(***************************************************************************)
EXTENDS Naturals

CONSTANT OrderId

VARIABLES
    status,  \* status[o], "none" before the order is placed
    fill     \* fill[o], the price of the order's trade, 0 without a trade

Init ==
    /\ status = [o \in OrderId |-> "none"]
    /\ fill = [o \in OrderId |-> 0]

Become(o, s) == status' = [status EXCEPT ![o] = s]

Submit(o) ==
    /\ status[o] = "none"
    /\ Become(o, "open") \/ Become(o, "rejected")
    /\ UNCHANGED fill

\* One trade for the whole quantity, at once or out of the open state.
Execute(o) ==
    /\ status[o] \in {"none", "open"}
    /\ Become(o, "complete")
    /\ fill'[o] > 0
    /\ fill' = [fill EXCEPT ![o] = fill'[o]]

Cancel(o) ==
    /\ status[o] = "open"
    /\ Become(o, "cancelled")
    /\ UNCHANGED fill

Next == \E o \in OrderId : Submit(o) \/ Execute(o) \/ Cancel(o)

Spec == Init /\ [][Next]_<<status, fill>>
=============================================================================
