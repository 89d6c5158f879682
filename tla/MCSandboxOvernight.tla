-------------------------- MODULE MCSandboxOvernight --------------------------
(* Small instances of SandboxOvernight: prices whose averages over the traded    *)
(* quantities divide, and a quote whose ask is not its last price.               *)
EXTENDS SandboxOvernight

EquityLeverage == [p \in Product |-> [a \in Action |-> IF p = "MIS" THEN 5 ELSE 1]]

TwoQuotes == {[ltp |-> 60, bid |-> 60, ask |-> 120], [ltp |-> 120, bid |-> 0, ask |-> 0]}
=============================================================================
