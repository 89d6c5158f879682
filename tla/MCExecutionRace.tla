-------------------------- MODULE MCExecutionRace --------------------------
(***************************************************************************)
(* Small instances of ExecutionRace for TLC.                               *)
(***************************************************************************)
EXTENDS ExecutionRace, TLC

CONSTANTS o1, o2, o3, r1, r2, p1, t1, noOrder, noThread

Lever == [p \in Product |-> [a \in Action |-> IF p = "MIS" THEN 5 ELSE 1]]

Flat(ltp) == [ltp |-> ltp, bid |-> ltp, ask |-> ltp]

\* A limit of 60 trades on the first, and only a sale on the second.
TwoQuotes == {Flat(60), Flat(120)}

RaceSymmetry == Permutations(OrderId) \cup Permutations(Server)
=============================================================================
