--------------------------- MODULE MCStrategyHost ---------------------------
(* A small instance of StrategyHost.  *)
EXTENDS StrategyHost
CONSTANTS p1, p2, w1, l1

\* Bound: the threads that have checked something and are still to act on it.
Few == Cardinality({t \in Thread : thread[t] # "idle"}) <= 2
=============================================================================
