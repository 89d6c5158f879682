----------------------------- MODULE MCWsProxy -----------------------------
(***************************************************************************)
(* Small instances of WsProxy for TLC.                                     *)
(***************************************************************************)
EXTENDS WsProxy, TLC

CONSTANTS c1, c2, a, b, d

Symmetric == Permutations(Client) \cup Permutations(Sym)

\* Bound: the states explored have three subscriptions, two requests that wait,
\* and a hasty symbol and a fault, or a login at the broker.
Few ==
    LET hasty  == UNION {{i} \X conns[i].hasty : i \in DOMAIN conns}
        unsent == {<<i, k>> \in (DOMAIN conns) \X Keys : k[2] \in conns[i].unsent[k[1]]}
    IN  /\ Cardinality(UNION {{c} \X subs[c] : c \in Client}) <= 3
        /\ Cardinality(unsent) <= 2
        /\ Cardinality(hasty) <= 1 - relogins
        /\ faults <= 1 - relogins
=============================================================================
