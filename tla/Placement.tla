----------------------------- MODULE Placement -----------------------------
(***************************************************************************)
(* What a pool of connections promises of the symbols it feeds: each one   *)
(* that is asked for sits on one connection, no connection holds more than *)
(* it may, and a symbol stays where it is until it is given up.            *)
(***************************************************************************)
EXTENDS Naturals, FiniteSets

CONSTANTS Sym, MaxSymbols, MaxConnections

VARIABLE place   \* the connection of each symbol, 0 for none

Held(i) == {s \in Sym : place[s] = i}

Init == place = [s \in Sym |-> 0]

Put(s, i) ==
    /\ place[s] = 0
    /\ Cardinality(Held(i)) < MaxSymbols
    /\ place' = [place EXCEPT ![s] = i]

Take(s) == place[s] # 0 /\ place' = [place EXCEPT ![s] = 0]

\* The whole pool is closed.
Clear == place' = [s \in Sym |-> 0]

Next ==
    \/ \E s \in Sym, i \in 1..MaxConnections : Put(s, i)
    \/ \E s \in Sym : Take(s)
    \/ Clear

Spec == Init /\ [][Next]_place
=============================================================================
