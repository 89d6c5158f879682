------------------------- MODULE MCSandboxTrading -------------------------
(* Small instances of SandboxTrading.  Prices are multiples of 60 paise, so  *)
(* that the averages the runs meet, and the margins of the equity, divide     *)
(* without rounding; the margins of the future do not.                        *)
EXTENDS SandboxTrading, TLC

\* The default leverages of sandbox_config for the cash segment.
EquityLeverage == [p \in Product |-> [a \in Action |-> IF p = "MIS" THEN 5 ELSE 1]]

\* futures_leverage, set by the user to a value that divides neither price.
FutureLeverage == [p \in Product |-> [a \in Action |-> 7]]

Flat(p)         == [ltp |-> p, bid |-> 0, ask |-> 0]
Spread(b, l, a) == [ltp |-> l, bid |-> b, ask |-> a]

TwoPrices  == {60, 120}
FlatQuotes == {Flat(60), Flat(120)}
WideQuotes == {Spread(60, 60, 120), Flat(120)}

UserSymmetry == Permutations(UserOrder)
=============================================================================
