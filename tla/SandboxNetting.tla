-------------------------- MODULE SandboxNetting --------------------------
(***************************************************************************)
(* What a quote and a fill do: when an order executes and at which price   *)
(* (_process_order), what margin an order must block given the position it *)
(* meets (place_order), and how a fill nets into the position row          *)
(* (_update_position of sandbox/execution_engine.py).                      *)
(***************************************************************************)
EXTENDS SandboxMoney

OrderType == {"MARKET", "LIMIT", "SL", "SL-M"}
Limited   == {"LIMIT", "SL"}       \* types that carry a limit price
Stop      == {"SL", "SL-M"}        \* types that carry a trigger price

\* The SandboxOrders columns the engine reads; price 0 stands for no price.
Order == [status  : {"none", "open", "complete", "cancelled", "rejected"},
          action  : Action, type : OrderType, product : Product,
          qty     : Nat,    price : Nat,      trigger : Nat,
          margin  : Int,    avg : Nat]

\* A SandboxPositions row; seen says that the row exists.
Row == [qty : Int, avg : Int, margin : Int, pnl : Int, seen : BOOLEAN]
NoRow == [qty |-> 0, avg |-> 0, margin |-> 0, pnl |-> 0, seen |-> FALSE]

Quote == [ltp : Nat \ {0}, bid : Nat, ask : Nat]

\* Only a row with a quantity counts when margin is reconciled.
OpenMargin(row) == IF row.qty = 0 THEN 0 ELSE row.margin

-----------------------------------------------------------------------------
WithinLimit(o, price) == IF o.action = "BUY" THEN price <= o.price ELSE price >= o.price
Triggered(o, ltp)     == IF o.action = "BUY" THEN ltp >= o.trigger ELSE ltp <= o.trigger

\* Mutant of Executable: limits are not looked at.
ExecutableUnlimited(o, quote) == o.type \in Stop => Triggered(o, quote.ltp)

\* A resting order executes on a quote.
Executable(o, quote) ==
    /\ o.type \in Limited => WithinLimit(o, quote.ltp)
    /\ o.type \in Stop    => Triggered(o, quote.ltp)

\* MARKET crosses the spread, and falls back to the last price.
MarketPrice(o, quote) ==
    LET side == IF o.action = "BUY" THEN quote.ask ELSE quote.bid
    IN  IF side > 0 THEN side ELSE quote.ltp

\* A resting LIMIT fills at its limit, a stop at the last price.
RestingPrice(o, quote) ==
    CASE o.type = "MARKET" -> MarketPrice(o, quote)
      [] o.type = "LIMIT"  -> o.price
      [] o.type \in Stop   -> quote.ltp

-----------------------------------------------------------------------------
Signed(o)             == IF o.action = "BUY" THEN o.qty ELSE -o.qty
Opposes(held, action) == \/ held > 0 /\ action = "SELL"
                         \/ held < 0 /\ action = "BUY"

\* New exposure only: nothing for a reduction, the excess for a reversal.
MarginToBlock(held, product, action, qty, price) ==
    LET exposure == IF Opposes(held, action) THEN qty - Lesser(qty, Abs(held)) ELSE qty
    IN  IF exposure = 0 THEN 0 ELSE MarginRequired(product, action, exposure, price)

\* Mutant of Accepted: the quantity is stored with its sign.
AcceptedSigned(r, held, price) ==
    [status |-> "open", action |-> r.action, type |-> r.type, product |-> r.product,
     qty |-> Signed(r), price |-> IF r.type = "MARKET" THEN price ELSE r.price,
     trigger |-> r.trigger, avg |-> 0,
     margin |-> MarginToBlock(held, r.product, r.action, r.qty, price)]

\* The order row as it is stored: price is the price the margin was computed at.
Accepted(r, held, price) ==
    [status |-> "open", action |-> r.action, type |-> r.type, product |-> r.product,
     qty |-> r.qty, price |-> IF r.type = "MARKET" THEN price ELSE r.price,
     trigger |-> r.trigger, avg |-> 0,
     margin |-> MarginToBlock(held, r.product, r.action, r.qty, price)]

\* What place_order takes from the account; a CNC sale stores a margin it never takes.
Taken(order) == IF NeedsMargin(order.product, order.action) THEN order.margin ELSE 0

\* Mutant of CancelledMargin: recomputed from what the order has become.
CancelledMarginAnew(order, ltp) ==
    IF NeedsMargin(order.product, order.action)
    THEN MarginRequired(order.product, order.action, order.qty,
                        IF order.price > 0 THEN order.price ELSE ltp)
    ELSE 0

\* What cancel_order gives back: the stored margin, or one recomputed when none is.
CancelledMargin(order, ltp) ==
    LET price == IF order.price > 0 THEN order.price ELSE ltp
    IN  CASE order.margin > 0 -> order.margin
          [] order.margin <= 0 /\ NeedsMargin(order.product, order.action) ->
                 MarginRequired(order.product, order.action, order.qty, price)
          [] OTHER -> 0

-----------------------------------------------------------------------------
ClosedQty(row, o) == IF Opposes(row.qty, o.action) THEN Lesser(o.qty, Abs(row.qty)) ELSE 0

\* Mutant of RealizedPnl: the profit of a reversal on its whole quantity.
RealizedPnlOfOrder(row, o, price) ==
    (IF row.qty > 0 THEN price - row.avg ELSE row.avg - price) * o.qty

RealizedPnl(row, o, price) ==
    (IF row.qty > 0 THEN price - row.avg ELSE row.avg - price) * ClosedQty(row, o)

\* The position's margin, in proportion to the quantity it loses.
FreedMargin(row, o) ==
    IF Opposes(row.qty, o.action)
    THEN RoundDiv(row.margin * ClosedQty(row, o), Abs(row.qty))
    ELSE 0

Opened(row, o, price) ==
    [row EXCEPT !.qty = Signed(o), !.avg = price, !.margin = o.margin, !.seen = TRUE]

Increased(row, o, price) ==
    [row EXCEPT !.qty    = @ + Signed(o),
                !.avg    = RoundDiv(Abs(row.qty) * @ + o.qty * price, Abs(row.qty) + o.qty),
                !.margin = @ + o.margin]

Reduced(row, o, price) ==
    [row EXCEPT !.qty    = @ + Signed(o),
                !.margin = @ - FreedMargin(row, o),
                !.pnl    = @ + RealizedPnl(row, o, price)]

\* Mutant of Reversed: the closed quantity is not deducted.
ReversedInFull(row, o, price) ==
    [row EXCEPT !.qty    = Signed(o),
                !.avg    = price,
                !.margin = RoundDiv(o.margin * (o.qty - Abs(row.qty)), o.qty),
                !.pnl    = @ + RealizedPnl(row, o, price)]

Reversed(row, o, price) ==
    [row EXCEPT !.qty    = @ + Signed(o),
                !.avg    = price,
                !.margin = RoundDiv(o.margin * (o.qty - Abs(row.qty)), o.qty),
                !.pnl    = @ + RealizedPnl(row, o, price)]

Netted(row, o, price) ==
    CASE row.qty = 0                                        -> Opened(row, o, price)
      [] row.qty # 0 /\ ~Opposes(row.qty, o.action)          -> Increased(row, o, price)
      [] Opposes(row.qty, o.action) /\ o.qty <= Abs(row.qty) -> Reduced(row, o, price)
      [] Opposes(row.qty, o.action) /\ o.qty > Abs(row.qty)  -> Reversed(row, o, price)

\* The funds after the closing part of a fill: a position without margin is
\* closed without telling the fund manager, its profit or loss included.
Settled(acc, row, o, price) ==
    IF FreedMargin(row, o) > 0
    THEN Release(acc, FreedMargin(row, o), RealizedPnl(row, o, price))
    ELSE acc
=============================================================================
