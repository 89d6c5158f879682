----------------------- MODULE SandboxOvernightProofs -----------------------
(***************************************************************************)
(* Shares and money are kept from day to day, for every set of quantities  *)
(* and quotes and any number of trades, nights and logins.  The step of    *)
(* the user's trade rests on what netting does to a row; a settlement      *)
(* moves the whole quantity of the row into the holding.  For the money a  *)
(* sale for delivery must meet a holding when it is settled, and for the   *)
(* day's profit an account that was not written must have booked nothing.  *)
(***************************************************************************)
EXTENDS SandboxOvernight, SandboxMoneyProofs

Inv == TypeOK /\ SharesFollowTrades

\* The market order of a trade is a well-formed order of the asked quantity.
LEMMA TradeOrder ==
    ASSUME TypeOK, NEW p \in Carried, NEW action \in Action, NEW qty \in Quantities,
           NEW quote \in Quotes
    PROVE  LET r     == [action |-> action, type |-> "MARKET", product |-> p, qty |-> qty,
                         price |-> 0, trigger |-> 0]
               order == Accepted(r, pos[p].qty, quote.ltp)
           IN  order \in Order /\ MarketPrice(r, quote) \in Nat /\ Taken(order) \in Int
  <1> DEFINE r     == [action |-> action, type |-> "MARKET", product |-> p, qty |-> qty,
                       price |-> 0, trigger |-> 0]
             order == Accepted(r, pos[p].qty, quote.ltp)
  <1>1. p \in Product /\ qty \in Nat /\ quote.ltp \in Nat /\ quote.bid \in Nat /\ quote.ask \in Nat
    BY OvernightAssumption DEF Carried, Product, Quote
  <1>2. pos[p].qty \in Int
    BY DEF TypeOK, Row
  <1>3. MarginToBlock(pos[p].qty, p, action, qty, quote.ltp) \in Int
    <2>1. MarginToBlock(pos[p].qty, p, action, qty, quote.ltp) \in Nat
      BY <1>1, <1>2, MarginToBlockType
    <2>2. QED
      BY <2>1
  <1>4. order \in Order
    BY <1>1, <1>3 DEF Accepted, Order, OrderType
  <1>5. MarketPrice(r, quote) \in Nat
    BY <1>1 DEF MarketPrice
  <1>6. Taken(order) \in Int
    BY <1>4 DEF Taken, Order
  <1>7. QED
    BY <1>4, <1>5, <1>6

\* The margin of the rows that are carried is an integer amount.
LEMMA CarriedMarginType ==
    ASSUME NEW rows \in [Carried -> Row]
    PROVE  CarriedMargin(rows) \in Int
  <1>1. \A p \in Carried : OpenMargin(rows[p]) \in Int
    BY DEF OpenMargin, Row
  <1>2. QED
    BY <1>1 DEF CarriedMargin, Carried

\* The account a trade leaves, and the row, are well-formed; the delivery shares
\* move by what was traded.
LEMMA TradeKeeps ==
    ASSUME Inv, NEW p \in Carried, NEW action \in Action, NEW qty \in Quantities,
           NEW quote \in Quotes, Trade(p, action, qty, quote)
    PROVE  Inv'
  <1> DEFINE r     == [action |-> action, type |-> "MARKET", product |-> p, qty |-> qty,
                       price |-> 0, trigger |-> 0]
             order == Accepted(r, pos[p].qty, quote.ltp)
             price == MarketPrice(r, quote)
             rows  == [pos EXCEPT ![p] = Netted(@, order, price)]
             acc   == Settled(Block(funds, Taken(order)), pos[p], order, price)
             gain  == acc.realized - funds.realized
  <1>1. order \in Order /\ price \in Nat /\ Taken(order) \in Int
    BY TradeOrder DEF Inv
  <1>2. pos[p] \in Row /\ Real(pos[p]) /\ funds \in Account
    BY DEF Inv, TypeOK, Real
  <1>3. /\ pos' = rows
        /\ funds' = Reconcile(acc, CarriedMargin(rows))
        /\ today' = today + gain
        /\ touched' = (touched \/ funds' # funds)
        /\ history' = [history EXCEPT !.trades = @ + 1,
                                      !.shares = @ + (IF p = "CNC" THEN Signed(order) ELSE 0),
                                      !.paid   = @ + Signed(order) * price,
                                      !.booked = @ + gain]
        /\ UNCHANGED <<early, holding, hour, due, login, nights, cuts>>
    BY DEF Trade, job
  <1> HIDE DEF r, order, price
  <1>4. /\ Netted(pos[p], order, price) \in Row
        /\ Netted(pos[p], order, price).qty = pos[p].qty + Signed(order)
        /\ Real(Netted(pos[p], order, price))
        /\ pos[p].seen => Netted(pos[p], order, price).seen
    BY <1>1, <1>2, NettedType, NettedQuantity
  <1>5. rows \in [Carried -> Row]
    BY <1>4 DEF Inv, TypeOK
  <1>6. acc \in Account /\ gain \in Int
    <2>1. Block(funds, Taken(order)) \in Account
      BY <1>1, <1>2, BlockBalanced
    <2>2. acc \in Account
      BY <1>1, <1>2, <2>1, SettledBalanced
    <2>3. QED
      BY <1>2, <2>2 DEF Account
  <1>7. funds' \in Account
    BY <1>3, <1>5, <1>6, CarriedMarginType, ReconcileBalanced
  <1>8. Signed(order) \in Int /\ Signed(order) * price \in Int
    BY <1>1 DEF Signed, Order
  <1> HIDE DEF rows, acc, gain
  <1>9. /\ history' \in [trades : Nat, shares : Int, paid : Int, booked : Int, clamped : BOOLEAN]
        /\ history'.shares = history.shares + (IF p = "CNC" THEN Signed(order) ELSE 0)
    <2>1. history \in [trades : Nat, shares : Int, paid : Int, booked : Int, clamped : BOOLEAN]
      BY DEF Inv, TypeOK
    <2>2. /\ history.trades + 1 \in Nat
          /\ history.shares + (IF p = "CNC" THEN Signed(order) ELSE 0) \in Int
          /\ history.paid + Signed(order) * price \in Int
          /\ history.booked + gain \in Int
      BY <1>6, <1>8, <2>1
    <2>3. QED
      BY <1>3, <2>1, <2>2, Zenon
  <1>10. \A q \in Carried : early'[q] \/ pos'[q].qty # 0 => pos'[q].seen
    BY <1>3, <1>4 DEF rows, Inv, TypeOK, Real
  <1>11. TypeOK'
    <2>1. today' \in Int /\ touched' \in BOOLEAN
      BY <1>3, <1>6 DEF Inv, TypeOK
    <2>2. pos' \in [Carried -> Row]
      BY <1>3, <1>5
    <2>3. QED
      BY <1>3, <1>7, <1>9, <1>10, <2>1, <2>2 DEF Inv, TypeOK
  <1>12. SharesFollowTrades'
    <2>1. pos'["CNC"].qty = pos["CNC"].qty + (IF p = "CNC" THEN Signed(order) ELSE 0)
      BY <1>3, <1>4, <1>8 DEF rows, Inv, TypeOK, Row, Carried
    <2>2. pos["CNC"].qty \in Int /\ holding.qty \in Int /\ history.shares \in Int
      BY DEF Inv, TypeOK, Row, Carried
    <2>3. QED
      BY <1>3, <1>8, <1>9, <2>1, <2>2 DEF Inv, SharesFollowTrades
  <1>13. QED
    BY <1>11, <1>12 DEF Inv

\* The holding after a settlement is well-formed and has the quantity of the row.
LEMMA GatheredQuantity ==
    ASSUME TypeOK, NEW row \in Row, row.qty # 0
    PROVE  /\ Gathered(row) \in [qty : Int, avg : Int]
           /\ Gathered(row).qty = holding.qty + row.qty
  <1>1. holding \in [qty : Int, avg : Int]
    BY DEF TypeOK
  <1>2. row.qty \in Int /\ row.avg \in Int /\ holding.qty \in Int /\ holding.avg \in Int
    BY <1>1 DEF Row
  <1>3. row.qty > 0 =>
            RoundDiv(Abs(holding.qty) * holding.avg + row.qty * row.avg,
                     Abs(holding.qty) + row.qty) \in Int
    <2>1. /\ Abs(holding.qty) \in Int /\ Abs(holding.qty) >= 0
          /\ Abs(holding.qty) * holding.avg + row.qty * row.avg \in Int
      BY <1>2 DEF Abs
    <2>2. QED
      BY <1>2, <2>1, RoundDivType
  <1>4. CASE holding.qty = 0
    BY <1>2, <1>4 DEF Gathered
  <1>5. CASE holding.qty # 0 /\ holding.qty + row.qty = 0
    BY <1>2, <1>5 DEF Gathered, NoHolding
  <1>6. CASE holding.qty # 0 /\ holding.qty + row.qty # 0
    BY <1>2, <1>3, <1>6 DEF Gathered
  <1>7. QED
    BY <1>4, <1>5, <1>6

\* Settling a row leaves a well-formed account.
LEMMA MovedType ==
    ASSUME TypeOK, NEW row \in Row
    PROVE  Moved(row) \in Account
  <1>1. Abs(row.qty) * row.avg \in Int
    <2>1. Abs(row.qty) \in Int /\ row.avg \in Int
      BY DEF Abs, Row
    <2>2. QED
      BY <2>1
  <1>2. funds \in Account
    BY DEF TypeOK
  <1>3. /\ funds.available + Abs(row.qty) * row.avg \in Int
        /\ funds.used - Abs(row.qty) * row.avg \in Int
    BY <1>1, <1>2 DEF Account
  <1>4. QED
    BY <1>2, <1>3, Zenon DEF Moved, Account

\* What a settlement does to the stored rows, whoever runs it.
Stored ==
    /\ pos \in [Carried -> Row]
    /\ early \in [Carried -> BOOLEAN]
    /\ \A p \in Carried : early[p] \/ pos[p].qty # 0 => pos[p].seen
    /\ funds \in Account
    /\ touched \in BOOLEAN
    /\ holding \in [qty : Int, avg : Int]
    /\ cuts \in 0 .. MaxCuts

\* Removing the row of a product leaves well-formed rows.
LEMMA RemovedRows ==
    ASSUME TypeOK, Removed("CNC")
    PROVE  /\ pos' \in [Carried -> Row]
           /\ early' \in [Carried -> BOOLEAN]
           /\ \A p \in Carried : early'[p] \/ pos'[p].qty # 0 => pos'[p].seen
           /\ pos'["CNC"].qty = 0
  <1>1. NoRow \in Row /\ NoRow.qty = 0
    BY DEF NoRow, Row
  <1>2. QED
    BY <1>1 DEF Removed, TypeOK, Carried

\* Every way a settlement ends keeps the rows well-formed, and the shares when it
\* does not fail half way.
LEMMA SettleKeeps ==
    ASSUME Inv, Settle \/ SettleUnpaid \/ SettleCut
    PROVE  /\ Stored'
           /\ cuts' = 0 => /\ cuts = 0
                           /\ pos'["CNC"].qty + holding'.qty = pos["CNC"].qty + holding.qty
  <1>1. TypeOK /\ pos["CNC"] \in Row /\ pos["CNC"].qty \in Int /\ holding.qty \in Int /\ cuts \in Nat
    BY DEF Inv, TypeOK, Row, Carried
  <1>2. Stored
    BY <1>1 DEF TypeOK, Stored
  <1>3. CASE UNCHANGED <<pos, early, funds, touched, holding, cuts>>
    BY <1>2, <1>3 DEF Stored
  <1>4. CASE Removable /\ Removed("CNC") /\ UNCHANGED <<funds, touched, holding, cuts>>
    BY <1>1, <1>2, <1>4, RemovedRows DEF Stored, Removable
  <1>5. ASSUME Settleable, holding' = Gathered(pos["CNC"]), funds' = Moved(pos["CNC"]),
               touched' = TRUE
        PROVE  /\ holding' \in [qty : Int, avg : Int]
               /\ holding'.qty = holding.qty + pos["CNC"].qty
               /\ funds' \in Account
               /\ touched' \in BOOLEAN
    BY <1>1, <1>5, GatheredQuantity, MovedType DEF Settleable
  <1>6. CASE /\ Settleable
             /\ Removed("CNC")
             /\ holding' = Gathered(pos["CNC"])
             /\ funds' = Moved(pos["CNC"])
             /\ touched' = TRUE
             /\ UNCHANGED cuts
    BY <1>1, <1>2, <1>5, <1>6, RemovedRows DEF Stored
  <1>7. CASE SettleUnpaid
    <2>1. cuts' \in 0 .. MaxCuts /\ cuts' # 0
      BY <1>1, <1>7, OvernightAssumption DEF SettleUnpaid
    <2>2. QED
      BY <1>1, <1>2, <1>7, <2>1, RemovedRows DEF Stored, SettleUnpaid
  <1>8. CASE SettleCut
    <2>1. cuts' \in 0 .. MaxCuts /\ cuts' # 0
      BY <1>1, <1>8, OvernightAssumption DEF SettleCut
    <2>2. QED
      BY <1>2, <1>5, <1>8, <2>1 DEF Stored, SettleCut
  <1>9. QED
    BY <1>3, <1>4, <1>6, <1>7, <1>8 DEF Settle

\* The catch-up closes a row of the intraday product only.
LEMMA CloseStaleKeeps ==
    ASSUME Inv, CatchUpMis
    PROVE  Inv'
  <1>1. CASE UNCHANGED <<pos, funds, touched, history>>
    BY <1>1 DEF CatchUpMis, Inv, TypeOK, SharesFollowTrades
  <1>2. ASSUME NEW price \in {quote.ltp : quote \in Quotes}, CloseStale(price)
        PROVE  Inv'
    <2> DEFINE row  == pos["MIS"]
               pnl  == (price - row.avg) * row.qty
               used == funds.used - row.margin
    <2>1. price \in Int
      BY OvernightAssumption DEF Quote
    <2>2. row \in Row /\ row.seen /\ funds \in Account
      BY <1>2 DEF Inv, TypeOK, CloseStale, Carried
    <2>3. pnl \in Int /\ used \in Int /\ row.qty * price \in Int
      <3>1. row.qty \in Int /\ row.avg \in Int /\ row.margin \in Int /\ funds.used \in Int
        BY <2>2 DEF Row, Account
      <3>2. QED
        BY <2>1, <3>1
    <2>4. /\ pos' = [pos EXCEPT !["MIS"] = [row EXCEPT !.qty = 0, !.margin = 0, !.pnl = @ + pnl]]
          /\ funds' = [funds EXCEPT !.available = @ + row.margin + pnl,
                                    !.used      = IF used < 0 THEN 0 ELSE used,
                                    !.realized  = @ + pnl]
          /\ touched' = TRUE
          /\ history' = [history EXCEPT !.paid = @ - row.qty * price,
                                        !.clamped = @ \/ used < 0]
      BY <1>2 DEF CloseStale
    <2>5. /\ login' = "t1"
          /\ UNCHANGED <<early, today, holding, hour, due, nights, cuts>>
      BY DEF CatchUpMis
    <2> DEFINE closed == [row EXCEPT !.qty = 0, !.margin = 0, !.pnl = @ + pnl]
    <2>6. closed \in Row /\ closed.seen
      <3>1. row.pnl + pnl \in Int /\ 0 \in Int
        BY <2>2, <2>3 DEF Row
      <3>2. QED
        BY <2>2, <3>1, Zenon DEF Row
    <2>7. funds' \in Account
      <3>1. /\ funds.available + row.margin + pnl \in Int
            /\ (IF used < 0 THEN 0 ELSE used) \in Int
            /\ funds.realized + pnl \in Int
        BY <2>2, <2>3 DEF Row, Account
      <3>2. QED
        BY <2>2, <2>4, <3>1, Zenon DEF Account
    <2>8. /\ history' \in [trades : Nat, shares : Int, paid : Int, booked : Int, clamped : BOOLEAN]
          /\ history'.shares = history.shares
      <3>1. history \in [trades : Nat, shares : Int, paid : Int, booked : Int, clamped : BOOLEAN]
        BY DEF Inv, TypeOK
      <3>2. history.paid - row.qty * price \in Int /\ (history.clamped \/ used < 0) \in BOOLEAN
        BY <2>3, <3>1
      <3>3. QED
        BY <2>4, <3>1, <3>2, Zenon
    <2> HIDE DEF closed, pnl, used, row
    <2>9. pos' = [pos EXCEPT !["MIS"] = closed]
      BY <2>4 DEF closed
    <2>10. /\ pos' \in [Carried -> Row]
           /\ \A p \in Carried : early'[p] \/ pos'[p].qty # 0 => pos'[p].seen
           /\ pos'["CNC"] = pos["CNC"]
      BY <2>5, <2>6, <2>9 DEF Inv, TypeOK, Carried
    <2>11. TypeOK'
      BY <2>4, <2>5, <2>7, <2>8, <2>10 DEF Inv, TypeOK
    <2>12. QED
      BY <2>5, <2>8, <2>10, <2>11 DEF Inv, SharesFollowTrades
  <1>3. QED
    BY <1>1, <1>2 DEF CatchUpMis

\* The steps that run a settlement keep the invariant.
LEMMA SettlementKeeps ==
    ASSUME Inv, SettlementJob \/ CatchUpSettlement \/ Crash
    PROVE  Inv'
  <1>1. /\ Stored'
        /\ cuts' = 0 => /\ cuts = 0
                        /\ pos'["CNC"].qty + holding'.qty = pos["CNC"].qty + holding.qty
    BY SettleKeeps DEF SettlementJob, CatchUpSettlement, Crash
  <1>2. /\ UNCHANGED <<today, hour, nights, history>>
        /\ due' \in BOOLEAN
        /\ login' \in {"none", "mis", "t1", "reset", "open"}
    BY DEF Inv, TypeOK, SettlementJob, CatchUpSettlement, Crash
  <1>3. TypeOK'
    BY <1>1, <1>2 DEF Inv, TypeOK, Stored
  <1>4. QED
    BY <1>1, <1>2, <1>3 DEF Inv, SharesFollowTrades

\* The day begins with no position, no holding and a fresh account.
LEMMA InvInit ==
    ASSUME Init
    PROVE  Inv
  <1>1. NoRow \in Row /\ NoRow.qty = 0 /\ FreshAccount(0) \in Account
    BY FreshAccountBalanced DEF NoRow, Row
  <1>2. pos \in [Carried -> Row] /\ early \in [Carried -> BOOLEAN] /\ funds \in Account
    BY <1>1 DEF Init
  <1>3. \A p \in Carried : early[p] \/ pos[p].qty # 0 => pos[p].seen
    BY <1>1 DEF Init
  <1>4. /\ holding \in [qty : Int, avg : Int]
        /\ history \in [trades : Nat, shares : Int, paid : Int, booked : Int, clamped : BOOLEAN]
    BY DEF Init, NoHolding, NoHistory
  <1>5. nights \in 0 .. MaxNights /\ cuts \in 0 .. MaxCuts
    BY OvernightAssumption DEF Init
  <1>6. SharesFollowTrades
    BY <1>1 DEF Init, SharesFollowTrades, NoHolding, NoHistory, Carried
  <1>7. today \in Int /\ hour \in {"day", "night"}
    BY DEF Init
  <1>8. login \in {"none", "mis", "t1", "reset", "open"}
    BY DEF Init
  <1>9. touched \in BOOLEAN /\ due \in BOOLEAN
    BY Zenon DEF Init
  <1>10. QED
    BY <1>2, <1>3, <1>4, <1>5, <1>6, <1>7, <1>8, <1>9, Zenon DEF Inv, TypeOK

\* Every step keeps the types and the shares.
LEMMA InvKept ==
    ASSUME Inv, [Next]_vars
    PROVE  Inv'
  <1>1. ASSUME NEW p \in Carried, NEW action \in Action, NEW qty \in Quantities,
               NEW quote \in Quotes, Trade(p, action, qty, quote)
        PROVE  Inv'
    BY <1>1, TradeKeeps
  <1>2. CASE Midnight
    <2>1. nights' \in 0 .. MaxNights
      BY <1>2, OvernightAssumption DEF Inv, TypeOK, Midnight
    <2>2. early' \in [Carried -> BOOLEAN] /\ \A p \in Carried : early'[p] => pos'[p].seen
      BY <1>2 DEF Inv, TypeOK, Midnight, Row
    <2>3. QED
      BY <1>2, <2>1, <2>2 DEF Inv, TypeOK, Midnight, SharesFollowTrades
  <1>3. CASE SettlementJob \/ CatchUpSettlement \/ Crash
    BY <1>3, SettlementKeeps
  <1>4. CASE SessionBoundary
    <2>1. /\ history' \in [trades : Nat, shares : Int, paid : Int, booked : Int,
                           clamped : BOOLEAN]
          /\ history'.shares = history.shares
      <3>1. history \in [trades : Nat, shares : Int, paid : Int, booked : Int,
                         clamped : BOOLEAN]
        BY DEF Inv, TypeOK
      <3>2. history' = [history EXCEPT !.booked = 0] /\ 0 \in Int
        BY <1>4 DEF SessionBoundary
      <3>3. QED
        BY <3>1, <3>2, Zenon
    <2>2. today' = 0 \/ today' = today
      BY <1>4 DEF SessionBoundary
    <2>3. touched' = TRUE \/ touched' = FALSE
      BY <1>4 DEF SessionBoundary
    <2>4. QED
      BY <1>4, <2>1, <2>2, <2>3 DEF Inv, TypeOK, SessionBoundary, SharesFollowTrades
  <1>5. CASE Login
    BY <1>5 DEF Inv, TypeOK, Login, SharesFollowTrades
  <1>6. CASE CatchUpMis
    BY <1>6, CloseStaleKeeps
  <1>7. CASE CatchUpReset
    <2>1. today' = 0 \/ today' = today
      BY <1>7 DEF CatchUpReset
    <2>2. touched' = TRUE \/ touched' = touched
      BY <1>7 DEF CatchUpReset
    <2>3. /\ login' = "open"
          /\ UNCHANGED <<pos, early, funds, holding, hour, due, nights, cuts, history>>
      BY <1>7 DEF CatchUpReset
    <2>4. today' \in Int /\ touched' \in BOOLEAN
      <3>1. today \in Int /\ 0 \in Int
        BY DEF Inv, TypeOK
      <3>2. touched \in BOOLEAN
        BY Zenon DEF Inv, TypeOK
      <3>3. touched' \in BOOLEAN
        BY <2>2, <3>2, Zenon
      <3>4. QED
        BY <2>1, <3>1, <3>3
    <2>5. login' \in {"none", "mis", "t1", "reset", "open"}
      BY <2>3
    <2>6. TypeOK'
      <3>1. /\ pos' = pos /\ early' = early /\ funds' = funds /\ holding' = holding
            /\ hour' = hour /\ due' = due /\ nights' = nights /\ cuts' = cuts
            /\ history' = history
        BY <2>3
      <3>2. QED
        BY <2>4, <2>5, <3>1, Zenon DEF Inv, TypeOK
    <2>7. SharesFollowTrades'
      BY <2>3 DEF Inv, SharesFollowTrades
    <2>8. QED
      BY <2>6, <2>7 DEF Inv
  <1>8. CASE UNCHANGED vars
    BY <1>8 DEF Inv, TypeOK, SharesFollowTrades, vars, job
  <1>9. QED
    BY <1>1, <1>2, <1>3, <1>4, <1>5, <1>6, <1>7, <1>8 DEF Next

LEMMA InvAlways == Spec => []Inv
  BY InvInit, InvKept, PTL DEF Spec

\* Every variable keeps its type, for any quantities, quotes and leverages.
THEOREM DaysTyped == Spec => []TypeOK
  <1>1. Inv => TypeOK
    BY DEF Inv
  <1>2. QED
    BY <1>1, InvAlways, PTL

\* No share is lost or made from day to day, however many trades, nights, missed
\* jobs and logins there are, unless a settlement fails half way
\* (holdings_manager.py process_t1_settlement, catch_up_processor.py).
THEOREM SharesKept == Spec => []SharesFollowTrades
  <1>1. Inv => SharesFollowTrades
    BY DEF Inv
  <1>2. QED
    BY <1>1, InvAlways, PTL

-----------------------------------------------------------------------------
\* An account that was not written since the session boundary has booked nothing
\* since then.
Untouched == ~touched => history.booked = 0

\* A trade that leaves the account as it was has booked nothing.
LEMMA TradeUntouched ==
    ASSUME Inv, Untouched, NEW p \in Carried, NEW action \in Action, NEW qty \in Quantities,
           NEW quote \in Quotes, Trade(p, action, qty, quote)
    PROVE  Untouched'
  <1> DEFINE r     == [action |-> action, type |-> "MARKET", product |-> p, qty |-> qty,
                       price |-> 0, trigger |-> 0]
             order == Accepted(r, pos[p].qty, quote.ltp)
             price == MarketPrice(r, quote)
             rows  == [pos EXCEPT ![p] = Netted(@, order, price)]
             acc   == Settled(Block(funds, Taken(order)), pos[p], order, price)
             gain  == acc.realized - funds.realized
  <1>1. /\ funds' = Reconcile(acc, CarriedMargin(rows))
        /\ touched' = (touched \/ funds' # funds)
        /\ history' = [history EXCEPT !.trades = @ + 1,
                                      !.shares = @ + (IF p = "CNC" THEN Signed(order) ELSE 0),
                                      !.paid   = @ + Signed(order) * price,
                                      !.booked = @ + gain]
    BY DEF Trade
  <1>2. order \in Order /\ price \in Nat /\ Taken(order) \in Int
    BY TradeOrder DEF Inv
  <1> HIDE DEF r, order, price
  <1>3. /\ funds \in Account /\ pos[p] \in Row
        /\ history \in [trades : Nat, shares : Int, paid : Int, booked : Int, clamped : BOOLEAN]
    BY DEF Inv, TypeOK
  <1>4. rows \in [Carried -> Row]
    BY <1>2, <1>3, NettedType DEF Inv, TypeOK
  <1>5. acc \in Account
    BY <1>2, <1>3, BlockBalanced, SettledBalanced
  <1>6. acc.realized \in Int /\ funds.realized \in Int
    BY <1>3, <1>5 DEF Account
  <1> HIDE DEF rows, acc
  <1>7. funds'.realized = acc.realized
    BY <1>1, <1>4, <1>5, CarriedMarginType, ReconcileBalanced
  <1>8. ASSUME ~touched' PROVE history'.booked = 0
    <2>1. ~touched /\ funds' = funds
      BY <1>1, <1>8
    <2>2. gain = 0
      BY <1>6, <1>7, <2>1
    <2>3. history'.booked = history.booked + gain
      BY <1>1, <1>3
    <2>4. QED
      BY <2>1, <2>2, <2>3 DEF Untouched
  <1>9. QED
    BY <1>8 DEF Untouched

\* The catch-up resets today's profit only in an account that has booked nothing
\* since the boundary.
LEMMA UntouchedKept ==
    ASSUME Inv, Untouched, [Next]_vars
    PROVE  /\ Untouched'
           /\ login = "reset" /\ login' = "open" => today' \in {today, history'.booked}
  <1> DEFINE Kept == login = "reset" /\ login' = "open" => today' \in {today, history'.booked}
  <1>1. ASSUME NEW p \in Carried, NEW action \in Action, NEW qty \in Quantities,
               NEW quote \in Quotes, Trade(p, action, qty, quote)
        PROVE  Untouched' /\ Kept
    BY <1>1, TradeUntouched DEF Trade, job
  <1>2. CASE Midnight \/ Login
    BY <1>2 DEF Midnight, Login, Untouched
  <1>3. ASSUME SettlementJob \/ CatchUpSettlement \/ Crash
        PROVE  Untouched' /\ Kept
    <2>1. UNCHANGED <<today, history>>
      BY <1>3 DEF SettlementJob, CatchUpSettlement, Crash
    <2>2. touched' = touched \/ touched' = TRUE
      BY <1>3 DEF SettlementJob, CatchUpSettlement, Crash, Settle, SettleUnpaid, SettleCut
    <2>3. QED
      BY <2>1, <2>2 DEF Untouched
  <1>4. CASE SessionBoundary
    <2>1. history' = [history EXCEPT !.booked = 0] /\ login' = "none"
      BY <1>4 DEF SessionBoundary
    <2>2. history'.booked = 0
      BY <2>1 DEF Inv, TypeOK
    <2>3. QED
      BY <2>1, <2>2 DEF Untouched
  <1>5. CASE CatchUpMis
    <2>1. login' = "t1" /\ (touched' = TRUE \/ UNCHANGED <<touched, history>>)
      BY <1>5 DEF CatchUpMis, CloseStale
    <2>2. QED
      BY <2>1 DEF Untouched
  <1>6. CASE CatchUpReset
    <2>1. history' = history
      BY <1>6 DEF CatchUpReset
    <2>2. CASE ~touched /\ today' = 0 /\ touched' = TRUE
      BY <2>1, <2>2 DEF Untouched
    <2>3. CASE UNCHANGED <<today, touched>>
      BY <2>1, <2>3 DEF Untouched
    <2>4. QED
      BY <1>6, <2>2, <2>3 DEF CatchUpReset
  <1>7. CASE UNCHANGED vars
    BY <1>7 DEF Untouched, vars, job
  <1>8. QED
    BY <1>1, <1>2, <1>3, <1>4, <1>5, <1>6, <1>7 DEF Next

\* The catch-up of a login throws no profit away that was booked since the session
\* boundary, whatever is traded between the boundary, the login and its tasks
\* (catch_up_processor.py catch_up_daily_pnl_reset).
THEOREM TodayKept == Spec => CatchUpKeepsToday
  <1> DEFINE Kept == login = "reset" /\ login' = "open" => today' \in {today, history'.booked}
  <1>1. Init => Untouched
    BY DEF Init, Untouched, NoHistory
  <1>2. Inv /\ Untouched /\ [Next]_vars => Untouched' /\ [Kept]_vars
    BY UntouchedKept
  <1>3. Spec => [][Kept]_vars
    BY <1>1, <1>2, InvAlways, PTL DEF Spec
  <1>4. QED
    BY <1>3 DEF CatchUpKeepsToday

-----------------------------------------------------------------------------
\* No average is rounded, and no profit is booked by closing a position that has
\* no margin: the fund manager is not told of one (execution_engine.py:473).
ExactFills ==
    \A p \in Carried, action \in Action, qty \in Quantities, quote \in Quotes :
        Trade(p, action, qty, quote) =>
            LET r     == [action |-> action, type |-> "MARKET", product |-> p, qty |-> qty,
                          price |-> 0, trigger |-> 0]
                order == Accepted(r, pos[p].qty, quote.ltp)
                price == MarketPrice(r, quote)
            IN  /\ AveragesExactly(pos[p], order, price)
                /\ RealizedPnl(pos[p], order, price) # 0 => FreedMargin(pos[p], order) > 0

\* What is sold short for delivery is in the holdings.
Owned == cuts = 0 /\ pos["CNC"].qty < 0 => holding.qty > 0

Cost(row) == row.qty * row.avg

\* What CashFollowsTrades says of the account when no settlement was cut off.
Accounted ==
    Holds(funds) = StartingCapital - history.paid + Cost(pos["CNC"]) + Cost(pos["MIS"])

\* What is added up here are integer amounts.
LEMMA AmountTypes ==
    ASSUME TypeOK
    PROVE  /\ StartingCapital \in Int /\ history.paid \in Int
           /\ Cost(pos["CNC"]) \in Int /\ Cost(pos["MIS"]) \in Int
           /\ Holds(funds) \in Int
           /\ pos["CNC"] \in Row /\ pos["MIS"] \in Row
           /\ holding.qty \in Int
           /\ funds \in Account
  <1>1. pos["CNC"] \in Row /\ pos["MIS"] \in Row /\ funds \in Account
    BY DEF TypeOK, Carried
  <1>2. \A row \in Row : Cost(row) \in Int
    BY DEF Row, Cost
  <1>3. Holds(funds) \in Int
    BY <1>1 DEF Account, Holds
  <1>4. QED
    BY <1>1, <1>2, <1>3, MoneyAssumption DEF TypeOK

\* The user may sell for delivery what the position and the holdings have.
LEMMA TradeOwned ==
    ASSUME Inv, Owned, NEW p \in Carried, NEW action \in Action, NEW qty \in Quantities,
           NEW quote \in Quotes, Trade(p, action, qty, quote)
    PROVE  Owned'
  <1> DEFINE r     == [action |-> action, type |-> "MARKET", product |-> p, qty |-> qty,
                       price |-> 0, trigger |-> 0]
             order == Accepted(r, pos[p].qty, quote.ltp)
             price == MarketPrice(r, quote)
  <1>1. pos' = [pos EXCEPT ![p] = Netted(@, order, price)] /\ UNCHANGED <<holding, cuts>>
    BY DEF Trade, job
  <1>2. order \in Order /\ price \in Nat
    BY TradeOrder DEF Inv
  <1>3. Signed(order) = IF action = "BUY" THEN qty ELSE -qty
    BY DEF Signed, Accepted
  <1> HIDE DEF r, order, price
  <1>4. pos[p] \in Row /\ Real(pos[p])
    BY DEF Inv, TypeOK, Real
  <1>5. Netted(pos[p], order, price).qty = pos[p].qty + Signed(order)
    BY <1>2, <1>4, NettedQuantity
  <1>6. CASE p = "MIS"
    <2>1. pos'["CNC"] = pos["CNC"]
      BY <1>1, <1>6 DEF Inv, TypeOK, Carried
    <2>2. QED
      BY <1>1, <2>1 DEF Owned
  <1>7. CASE p = "CNC"
    <2>1. pos'["CNC"].qty = pos["CNC"].qty + (IF action = "BUY" THEN qty ELSE -qty)
      BY <1>1, <1>3, <1>5, <1>7 DEF Inv, TypeOK, Carried
    <2>2. qty \in Nat /\ pos["CNC"].qty \in Int /\ holding.qty \in Int
      BY AmountTypes, OvernightAssumption DEF Inv, Row
    <2>3. action = "SELL" => qty <= (IF pos["CNC"].qty > 0 THEN pos["CNC"].qty ELSE 0)
                                    + (IF holding.qty > 0 THEN holding.qty ELSE 0)
      BY <1>7 DEF Trade, Admitted
    <2>4. action = "BUY" \/ action = "SELL"
      BY DEF Action
    <2>5. QED
      BY <1>1, <2>1, <2>2, <2>3, <2>4 DEF Owned
  <1>8. QED
    BY <1>6, <1>7 DEF Carried

\* A trade that is netted exactly costs what it says.
LEMMA TradeAccounted ==
    ASSUME Inv, Accounted, ExactFills, NEW p \in Carried, NEW action \in Action,
           NEW qty \in Quantities, NEW quote \in Quotes, Trade(p, action, qty, quote)
    PROVE  Accounted'
  <1> DEFINE r      == [action |-> action, type |-> "MARKET", product |-> p, qty |-> qty,
                        price |-> 0, trigger |-> 0]
             order  == Accepted(r, pos[p].qty, quote.ltp)
             price  == MarketPrice(r, quote)
             row    == Netted(pos[p], order, price)
             rows   == [pos EXCEPT ![p] = row]
             pnl    == RealizedPnl(pos[p], order, price)
             spent  == Signed(order) * price
  <1>1. order \in Order /\ price \in Nat /\ Taken(order) \in Int
    BY TradeOrder DEF Inv
  <1>2. /\ AveragesExactly(pos[p], order, price)
        /\ RealizedPnl(pos[p], order, price) # 0 => FreedMargin(pos[p], order) > 0
    BY DEF ExactFills
  <1>3. /\ pos' = rows
        /\ funds' = Reconcile(Settled(Block(funds, Taken(order)), pos[p], order, price),
                              CarriedMargin(rows))
        /\ history'.paid = history.paid + spent
    BY DEF Trade, Inv, TypeOK
  <1> HIDE DEF r, order, price
  <1>4. pos[p] \in Row /\ funds \in Account
    BY DEF Inv, TypeOK
  <1>5. row \in Row /\ rows \in [Carried -> Row]
    BY <1>1, <1>4, NettedType DEF Inv, TypeOK
  <1>6. CarriedMargin(rows) \in Int /\ pnl \in Int /\ spent \in Int
    <2>1. Signed(order) \in Int /\ price \in Int
      BY <1>1 DEF Signed, Order
    <2>2. spent \in Int
      BY <2>1
    <2>3. pnl \in Int
      BY <1>1, <1>4, RealizedPnlType
    <2> HIDE DEF rows, pnl, spent
    <2>4. CarriedMargin(rows) \in Int
      BY <1>5, CarriedMarginType
    <2>5. QED
      BY <2>2, <2>3, <2>4
  <1>7. Holds(funds') = Holds(funds) + pnl
    BY <1>1, <1>2, <1>3, <1>4, <1>6, SettledHolds
  <1>8. Cost(row) = Cost(pos[p]) + pnl + spent
    <2>1. row.pnl - Cost(row) = pos[p].pnl - Cost(pos[p]) - spent
      BY <1>1, <1>2, <1>4, NettedProfit DEF Cost
    <2>2. row.pnl = pos[p].pnl + pnl
      BY <1>1, <1>4, NettedPnl
    <2>3. /\ row.pnl \in Int /\ pos[p].pnl \in Int
          /\ Cost(row) \in Int /\ Cost(pos[p]) \in Int
      BY <1>4, <1>5 DEF Row, Cost
    <2> DEFINE new == Cost(row)
               old == Cost(pos[p])
               was == pos[p].pnl
    <2>4. was \in Int /\ new \in Int /\ old \in Int
      BY <2>3
    <2> HIDE DEF row, pnl, spent, new, old, was
    <2>5. (was + pnl) - new = was - old - spent
      BY <2>1, <2>2, Zenon DEF new, old, was
    <2>6. new = old + pnl + spent
      BY <1>6, <2>4, <2>5
    <2>7. QED
      BY <2>6 DEF new, old
  <1> HIDE DEF row, pnl, spent
  <1>9. Cost(pos'["CNC"]) + Cost(pos'["MIS"])
            = Cost(pos["CNC"]) + Cost(pos["MIS"]) + pnl + spent
    <2>1. \A q \in Carried : pos'[q] = IF q = p THEN row ELSE pos[q]
      BY <1>3, <1>5 DEF Inv, TypeOK
    <2>2. Cost(pos["CNC"]) \in Int /\ Cost(pos["MIS"]) \in Int
      BY AmountTypes DEF Inv
    <2>3. "CNC" \in Carried /\ "MIS" \in Carried /\ "CNC" # "MIS"
      BY DEF Carried
    <2>4. CASE p = "CNC"
      <3>1. pos'["CNC"] = row /\ pos'["MIS"] = pos["MIS"]
        BY <2>1, <2>3, <2>4
      <3>2. Cost(pos'["CNC"]) = Cost(pos["CNC"]) + pnl + spent
        BY <1>8, <2>4, <3>1
      <3>3. QED
        BY <1>6, <2>2, <3>1, <3>2
    <2>5. CASE p = "MIS"
      <3>1. pos'["MIS"] = row /\ pos'["CNC"] = pos["CNC"]
        BY <2>1, <2>3, <2>5
      <3>2. Cost(pos'["MIS"]) = Cost(pos["MIS"]) + pnl + spent
        BY <1>8, <2>5, <3>1
      <3>3. QED
        BY <1>6, <2>2, <3>1, <3>2
    <2>6. QED
      BY <2>4, <2>5 DEF Carried
  <1>10. Cost(pos'["CNC"]) \in Int /\ Cost(pos'["MIS"]) \in Int
    <2>1. pos'["CNC"] \in Row /\ pos'["MIS"] \in Row
      BY <1>3, <1>5 DEF Carried
    <2>2. QED
      BY <2>1 DEF Row, Cost
  <1>11. QED
    BY <1>3, <1>6, <1>7, <1>9, <1>10, AmountTypes DEF Inv, Accounted

\* Settling a purchase moves its cost out of the account, settling a sale brings
\* its proceeds in.
LEMMA SettleOutcome ==
    ASSUME Inv, Owned, cuts = 0, Settle
    PROVE  /\ cuts' = 0
           /\ Holds(funds') - Cost(pos'["CNC"]) = Holds(funds) - Cost(pos["CNC"])
           /\ pos'["MIS"] = pos["MIS"]
           /\ pos'["CNC"].qty >= 0 \/ (pos' = pos /\ holding' = holding)
  <1> DEFINE row == pos["CNC"]
  <1>1. /\ row \in Row /\ funds \in Account /\ holding.qty \in Int
        /\ Cost(row) \in Int /\ Holds(funds) \in Int
    BY AmountTypes DEF Inv
  <1>2. row.qty \in Int /\ row.avg \in Int
    BY <1>1 DEF Row
  <1>3. pos \in [Carried -> Row]
    BY DEF Inv, TypeOK
  <1>4. ASSUME Removed("CNC")
        PROVE  pos'["CNC"] = NoRow /\ pos'["MIS"] = pos["MIS"] /\ Cost(pos'["CNC"]) = 0
    BY <1>3, <1>4 DEF Removed, Carried, NoRow, Cost
  <1>5. NoRow.qty = 0
    BY DEF NoRow
  <1>6. CASE UNCHANGED <<pos, early, funds, touched, holding, cuts>>
    BY <1>6
  <1>7. CASE Removable /\ Removed("CNC") /\ UNCHANGED <<funds, touched, holding, cuts>>
    <2>1. Cost(row) = 0
      BY <1>2, <1>7 DEF Removable, Cost
    <2>2. QED
      BY <1>1, <1>4, <1>5, <1>7, <2>1
  <1>8. CASE /\ Settleable
             /\ Removed("CNC")
             /\ funds' = Moved(row)
             /\ UNCHANGED cuts
    <2>1. row.qty # 0
      BY <1>8 DEF Settleable
    <2>2. Holds(funds') = Holds(funds) - Cost(row)
      <3>1. CASE row.qty < 0
        <4>1. holding.qty # 0
          BY <1>1, <3>1 DEF Owned
        <4>2. funds' = [funds EXCEPT !.available = @ + Abs(row.qty) * row.avg]
          BY <1>8, <3>1, <4>1 DEF Moved
        <4>3. Abs(row.qty) * row.avg = -Cost(row)
          <5>1. Abs(row.qty) = -row.qty
            BY <1>2, <3>1 DEF Abs
          <5>2. (-row.qty) * row.avg = -(row.qty * row.avg)
            BY <1>2
          <5>3. QED
            BY <5>1, <5>2 DEF Cost
        <4>4. funds' = [funds EXCEPT !.available = @ + (-Cost(row))]
          BY <4>2, <4>3, Zenon
        <4> HIDE DEF row
        <4>5. QED
          BY <1>1, <4>4 DEF Account, Holds
      <3>2. CASE row.qty > 0
        <4>1. funds' = [funds EXCEPT !.used = @ - Abs(row.qty) * row.avg]
          BY <1>2, <1>8, <3>2 DEF Moved
        <4>2. Abs(row.qty) * row.avg = Cost(row)
          BY <1>2, <3>2 DEF Abs, Cost
        <4>3. funds' = [funds EXCEPT !.used = @ - Cost(row)]
          BY <4>1, <4>2, Zenon
        <4> HIDE DEF row
        <4>4. QED
          BY <1>1, <4>3 DEF Account, Holds
      <3>3. QED
        BY <1>2, <2>1, <3>1, <3>2
    <2>3. /\ pos'["MIS"] = pos["MIS"] /\ Cost(pos'["CNC"]) = 0
          /\ pos'["CNC"].qty >= 0
          /\ cuts' = 0
      BY <1>4, <1>5, <1>8
    <2>4. Holds(funds') - 0 = Holds(funds) - Cost(row)
      <3> HIDE DEF row
      <3>1. QED
        BY <1>1, <2>2
    <2>5. QED
      BY <2>3, <2>4
  <1>9. QED
    BY <1>6, <1>7, <1>8 DEF Settle

\* Closing a stale intraday position books its profit in cash, as long as the used
\* margin is not clamped.
LEMMA StaleAccounted ==
    ASSUME Inv, Accounted, NEW price \in {quote.ltp : quote \in Quotes}, CloseStale(price),
           ~history'.clamped
    PROVE  Accounted' /\ pos'["CNC"] = pos["CNC"]
  <1> DEFINE row  == pos["MIS"]
             pnl  == (price - row.avg) * row.qty
             used == funds.used - row.margin
             sold == row.qty * price
  <1>1. price \in Int
    BY OvernightAssumption DEF Quote
  <1>2. row \in Row /\ funds \in Account
    BY AmountTypes DEF Inv
  <1>3. row.qty \in Int /\ row.avg \in Int /\ row.margin \in Int
    BY <1>2 DEF Row
  <1>4. pnl \in Int /\ used \in Int /\ sold \in Int
    BY <1>1, <1>2, <1>3 DEF Account
  <1>5. pnl = sold - Cost(row)
    BY <1>1, <1>3 DEF Cost
  <1>6. /\ pos' = [pos EXCEPT !["MIS"] = [row EXCEPT !.qty = 0, !.margin = 0, !.pnl = @ + pnl]]
        /\ funds' = [funds EXCEPT !.available = @ + row.margin + pnl,
                                  !.used      = IF used < 0 THEN 0 ELSE used,
                                  !.realized  = @ + pnl]
        /\ history' = [history EXCEPT !.paid = @ - sold,
                                      !.clamped = @ \/ used < 0]
    BY DEF CloseStale
  <1>7. history'.paid = history.paid - sold /\ ~(used < 0)
    <2> HIDE DEF used, sold
    <2>1. QED
      BY <1>6 DEF Inv, TypeOK
  <1>8. pos'["CNC"] = pos["CNC"] /\ pos'["MIS"].qty = 0 /\ pos'["MIS"].avg = row.avg
    <2>1. pos \in [Carried -> Row] /\ "MIS" \in Carried /\ "CNC" \in Carried
      BY DEF Inv, TypeOK, Carried
    <2> DEFINE closed == [row EXCEPT !.qty = 0, !.margin = 0, !.pnl = @ + pnl]
    <2>2. closed.qty = 0 /\ closed.avg = row.avg
      BY <1>2 DEF Row
    <2>3. pos' = [pos EXCEPT !["MIS"] = closed]
      BY <1>6
    <2> HIDE DEF closed, row
    <2>4. QED
      BY <2>1, <2>2, <2>3
  <1>9. Cost(pos'["MIS"]) = 0
    BY <1>3, <1>8 DEF Cost
  <1>10. Holds(funds') = Holds(funds) + pnl
    <2>1. /\ funds'.available = funds.available + row.margin + pnl
          /\ funds'.used = funds.used - row.margin
      BY <1>2, <1>6, <1>7 DEF Account
    <2>2. funds.available \in Int /\ funds.used \in Int
      BY <1>2 DEF Account
    <2> HIDE DEF row, pnl
    <2>3. QED
      BY <1>3, <1>4, <2>1, <2>2 DEF Holds, row
  <1> DEFINE cost == Cost(row)
  <1>11. /\ Holds(funds) = StartingCapital - history.paid + Cost(pos["CNC"]) + cost
         /\ cost \in Int /\ Cost(pos["CNC"]) \in Int /\ history.paid \in Int /\ StartingCapital \in Int
         /\ pnl = sold - cost
    BY <1>5, AmountTypes DEF Inv, Accounted
  <1> HIDE DEF row, pnl, used, sold, cost
  <1>12. Holds(funds') = StartingCapital - history'.paid + Cost(pos'["CNC"]) + Cost(pos'["MIS"])
    BY <1>4, <1>7, <1>8, <1>9, <1>10, <1>11
  <1>13. QED
    BY <1>8, <1>12 DEF Accounted

LEMMA CashKeeps ==
    ASSUME Inv, Owned, CashFollowsTrades, [Next]_vars, ExactFills
    PROVE  Owned' /\ CashFollowsTrades'
  <1> DEFINE Clear == cuts = 0 /\ ~history.clamped
  <1>1. ASSUME Owned', Clear' => Clear, Clear' /\ Accounted => Accounted'
        PROVE  Owned' /\ CashFollowsTrades'
    <2>1. Clear => Accounted
      BY DEF CashFollowsTrades, Accounted, Holds, Cost
    <2>2. Clear' => Accounted'
      BY <1>1, <2>1
    <2>3. CashFollowsTrades'
      BY <2>2 DEF CashFollowsTrades, Accounted, Holds, Cost
    <2>4. QED
      BY <1>1, <2>3
  <1>2. ASSUME NEW p \in Carried, NEW action \in Action, NEW qty \in Quantities,
               NEW quote \in Quotes, Trade(p, action, qty, quote)
        PROVE  Owned' /\ CashFollowsTrades'
    <2>1. cuts' = cuts /\ history'.clamped = history.clamped
      BY <1>2 DEF Trade, job, Inv, TypeOK
    <2>2. Accounted => Accounted'
      BY <1>2, TradeAccounted
    <2>3. QED
      BY <1>1, <1>2, <2>1, <2>2, TradeOwned
  <1>3. ASSUME Settle \/ SettleUnpaid \/ SettleCut, UNCHANGED history
        PROVE  Owned' /\ CashFollowsTrades'
    <2>1. cuts' = 0 => cuts = 0 /\ Settle
      <3>1. cuts \in Nat
        BY DEF Inv, TypeOK
      <3>2. QED
        BY <1>3, <3>1 DEF Settle, SettleUnpaid, SettleCut
    <2>2. Owned'
      <3> SUFFICES ASSUME cuts' = 0, pos'["CNC"].qty < 0 PROVE holding'.qty > 0
        BY DEF Owned
      <3>1. cuts = 0 /\ Settle
        BY <2>1
      <3>2. pos' = pos /\ holding' = holding
        <4>1. ~(pos'["CNC"].qty >= 0)
          <5>1. pos'["CNC"].qty \in Int
            BY <1>3, SettleKeeps DEF Stored, Carried, Row
          <5>2. QED
            BY <5>1
        <4>2. QED
          BY <3>1, <4>1, SettleOutcome
      <3>3. QED
        BY <3>1, <3>2 DEF Owned
    <2>3. ASSUME cuts' = 0, Accounted PROVE Accounted'
      <3>1. /\ Holds(funds') - Cost(pos'["CNC"]) = Holds(funds) - Cost(pos["CNC"])
            /\ pos'["MIS"] = pos["MIS"]
        BY <2>1, <2>3, SettleOutcome
      <3>2. Holds(funds') \in Int /\ Cost(pos'["CNC"]) \in Int
        <4>1. funds' \in Account /\ pos'["CNC"] \in Row
          BY <1>3, SettleKeeps DEF Stored, Carried
        <4>2. QED
          BY <4>1 DEF Account, Row, Holds, Cost
      <3>3. /\ StartingCapital \in Int /\ history.paid \in Int
            /\ Cost(pos["CNC"]) \in Int /\ Cost(pos["MIS"]) \in Int /\ Holds(funds) \in Int
        BY AmountTypes DEF Inv
      <3>4. Holds(funds) = StartingCapital - history.paid + Cost(pos["CNC"]) + Cost(pos["MIS"])
        BY <2>3 DEF Accounted
      <3>5. Cost(pos'["MIS"]) = Cost(pos["MIS"]) /\ history'.paid = history.paid
        BY <1>3, <3>1
      <3>6. Holds(funds') = StartingCapital - history'.paid + Cost(pos'["CNC"]) + Cost(pos'["MIS"])
        BY <3>1, <3>2, <3>3, <3>4, <3>5
      <3>7. QED
        BY <3>6 DEF Accounted
    <2>4. QED
      BY <1>1, <1>3, <2>1, <2>2, <2>3
  <1>4. CASE SettlementJob \/ CatchUpSettlement \/ Crash
    BY <1>3, <1>4 DEF SettlementJob, CatchUpSettlement, Crash
  <1>5. ASSUME UNCHANGED <<pos, funds, holding, cuts>>, history'.paid = history.paid,
               history'.clamped = history.clamped
        PROVE  Owned' /\ CashFollowsTrades'
    BY <1>5 DEF Owned, CashFollowsTrades
  <1>6. CASE Midnight \/ Login \/ CatchUpReset \/ UNCHANGED vars
    BY <1>5, <1>6 DEF Midnight, Login, CatchUpReset, vars, job
  <1>7. CASE SessionBoundary
    <2>1. history'.paid = history.paid /\ history'.clamped = history.clamped
      BY <1>7 DEF SessionBoundary, Inv, TypeOK
    <2>2. QED
      BY <1>5, <1>7, <2>1 DEF SessionBoundary
  <1>8. CASE CatchUpMis
    <2>1. CASE UNCHANGED <<pos, funds, touched, history>>
      BY <1>5, <1>8, <2>1 DEF CatchUpMis
    <2>2. ASSUME NEW price \in {quote.ltp : quote \in Quotes}, CloseStale(price)
          PROVE  Owned' /\ CashFollowsTrades'
      <3>1. UNCHANGED <<holding, cuts>>
        BY <1>8 DEF CatchUpMis
      <3>2. pos'["CNC"] = pos["CNC"]
        BY <2>2 DEF CloseStale, Inv, TypeOK, Carried
      <3>3. history.clamped => history'.clamped
        BY <2>2 DEF CloseStale, Inv, TypeOK
      <3>4. Owned'
        BY <3>1, <3>2 DEF Owned
      <3>5. Clear' /\ Accounted => Accounted'
        BY <2>2, StaleAccounted
      <3>6. QED
        BY <1>1, <3>1, <3>3, <3>4, <3>5
    <2>3. QED
      BY <1>8, <2>1, <2>2 DEF CatchUpMis
  <1>9. QED
    BY <1>2, <1>4, <1>6, <1>7, <1>8 DEF Next

\* Cash and margin are the starting capital less what the trades have cost, with
\* the open positions at cost, over any number of trades, settlements and
\* catch-ups, as long as no average is rounded and no profit closed without margin
\* (fund_manager.py transfer_margin_to_holdings, credit_sale_proceeds).
THEOREM CashKept == Spec /\ [][ExactFills]_vars => []CashFollowsTrades
  <1>1. Init => Owned /\ CashFollowsTrades
    <2> SUFFICES ASSUME Init PROVE Owned /\ CashFollowsTrades
      OBVIOUS
    <2>1. pos["CNC"].qty = 0 /\ pos["MIS"].qty = 0 /\ pos["CNC"].avg = 0 /\ pos["MIS"].avg = 0
      BY DEF Init, Carried, NoRow
    <2>2. funds.available = StartingCapital /\ funds.used = 0 /\ history.paid = 0
      BY DEF Init, FreshAccount, NoHistory
    <2>3. QED
      BY <2>1, <2>2, MoneyAssumption DEF Owned, CashFollowsTrades
  <1>2. Inv /\ Owned /\ CashFollowsTrades /\ [Next]_vars /\ [ExactFills]_vars
            => Owned' /\ CashFollowsTrades'
    <2> SUFFICES ASSUME Inv, Owned, CashFollowsTrades, [Next]_vars, [ExactFills]_vars
                 PROVE  Owned' /\ CashFollowsTrades'
      OBVIOUS
    <2>1. CASE ExactFills
      BY <2>1, CashKeeps
    <2>2. CASE UNCHANGED vars
      BY <2>2 DEF Owned, CashFollowsTrades, vars, job
    <2>3. QED
      BY <2>1, <2>2
  <1>3. QED
    BY <1>1, <1>2, InvAlways, PTL DEF Spec
=============================================================================
