-------------------------- MODULE SandboxTrading --------------------------
(***************************************************************************)
(* One trading day of one sandbox user in one symbol: the order manager,   *)
(* the execution engine, the fund manager and the MIS square-off job       *)
(* (sandbox/order_manager.py, execution_engine.py, fund_manager.py,        *)
(* position_manager.py close_position, squareoff_manager.py).  Each        *)
(* handler is one atomic step here; ExecutionRace takes them apart.        *)
(***************************************************************************)
EXTENDS SandboxNetting, FiniteSets, Functions

CONSTANTS
    UserOrder,      \* bound: ids for the orders the user places
    SystemOrder,    \* bound: ids for the orders the square-off job places
    OrderTypes,     \* bound: the order types the user places
    Quantities,     \* bound: the quantities the user asks for
    Prices,         \* bound: the prices the user asks for
    Quotes,         \* bound: the quotes the market shows
    HeldShares,     \* shares settled into holdings on earlier days
    QuoteOutages,   \* may a quote be unavailable when a MARKET order is placed
    MaxResets       \* bound: scheduled resets of the account

OrderId == UserOrder \cup SystemOrder

ASSUME TradingAssumption ==
    /\ UserOrder \cap SystemOrder = {}
    /\ IsFiniteSet(OrderId)
    /\ OrderTypes \subseteq OrderType
    /\ Quantities \subseteq Nat \ {0}
    /\ Prices \subseteq Nat \ {0}
    /\ Quotes \subseteq Quote
    /\ HeldShares \in Nat
    /\ QuoteOutages \in BOOLEAN
    /\ MaxResets \in Nat

VARIABLES
    orders,    \* SandboxOrders, by order id
    pos,       \* SandboxPositions, by product
    funds,     \* the SandboxFunds row
    holdings,  \* quantity of the SandboxHoldings row
    session,   \* "open" until the square-off time of the exchange, then "closed"
    sweep      \* the square-off job: its stage and the orders it has listed

vars == <<orders, pos, funds, holdings, session, sweep>>

Blank == [status |-> "none", action |-> "BUY", type |-> "MARKET", product |-> "MIS",
          qty |-> 0, price |-> 0, trigger |-> 0, margin |-> 0, avg |-> 0]

Idle == [stage |-> "idle", listed |-> {}]

Init ==
    /\ orders = [o \in OrderId |-> Blank]
    /\ pos = [p \in Product |-> NoRow]
    /\ funds = FreshAccount(0)
    /\ holdings = HeldShares
    /\ session = "open"
    /\ sweep = Idle

-----------------------------------------------------------------------------
\* Sum of margin_blocked over the rows with a quantity.
PositionMargin(rows) ==
    OpenMargin(rows["CNC"]) + OpenMargin(rows["MIS"]) + OpenMargin(rows["NRML"])

\* What _validate_order lets through; a price the type does not use is absent.
Requests ==
    { r \in [action : Action, type : OrderTypes, product : Product, qty : Quantities,
             price : Prices \cup {0}, trigger : Prices \cup {0}] :
        /\ r.product # IF Instrument = "equity" THEN "NRML" ELSE "CNC"
        /\ r.type \in Limited <=> r.price > 0
        /\ r.type \in Stop <=> r.trigger > 0 }

\* Mutant of CloseRequest: the position's quantity with its sign.
CloseRequestSigned(p, qty) ==
    [action |-> IF qty > 0 THEN "SELL" ELSE "BUY", type |-> "MARKET", product |-> p,
     qty |-> qty, price |-> 0, trigger |-> 0]

CloseRequest(p, qty) ==
    [action |-> IF qty > 0 THEN "SELL" ELSE "BUY", type |-> "MARKET", product |-> p,
     qty |-> Abs(qty), price |-> 0, trigger |-> 0]

\* After the square-off time a MIS order must go against the position.
Admitted(r) ==
    r.product = "MIS" /\ session = "closed" => Opposes(pos["MIS"].qty, r.action)

\* A CNC sale is held against the long position and the holdings.
Deliverable(r) ==
    r.action = "SELL" /\ r.product = "CNC" =>
        r.qty <= holdings + (IF pos["CNC"].qty > 0 THEN pos["CNC"].qty ELSE 0)

\* _execute_order and _update_position for an order, from account acc.
Execute(o, order, acc, price) ==
    LET p    == order.product
        rows == [pos EXCEPT ![p] = Netted(@, order, price)]
    IN  /\ orders' = [orders EXCEPT ![o] = [order EXCEPT !.status = "complete", !.avg = price]]
        /\ pos' = rows
        /\ funds' = Reconcile(Settled(acc, pos[p], order, price), PositionMargin(rows))

Rest(o, order, acc) ==
    /\ orders' = [orders EXCEPT ![o] = order]
    /\ funds' = acc
    /\ UNCHANGED pos

Reject(o, order) ==
    /\ orders' = [orders EXCEPT ![o] = [order EXCEPT !.status = "rejected", !.margin = 0]]
    /\ UNCHANGED <<pos, funds>>

\* place_order once the margin price is known: reject, or block the margin and
\* store the order, which stays open (fill = 0) or executes at the price fill.
Place(o, r, price, fill) ==
    LET order == Accepted(r, pos[r.product].qty, price)
        acc   == Block(funds, Taken(order))
    IN  /\ orders[o].status = "none"
        /\ Admitted(r)
        /\ \/ ~Deliverable(r) /\ Reject(o, order)
           \/ /\ Deliverable(r)
              /\ Taken(order) > 0 => CanBlock(funds, Taken(order))
              /\ \/ fill = 0 /\ Rest(o, order, acc)
                 \/ fill > 0 /\ Execute(o, order, acc, fill)

LastPrices == {quote.ltp : quote \in Quotes}
PendingPrice(r) == IF r.type = "LIMIT" THEN r.price ELSE r.trigger

PlaceMarket(o, r, quote) ==
    r.type = "MARKET" /\ Place(o, r, quote.ltp, MarketPrice(r, quote))

\* No quote after three attempts: the position's last price is used for the
\* margin, and the order stays open.
PlaceUnquoted(o, r) ==
    /\ QuoteOutages
    /\ r.type = "MARKET"
    /\ pos[r.product].seen
    /\ \E ltp \in LastPrices : Place(o, r, ltp, 0)

\* LIMIT, SL and SL-M: without a prefetched quote, or when it does not execute
\* the order, the order waits for the engine.
PlacePending(o, r) ==
    r.type # "MARKET" /\ Place(o, r, PendingPrice(r), 0)

\* A basket order comes with a quote, and executes at once when that allows it.
PlaceExecutable(o, r, quote) ==
    /\ r.type # "MARKET"
    /\ Executable(r, quote)
    /\ Place(o, r, PendingPrice(r), quote.ltp)

-----------------------------------------------------------------------------
\* Mutant of CancelOrder: without the status check.
CancelAnyOrder(o) ==
    \E ltp \in LastPrices \cup (IF QuoteOutages THEN {0} ELSE {}) :
        /\ orders[o].status # "none"
        /\ orders' = [orders EXCEPT ![o].status = "cancelled"]
        /\ funds' = Release(funds, CancelledMargin(orders[o], ltp), 0)
        /\ UNCHANGED pos

CancelOrder(o) ==
    \E ltp \in LastPrices \cup (IF QuoteOutages THEN {0} ELSE {}) :
        /\ orders[o].status = "open"
        /\ orders' = [orders EXCEPT ![o].status = "cancelled"]
        /\ funds' = Release(funds, CancelledMargin(orders[o], ltp), 0)
        /\ UNCHANGED pos

\* modify_order touches neither the stored margin nor the account; a trigger is
\* given to the orders that read it.
ModifyOrder(o) ==
    \E qty \in Quantities, price \in Prices \cup {0}, trigger \in Prices \cup {0} :
        /\ orders[o].status = "open"
        /\ trigger > 0 => orders[o].type \in Stop
        /\ orders' = [orders EXCEPT
                        ![o].qty     = qty,
                        ![o].price   = IF price > 0 THEN price ELSE @,
                        ![o].trigger = IF trigger > 0 THEN trigger ELSE @]
        /\ UNCHANGED <<pos, funds>>

\* check_and_execute_pending_orders or a market data tick, for one order.
ProcessOrder(o, quote) ==
    /\ orders[o].status = "open"
    /\ Executable(orders[o], quote)
    /\ Execute(o, orders[o], funds, RestingPrice(orders[o], quote))

\* close_position, as the user calls it.
ClosePosition(o, p, quote) ==
    /\ pos[p].qty # 0
    /\ PlaceMarket(o, CloseRequest(p, pos[p].qty), quote)

\* Mutant of ResetFunds: the used margin survives.
ResetKeepingMargin ==
    /\ funds.resets < MaxResets
    /\ funds' = [FreshAccount(funds.resets + 1) EXCEPT !.used = funds.used]
    /\ pos' = [p \in Product |-> NoRow]
    /\ holdings' = 0
    /\ UNCHANGED <<orders, session, sweep>>

\* The scheduled reset: pending orders survive it.
ResetFunds ==
    /\ funds.resets < MaxResets
    /\ funds' = FreshAccount(funds.resets + 1)
    /\ pos' = [p \in Product |-> NoRow]
    /\ holdings' = 0
    /\ UNCHANGED <<orders, session, sweep>>

Elsewhere == UNCHANGED <<holdings, session, sweep>>

UserPlaces ==
    /\ Elsewhere
    /\ \E o \in UserOrder, r \in Requests :
           \/ PlacePending(o, r)
           \/ PlaceUnquoted(o, r)
           \/ \E quote \in Quotes : PlaceMarket(o, r, quote) \/ PlaceExecutable(o, r, quote)

UserCloses ==
    /\ Elsewhere
    /\ \E o \in UserOrder, p \in Product, quote \in Quotes : ClosePosition(o, p, quote)

UserCancels  == Elsewhere /\ \E o \in OrderId : CancelOrder(o)
UserModifies == Elsewhere /\ \E o \in OrderId : ModifyOrder(o)

EngineExecutes == Elsewhere /\ \E o \in OrderId, quote \in Quotes : ProcessOrder(o, quote)

-----------------------------------------------------------------------------
\* The exchange's square-off time passes.
Cutoff ==
    /\ session = "open"
    /\ session' = "closed"
    /\ UNCHANGED <<orders, pos, funds, holdings, sweep>>

\* check_and_square_off, every minute: list the open MIS orders, cancel them
\* one by one, then close the MIS position.
SweepStart ==
    /\ session = "closed"
    /\ sweep.stage = "idle"
    /\ sweep' = [stage  |-> "cancel",
                 listed |-> {o \in OrderId : orders[o].status = "open"
                                             /\ orders[o].product = "MIS"}]
    /\ UNCHANGED <<orders, pos, funds, holdings, session>>

SweepCancel(o) ==
    /\ sweep.stage = "cancel"
    /\ o \in sweep.listed
    /\ sweep' = [sweep EXCEPT !.listed = @ \ {o}]
    /\ \/ CancelOrder(o)
       \/ orders[o].status # "open" /\ UNCHANGED <<orders, pos, funds>>
    /\ UNCHANGED <<holdings, session>>

\* Mutant of SweepClose: short positions are taken for flat.
SweepCloseLongs ==
    /\ sweep.stage = "cancel"
    /\ sweep.listed = {}
    /\ sweep' = Idle
    /\ \/ pos["MIS"].qty <= 0 /\ UNCHANGED <<orders, pos, funds>>
       \/ /\ pos["MIS"].qty > 0
          /\ \E o \in SystemOrder, quote \in Quotes : ClosePosition(o, "MIS", quote)
    /\ UNCHANGED <<holdings, session>>

SweepClose ==
    /\ sweep.stage = "cancel"
    /\ sweep.listed = {}
    /\ sweep' = Idle
    /\ \/ pos["MIS"].qty = 0 /\ UNCHANGED <<orders, pos, funds>>
       \/ \E o \in SystemOrder, quote \in Quotes : ClosePosition(o, "MIS", quote)
       \/ \E o \in SystemOrder :
              /\ pos["MIS"].qty # 0
              /\ PlaceUnquoted(o, CloseRequest("MIS", pos["MIS"].qty))
    /\ UNCHANGED <<holdings, session>>

Sweep == SweepStart \/ (\E o \in OrderId : SweepCancel(o)) \/ SweepClose

Next ==
    \/ UserPlaces
    \/ UserCloses
    \/ UserCancels
    \/ UserModifies
    \/ EngineExecutes
    \/ ResetFunds
    \/ Cutoff
    \/ Sweep

Spec == Init /\ [][Next]_vars

\* The scheduler runs the square-off job every minute (squareoff_thread.py).
FairSpec == Spec /\ WF_vars(Sweep)
-----------------------------------------------------------------------------
TypeOK ==
    /\ orders \in [OrderId -> Order]
    /\ pos \in [Product -> Row]
    /\ funds \in Account
    /\ holdings \in Nat
    /\ session \in {"open", "closed"}
    /\ sweep \in [stage : {"idle", "cancel"}, listed : SUBSET OrderId]

\* Whatever is blocked, released, netted, reconciled or reset, the user's cash
\* and margin add up to the starting capital and the profit booked so far
\* (fund_manager.py: block_margin, release_margin, reconcile_margin).
EquityConserved ==
    funds.available + funds.used = StartingCapital + funds.realized

\* A LIMIT or SL order never trades at a price worse than its limit, on either
\* execution path and after any modification (execution_engine.py _process_order,
\* order_manager.py immediate execution).
FillsRespectLimits ==
    \A o \in OrderId :
        orders[o].status = "complete" /\ orders[o].type \in Limited =>
            WithinLimit(orders[o], orders[o].avg)

Traded(o, p) == orders[o].status = "complete" /\ orders[o].product = p

\* What each order's trade added to a position, and what it cost.
TradedQty(p)  == [o \in OrderId |-> IF Traded(o, p) THEN Signed(orders[o]) ELSE 0]
TradedCash(p) ==
    [o \in OrderId |-> IF Traded(o, p) THEN Signed(orders[o]) * orders[o].avg ELSE 0]

\* Until the account is reset, netting loses no trade: a position is the sum of
\* the trades of its product, through additions, reductions, reversals and
\* reopenings (execution_engine.py _update_position).
PositionsMatchTrades ==
    funds.resets = 0 =>
        \A p \in Product : pos[p].qty = SumFunction(TradedQty(p))

\* Average-cost accounting: the profit booked on a position is what its sales
\* brought less what its purchases cost, the open quantity valued at its
\* average price (execution_engine.py _calculate_realized_pnl and averaging).
\* Exact when the averages are: the runs choose prices that divide.
PnlMatchesTrades ==
    funds.resets = 0 =>
        \A p \in Product :
            pos[p].pnl = pos[p].qty * pos[p].avg - SumFunction(TradedCash(p))

\* What a resting order has stored as its margin.
Blocked(order) == IF order.status = "open" THEN order.margin ELSE 0

\* No margin is stuck: the account never holds more than its open positions and
\* the orders that still rest account for, whatever was modified after its margin
\* was blocked, cancelled by the user or the square-off job, netted against a
\* position that has changed since, or reset (order_manager.py place_order and
\* cancel_order, fund_manager.py release_margin, reconcile_margin).
NoMarginStuck ==
    funds.used <= PositionMargin(pos) + SumFunction([o \in OrderId |-> Blocked(orders[o])])

\* The order book seen by the user implements the abstract one.
Book == INSTANCE OrderBook WITH
            status <- [o \in OrderId |-> orders[o].status],
            fill   <- [o \in OrderId |-> orders[o].avg]

\* Every order lives the life OrderBook allows: decided once, one trade, and no
\* handler changes two orders in one step (order_manager.py status checks).
BookSpec == Book!Spec

\* Once the square-off time has passed the MIS position becomes flat and stays
\* flat, whatever the user still sends (squareoff_manager.py).
SquareOffCompletes == session = "closed" ~> [](pos["MIS"].qty = 0)

=============================================================================
