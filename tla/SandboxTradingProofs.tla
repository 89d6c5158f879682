----------------------- MODULE SandboxTradingProofs -----------------------
(***************************************************************************)
(* Theorems of SandboxTrading for every set of orders, quantities, prices, *)
(* quotes and leverages.  Every step does one of a few things to the       *)
(* orders, the positions and the account (Effects); each result is then    *)
(* proved effect by effect.                                                *)
(***************************************************************************)
EXTENDS SandboxTrading, SandboxMoneyProofs

\* A resting LIMIT order has a limit to fill at, an order that traded respected
\* its limit, and no order has stored a negative margin.
Sound(x) ==
    /\ x.margin >= 0
    /\ x.status = "none" => x.avg = 0
    /\ x.status = "open" /\ x.type = "LIMIT" => x.price > 0
    /\ x.status = "complete" /\ x.type \in Limited => WithinLimit(x, x.avg)

\* The inductive part of the state: orders, positions and account.
Ledger ==
    /\ orders \in [OrderId -> Order]
    /\ pos \in [Product -> Row]
    /\ funds \in Account
    /\ Balanced(funds)
    /\ \A p \in Product : Real(pos[p])
    /\ \A o \in OrderId : Sound(orders[o])
    /\ NoMarginStuck

Day ==
    /\ holdings \in Nat
    /\ session \in {"open", "closed"}
    /\ sweep \in [stage : {"idle", "cancel"}, listed : SUBSET OrderId]

Inv == Ledger /\ Day

\* The effects.
Fills(o, order, acc, price) ==
    /\ orders[o].status \in {"none", "open"}
    /\ order \in Order /\ order.margin >= 0
    /\ order.type \in Limited => WithinLimit(order, price)
    /\ acc \in Account /\ Balanced(acc) /\ acc.resets = funds.resets
    /\ price \in Nat /\ price > 0
    /\ Execute(o, order, acc, price)

\* An order is stored without a trade: open, rejected, cancelled or modified.  The
\* account takes no more margin than the order stores, and gives back no less.
Stores(o, order, acc) ==
    /\ \/ orders[o].status = "none" /\ order.status \in {"open", "rejected"}
       \/ orders[o].status = "open" /\ order.status \in {"open", "cancelled"}
    /\ orders[o].avg = order.avg
    /\ order \in Order /\ Sound(order)
    /\ acc \in Account /\ Balanced(acc) /\ acc.resets = funds.resets
    /\ acc.used - funds.used <= Blocked(order) - Blocked(orders[o])
    /\ orders' = [orders EXCEPT ![o] = order]
    /\ funds' = acc
    /\ UNCHANGED pos

\* The account starts again, without positions.
Wipes(acc) ==
    /\ acc \in Account /\ Balanced(acc) /\ acc.resets > 0 /\ acc.used = 0
    /\ pos' = [p \in Product |-> NoRow]
    /\ funds' = acc
    /\ UNCHANGED orders

Leaves == UNCHANGED <<orders, pos, funds>>

Effects ==
    \/ \E o \in OrderId, order \in Order, acc \in Account, price \in Nat :
           Fills(o, order, acc, price)
    \/ \E o \in OrderId, order \in Order, acc \in Account : Stores(o, order, acc)
    \/ \E acc \in Account : Wipes(acc)
    \/ Leaves

-----------------------------------------------------------------------------
Request == [action : Action, type : OrderType, product : Product,
            qty : Nat, price : Nat, trigger : Nat]

\* Completing an order changes its status and its fill price only.
LEMMA DecidedFields ==
    ASSUME NEW x \in Order, NEW s \in {"none", "open", "complete", "cancelled", "rejected"},
           NEW price \in Nat
    PROVE  LET d == [x EXCEPT !.status = s, !.avg = price]
           IN  /\ d \in Order
               /\ d.status = s /\ d.avg = price
               /\ d.type = x.type /\ d.action = x.action /\ d.price = x.price
               /\ d.product = x.product /\ d.qty = x.qty /\ d.margin = x.margin
  BY Zenon DEF Order

\* Rejecting an order leaves a well-formed order without a fill.
LEMMA DroppedFields ==
    ASSUME NEW x \in Order, NEW m \in Int
    PROVE  LET d == [x EXCEPT !.status = "rejected", !.margin = m]
           IN  d \in Order /\ d.status = "rejected" /\ d.avg = x.avg /\ d.margin = m
  BY Zenon DEF Order

\* Cancelling an order leaves a well-formed order with its fill as it was.
LEMMA CancelledFields ==
    ASSUME NEW x \in Order
    PROVE  LET d == [x EXCEPT !.status = "cancelled"]
           IN  d \in Order /\ d.status = "cancelled" /\ d.avg = x.avg /\ d.margin = x.margin
  BY Zenon DEF Order

\* The margin of the open positions is an integer amount.
LEMMA PositionMarginType ==
    ASSUME NEW rows \in [Product -> Row]
    PROVE  PositionMargin(rows) \in Int
  <1>1. \A p \in Product : OpenMargin(rows[p]) \in Int
    BY DEF OpenMargin, Row
  <1>2. QED
    BY <1>1 DEF PositionMargin, Product

\* place_order builds a well-formed open order that keeps the request's type,
\* side and limit.
LEMMA AcceptedType ==
    ASSUME Ledger, NEW r \in Request, NEW price \in Nat, r.type = "LIMIT" => r.price > 0
    PROVE  LET order == Accepted(r, pos[r.product].qty, price)
           IN  /\ order \in Order
               /\ order.status = "open" /\ order.avg = 0 /\ order.margin >= 0
               /\ order.type = r.type /\ order.action = r.action
               /\ r.type # "MARKET" => order.price = r.price
  <1>1. pos[r.product].qty \in Int
    BY DEF Ledger, Request, Row
  <1>2. MarginToBlock(pos[r.product].qty, r.product, r.action, r.qty, price) \in Nat
    BY <1>1, MarginToBlockType DEF Request
  <1>3. QED
    BY <1>2 DEF Accepted, Order, Request

\* place_order, in each of its outcomes, has one of the effects.
LEMMA PlaceEffect ==
    ASSUME Ledger, NEW o \in OrderId, NEW r \in Request, NEW price \in Nat, NEW fill \in Nat,
           r.type = "LIMIT" => r.price > 0,
           fill > 0 /\ r.type \in Limited => WithinLimit(r, fill),
           Place(o, r, price, fill)
    PROVE  Effects
  <1> DEFINE order == Accepted(r, pos[r.product].qty, price)
             acc   == Block(funds, Taken(order))
  <1>1. /\ order \in Order
        /\ order.status = "open" /\ order.avg = 0 /\ order.margin >= 0
        /\ order.type = r.type /\ order.action = r.action
        /\ r.type # "MARKET" => order.price = r.price
    BY AcceptedType
  <1>2. /\ acc \in Account /\ Balanced(acc) /\ acc.resets = funds.resets
        /\ acc.used - funds.used <= order.margin
    <2>1. Taken(order) \in Int /\ Taken(order) <= order.margin
      BY <1>1 DEF Taken, Order
    <2>2. /\ Block(funds, Taken(order)).used = funds.used + Taken(order)
          /\ funds.used \in Int /\ order.margin \in Int
      BY <1>1 DEF Block, Ledger, Account, Order
    <2>3. acc.used - funds.used <= order.margin
      BY <2>1, <2>2
    <2>4. QED
      BY <2>1, <2>3, BlockBalanced DEF Ledger
  <1>3. orders[o].status = "none" /\ orders[o].avg = 0
    BY DEF Place, Ledger, Sound
  <1> HIDE DEF order, acc
  <1>4. CASE Reject(o, order)
    <2> DEFINE gone == [order EXCEPT !.status = "rejected", !.margin = 0]
    <2>1. gone \in Order /\ gone.status = "rejected" /\ gone.avg = 0 /\ gone.margin = 0
      <3>1. 0 \in Int
        OBVIOUS
      <3>2. QED
        BY <1>1, <3>1, DroppedFields, Zenon
    <2>2. funds' = funds /\ pos' = pos /\ orders' = [orders EXCEPT ![o] = gone]
      BY <1>4 DEF Reject
    <2> HIDE DEF gone
    <2>3. Stores(o, gone, funds)
      <3>1. funds.used - funds.used <= Blocked(gone) - Blocked(orders[o])
        BY <1>3, <2>1 DEF Blocked, Ledger, Account
      <3>2. QED
        BY <1>3, <2>1, <2>2, <3>1 DEF Stores, Sound, Ledger
    <2>4. QED
      BY <2>1, <2>3 DEF Effects, Ledger
  <1>5. CASE fill = 0 /\ Rest(o, order, acc)
    <2>1. Sound(order)
      BY <1>1 DEF Sound
    <2>2. Stores(o, order, acc)
      <3>1. acc.used - funds.used <= Blocked(order) - Blocked(orders[o])
        BY <1>1, <1>2, <1>3 DEF Blocked, Order
      <3>2. QED
        BY <1>1, <1>2, <1>3, <1>5, <2>1, <3>1 DEF Stores, Rest
    <2>3. QED
      BY <1>1, <1>2, <2>2 DEF Effects
  <1>6. CASE fill > 0 /\ Execute(o, order, acc, fill)
    <2>1. order.type \in Limited => WithinLimit(order, fill)
      BY <1>1, <1>6 DEF WithinLimit, Limited
    <2>2. Fills(o, order, acc, fill)
      BY <1>1, <1>2, <1>3, <1>6, <2>1 DEF Fills
    <2>3. QED
      BY <1>1, <1>2, <2>2 DEF Effects
  <1>7. QED
    BY <1>4, <1>5, <1>6 DEF Place, order, acc

\* cancel_order stores the cancelled order and releases some amount.
LEMMA CancelEffect ==
    ASSUME Ledger, NEW o \in OrderId, CancelOrder(o)
    PROVE  Effects
  <1>1. PICK ltp \in LastPrices \cup (IF QuoteOutages THEN {0} ELSE {}) :
            /\ orders[o].status = "open"
            /\ orders' = [orders EXCEPT ![o].status = "cancelled"]
            /\ funds' = Release(funds, CancelledMargin(orders[o], ltp), 0)
            /\ UNCHANGED pos
    BY DEF CancelOrder
  <1> DEFINE order == [orders[o] EXCEPT !.status = "cancelled"]
             acc   == Release(funds, CancelledMargin(orders[o], ltp), 0)
  <1>2. ltp \in Nat
    BY TradingAssumption DEF LastPrices, Quote
  <1>3. orders[o] \in Order
    BY DEF Ledger
  <1>4. /\ CancelledMargin(orders[o], ltp) \in Int
        /\ CancelledMargin(orders[o], ltp) >= orders[o].margin
    <2>1. MarginRequired(orders[o].product, orders[o].action, orders[o].qty,
                         IF orders[o].price > 0 THEN orders[o].price ELSE ltp) \in Nat
      BY <1>2, <1>3, MarginRequiredType DEF Order
    <2>2. QED
      BY <1>3, <2>1 DEF CancelledMargin, Order
  <1>5. /\ acc \in Account /\ Balanced(acc) /\ acc.resets = funds.resets
        /\ acc.used = funds.used - CancelledMargin(orders[o], ltp)
    <2>1. acc.used = funds.used - CancelledMargin(orders[o], ltp)
      BY DEF Release, Ledger, Account
    <2>2. QED
      BY <1>4, <2>1, ReleaseBalanced DEF Ledger
  <1>6. /\ order \in Order /\ order.status = "cancelled" /\ order.avg = orders[o].avg
        /\ order.margin = orders[o].margin
    BY <1>3, CancelledFields
  <1>7. orders' = [orders EXCEPT ![o] = order]
    BY <1>1
  <1>8. funds' = acc /\ pos' = pos
    BY <1>1
  <1> HIDE DEF order, acc
  <1>9. Stores(o, order, acc)
    <2>1. acc.used - funds.used <= Blocked(order) - Blocked(orders[o])
      BY <1>1, <1>3, <1>4, <1>5, <1>6 DEF Blocked, Order, Ledger, Account
    <2>2. Sound(order)
      BY <1>6 DEF Sound, Ledger
    <2>3. QED
      BY <1>1, <1>5, <1>6, <1>7, <1>8, <2>1, <2>2 DEF Stores
  <1>10. QED
    BY <1>5, <1>6, <1>9 DEF Effects

\* modify_order stores an open order that still has a limit to fill at.
LEMMA ModifyEffect ==
    ASSUME Ledger, NEW o \in OrderId, ModifyOrder(o)
    PROVE  Effects
  <1>1. PICK qty \in Quantities, price \in Prices \cup {0}, trigger \in Prices \cup {0} :
            /\ orders[o].status = "open"
            /\ orders' = [orders EXCEPT
                            ![o].qty     = qty,
                            ![o].price   = IF price > 0 THEN price ELSE @,
                            ![o].trigger = IF trigger > 0 THEN trigger ELSE @]
            /\ UNCHANGED <<pos, funds>>
    BY DEF ModifyOrder
  <1> DEFINE p == IF price > 0 THEN price ELSE orders[o].price
             t == IF trigger > 0 THEN trigger ELSE orders[o].trigger
             order == [orders[o] EXCEPT !.qty = qty, !.price = p, !.trigger = t]
  <1>2. orders[o] \in Order /\ Sound(orders[o])
    BY DEF Ledger
  <1>3. qty \in Nat /\ p \in Nat /\ t \in Nat /\ (p > 0 \/ p = orders[o].price)
    <2>1. Quantities \subseteq Nat /\ Prices \subseteq Nat
      BY TradingAssumption
    <2>2. QED
      BY <1>2, <2>1 DEF Order
  <1>4. orders' = [orders EXCEPT ![o] = order]
    BY <1>1, Zenon
  <1> HIDE DEF p, t
  <1>5. /\ order \in Order
        /\ order.status = orders[o].status /\ order.avg = orders[o].avg
        /\ order.type = orders[o].type /\ order.price = p
        /\ order.margin = orders[o].margin
    BY <1>2, <1>3, Zenon DEF Order
  <1> HIDE DEF order
  <1>6. Sound(order)
    BY <1>1, <1>2, <1>3, <1>5 DEF Sound
  <1>7. Stores(o, order, funds)
    <2>1. funds.used - funds.used <= Blocked(order) - Blocked(orders[o])
      BY <1>1, <1>2, <1>5 DEF Blocked, Order, Ledger, Account
    <2>2. QED
      BY <1>1, <1>4, <1>5, <1>6, <2>1 DEF Stores, Ledger
  <1>8. QED
    BY <1>5, <1>7 DEF Effects, Ledger

\* _process_order fills an order that was open, within its limit.
LEMMA ProcessEffect ==
    ASSUME Ledger, NEW o \in OrderId, NEW quote \in Quotes, ProcessOrder(o, quote)
    PROVE  Effects
  <1> DEFINE order == orders[o]
             price == RestingPrice(order, quote)
  <1>1. /\ order \in Order /\ Sound(order) /\ order.status = "open"
        /\ Executable(order, quote)
        /\ Execute(o, order, funds, price)
    BY DEF ProcessOrder, Ledger
  <1>2. /\ quote.ltp \in Nat /\ quote.ltp > 0 /\ quote.bid \in Nat /\ quote.ask \in Nat
    BY TradingAssumption DEF Quote
  <1>3. order.type \in {"MARKET", "LIMIT", "SL", "SL-M"} /\ order.price \in Nat
        /\ order.action \in {"BUY", "SELL"}
    BY <1>1 DEF Order, OrderType, Action
  <1> HIDE DEF order
  <1>4. price \in Nat /\ price > 0
    BY <1>1, <1>2, <1>3 DEF RestingPrice, MarketPrice, Stop, Sound
  <1>5. order.type \in Limited => WithinLimit(order, price)
    BY <1>1, <1>2, <1>3 DEF RestingPrice, Stop, Executable, Limited, WithinLimit
  <1> HIDE DEF price
  <1>6. Fills(o, order, funds, price)
    BY <1>1, <1>4, <1>5 DEF Fills, Sound, Ledger, order
  <1>7. QED
    BY <1>1, <1>4, <1>6 DEF Effects, Ledger

-----------------------------------------------------------------------------
\* A quote has a positive last price, and a bid and an ask that may be absent.
LEMMA QuoteType ==
    ASSUME NEW quote \in Quotes
    PROVE  quote.ltp \in Nat /\ quote.ltp > 0 /\ quote.bid \in Nat /\ quote.ask \in Nat
  BY TradingAssumption DEF Quote

\* _validate_order lets through well-formed requests, a LIMIT with its price.
LEMMA RequestsType ==
    ASSUME NEW r \in Requests
    PROVE  r \in Request /\ (r.type = "LIMIT" => r.price > 0)
  <1>1. /\ r \in [action : Action, type : OrderTypes, product : Product, qty : Quantities,
                  price : Prices \cup {0}, trigger : Prices \cup {0}]
        /\ r.type \in Limited <=> r.price > 0
    BY DEF Requests
  <1>2. /\ OrderTypes \subseteq OrderType /\ Quantities \subseteq Nat
        /\ Prices \cup {0} \subseteq Nat
    BY TradingAssumption
  <1>3. r \in Request
    BY <1>1, <1>2 DEF Request
  <1>4. QED
    BY <1>1, <1>3 DEF Limited

\* close_position builds a well-formed MARKET request.
LEMMA CloseRequestType ==
    ASSUME NEW p \in Product, NEW qty \in Int
    PROVE  CloseRequest(p, qty) \in Request /\ CloseRequest(p, qty).type = "MARKET"
  BY DEF CloseRequest, Request, Action, OrderType, Abs

\* A MARKET order with a quote has one of the effects.
LEMMA PlaceMarketEffect ==
    ASSUME Ledger, NEW o \in OrderId, NEW r \in Request, NEW quote \in Quotes,
           PlaceMarket(o, r, quote)
    PROVE  Effects
  <1>1. r.type = "MARKET" /\ Place(o, r, quote.ltp, MarketPrice(r, quote))
    BY DEF PlaceMarket
  <1>2. quote.ltp \in Nat /\ MarketPrice(r, quote) \in Nat
    BY QuoteType DEF MarketPrice
  <1>3. QED
    BY <1>1, <1>2, PlaceEffect DEF Limited

\* A MARKET order without a quote has one of the effects.
LEMMA PlaceUnquotedEffect ==
    ASSUME Ledger, NEW o \in OrderId, NEW r \in Request, PlaceUnquoted(o, r)
    PROVE  Effects
  <1>1. PICK ltp \in LastPrices : Place(o, r, ltp, 0)
    BY DEF PlaceUnquoted
  <1>2. ltp \in Nat /\ r.type = "MARKET"
    BY QuoteType DEF LastPrices, PlaceUnquoted
  <1>3. QED
    BY <1>1, <1>2, PlaceEffect

\* A priced order that waits has one of the effects.
LEMMA PlacePendingEffect ==
    ASSUME Ledger, NEW o \in OrderId, NEW r \in Requests, PlacePending(o, r)
    PROVE  Effects
  <1>1. PendingPrice(r) \in Nat
    BY RequestsType DEF PendingPrice, Request
  <1>2. QED
    BY <1>1, RequestsType, PlaceEffect DEF PlacePending

\* A priced order that executes at once has one of the effects.
LEMMA PlaceExecutableEffect ==
    ASSUME Ledger, NEW o \in OrderId, NEW r \in Requests, NEW quote \in Quotes,
           PlaceExecutable(o, r, quote)
    PROVE  Effects
  <1>1. PendingPrice(r) \in Nat
    BY RequestsType DEF PendingPrice, Request
  <1>2. r.type \in Limited => WithinLimit(r, quote.ltp)
    BY DEF PlaceExecutable, Executable
  <1>3. QED
    BY <1>1, <1>2, RequestsType, QuoteType, PlaceEffect DEF PlaceExecutable

\* close_position has one of the effects.
LEMMA CloseEffect ==
    ASSUME Ledger, NEW o \in OrderId, NEW p \in Product, NEW quote \in Quotes,
           ClosePosition(o, p, quote)
    PROVE  Effects
  <1>1. pos[p].qty \in Int
    BY DEF Ledger, Row
  <1>2. QED
    BY <1>1, CloseRequestType, PlaceMarketEffect DEF ClosePosition

\* _reset_funds writes a balanced account and empties the positions.
LEMMA ResetEffect ==
    ASSUME Ledger, ResetFunds
    PROVE  Effects
  <1>1. funds.resets + 1 \in Nat /\ funds.resets + 1 > 0
    BY DEF Ledger, Account
  <1>2. /\ FreshAccount(funds.resets + 1) \in Account
        /\ Balanced(FreshAccount(funds.resets + 1))
        /\ FreshAccount(funds.resets + 1).resets > 0
        /\ FreshAccount(funds.resets + 1).used = 0
    BY <1>1, FreshAccountBalanced DEF FreshAccount
  <1>3. Wipes(FreshAccount(funds.resets + 1))
    BY <1>2 DEF ResetFunds, Wipes
  <1>4. QED
    BY <1>2, <1>3 DEF Effects

\* The closing stage of the square-off job has one of the effects.
LEMMA SweepCloseEffect ==
    ASSUME Ledger, SweepClose
    PROVE  Effects
  <1>1. CASE pos["MIS"].qty = 0 /\ UNCHANGED <<orders, pos, funds>>
    BY <1>1 DEF Effects, Leaves
  <1>2. CASE \E o \in SystemOrder, quote \in Quotes : ClosePosition(o, "MIS", quote)
    BY <1>2, CloseEffect DEF OrderId, Product
  <1>3. CASE \E o \in SystemOrder : PlaceUnquoted(o, CloseRequest("MIS", pos["MIS"].qty))
    <2>1. pos["MIS"].qty \in Int /\ "MIS" \in Product
      BY DEF Ledger, Row, Product
    <2>2. CloseRequest("MIS", pos["MIS"].qty) \in Request
      BY <2>1, CloseRequestType
    <2>3. QED
      BY <1>3, <2>2, PlaceUnquotedEffect DEF OrderId
  <1>4. QED
    BY <1>1, <1>2, <1>3 DEF SweepClose

\* Every step of the system is one of the effects.
LEMMA NextEffects ==
    ASSUME Ledger, [Next]_vars
    PROVE  Effects
  <1>1. CASE UserPlaces
    <2>1. PICK o \in UserOrder, r \in Requests :
              \/ PlacePending(o, r)
              \/ PlaceUnquoted(o, r)
              \/ \E quote \in Quotes : PlaceMarket(o, r, quote) \/ PlaceExecutable(o, r, quote)
      BY <1>1 DEF UserPlaces
    <2>2. o \in OrderId /\ r \in Request
      BY RequestsType DEF OrderId
    <2>3. QED
      BY <2>1, <2>2, PlacePendingEffect, PlaceUnquotedEffect, PlaceMarketEffect,
         PlaceExecutableEffect
  <1>2. CASE UserCloses
    BY <1>2, CloseEffect DEF UserCloses, OrderId
  <1>3. CASE UserCancels
    BY <1>3, CancelEffect DEF UserCancels
  <1>4. CASE UserModifies
    BY <1>4, ModifyEffect DEF UserModifies
  <1>5. CASE EngineExecutes
    BY <1>5, ProcessEffect DEF EngineExecutes
  <1>6. CASE ResetFunds
    BY <1>6, ResetEffect
  <1>7. CASE Cutoff
    BY <1>7 DEF Cutoff, Effects, Leaves
  <1>8. CASE SweepStart
    BY <1>8 DEF SweepStart, Effects, Leaves
  <1>9. CASE \E o \in OrderId : SweepCancel(o)
    BY <1>9, CancelEffect DEF SweepCancel, Effects, Leaves
  <1>10. CASE SweepClose
    BY <1>10, SweepCloseEffect
  <1>11. CASE UNCHANGED vars
    BY <1>11 DEF vars, Effects, Leaves
  <1>12. QED
    BY <1>1, <1>2, <1>3, <1>4, <1>5, <1>6, <1>7, <1>8, <1>9, <1>10, <1>11 DEF Next, Sweep

-----------------------------------------------------------------------------
\* What the resting orders of a book have stored, by order.
StoredMargins(book) == [o \in OrderId |-> Blocked(book[o])]

\* What the resting orders have stored is, in all, not negative.
LEMMA StoredSum ==
    ASSUME NEW book, \A o \in OrderId : book[o] \in Order /\ Sound(book[o])
    PROVE  /\ \A o \in OrderId : StoredMargins(book)[o] \in Nat
           /\ SumFunction(StoredMargins(book)) = SumFunctionOnSet(StoredMargins(book), OrderId)
           /\ SumFunction(StoredMargins(book)) \in Nat
  <1>1. \A o \in OrderId : StoredMargins(book)[o] \in Nat
    BY DEF StoredMargins, Blocked, Sound, Order
  <1>2. SumFunction(StoredMargins(book)) = SumFunctionOnSet(StoredMargins(book), OrderId)
    BY DEF SumFunction, StoredMargins
  <1>3. QED
    BY <1>1, <1>2, SumNatural, TradingAssumption

\* A fill keeps the ledger, reconciles the margin, and touches one order.
LEMMA FillsKeep ==
    ASSUME Ledger, NEW o \in OrderId, NEW order \in Order, NEW acc \in Account,
           NEW price \in Nat, Fills(o, order, acc, price)
    PROVE  /\ Ledger'
           /\ funds'.used = PositionMargin(pos')
           /\ orders'[o].status = "complete" /\ orders'[o].avg = price
           /\ \A q \in OrderId \ {o} : orders'[q] = orders[q]
  <1> DEFINE p     == order.product
             rows  == [pos EXCEPT ![p] = Netted(pos[p], order, price)]
             done  == [order EXCEPT !.status = "complete", !.avg = price]
             after == Settled(acc, pos[p], order, price)
  <1>1. /\ orders' = [orders EXCEPT ![o] = done]
        /\ pos' = rows
        /\ funds' = Reconcile(after, PositionMargin(rows))
    BY DEF Fills, Execute
  <1>2. /\ done \in Order /\ done.status = "complete" /\ done.avg = price
        /\ done.type = order.type /\ done.action = order.action
        /\ done.price = order.price /\ done.margin = order.margin
    BY Zenon DEF Order
  <1> HIDE DEF done
  <1>3. Sound(done)
    BY <1>2 DEF Sound, Fills, WithinLimit
  <1>4. p \in Product /\ pos[p] \in Row
    BY DEF Ledger, Order
  <1>5. rows \in [Product -> Row] /\ \A q \in Product : Real(rows[q])
    <2>1. Netted(pos[p], order, price) \in Row /\ Real(Netted(pos[p], order, price))
      BY <1>4, NettedType, NettedQuantity DEF Ledger
    <2>2. QED
      BY <2>1 DEF Ledger
  <1>6. after \in Account /\ Balanced(after)
    BY <1>4, SettledBalanced DEF Fills
  <1> HIDE DEF p, rows, after
  <1>7. /\ funds' \in Account /\ Balanced(funds')
        /\ funds'.used = PositionMargin(rows)
    BY <1>1, <1>5, <1>6, PositionMarginType, ReconcileBalanced
  <1>8. /\ orders' \in [OrderId -> Order] /\ \A q \in OrderId : Sound(orders'[q])
        /\ orders'[o] = done
        /\ \A q \in OrderId \ {o} : orders'[q] = orders[q]
    BY <1>1, <1>2, <1>3 DEF Ledger
  <1>9. Balanced(funds)'
    BY <1>7 DEF Balanced
  <1>10. Ledger'
    <2>1. \A q \in OrderId : Sound(orders[q])'
      BY <1>8 DEF Sound, WithinLimit
    <2>2. \A q \in Product : Real(pos[q])'
      BY <1>1, <1>5 DEF Real
    <2>3. NoMarginStuck'
      <3>1. \A q \in OrderId : orders'[q] \in Order /\ Sound(orders'[q])
        BY <1>8
      <3>2. SumFunction(StoredMargins(orders')) \in Nat
        BY <3>1, StoredSum
      <3>3. /\ funds'.used = PositionMargin(pos') /\ PositionMargin(pos') \in Int
        BY <1>1, <1>5, <1>7, PositionMarginType
      <3>4. QED
        BY <3>2, <3>3 DEF NoMarginStuck, StoredMargins
    <2>4. QED
      BY <1>1, <1>5, <1>7, <1>8, <1>9, <2>1, <2>2, <2>3 DEF Ledger
  <1>11. QED
    BY <1>1, <1>2, <1>7, <1>8, <1>10

\* Storing an order keeps the ledger and touches one order.
LEMMA StoresKeep ==
    ASSUME Ledger, NEW o \in OrderId, NEW order \in Order, NEW acc \in Account,
           Stores(o, order, acc)
    PROVE  /\ Ledger'
           /\ orders'[o] = order
           /\ \A q \in OrderId \ {o} : orders'[q] = orders[q]
  <1>1. /\ orders' = [orders EXCEPT ![o] = order] /\ Sound(order)
        /\ funds' = acc /\ Balanced(acc) /\ pos' = pos
    BY DEF Stores
  <1>2. /\ orders' \in [OrderId -> Order] /\ \A q \in OrderId : Sound(orders'[q])
        /\ orders'[o] = order
        /\ \A q \in OrderId \ {o} : orders'[q] = orders[q]
    BY <1>1 DEF Ledger
  <1>3. /\ Balanced(funds)' /\ \A q \in OrderId : Sound(orders[q])'
        /\ \A p \in Product : Real(pos[p])'
    BY <1>1, <1>2 DEF Balanced, Sound, WithinLimit, Real, Ledger
  <1>4. NoMarginStuck'
    <2>1. \A q \in OrderId : orders'[q] \in Order /\ Sound(orders'[q])
      BY <1>2
    <2>2. /\ \A q \in OrderId : /\ StoredMargins(orders)[q] \in Int
                                /\ StoredMargins(orders')[q] \in Int
          /\ SumFunction(StoredMargins(orders))
                 = SumFunctionOnSet(StoredMargins(orders), OrderId)
          /\ SumFunction(StoredMargins(orders'))
                 = SumFunctionOnSet(StoredMargins(orders'), OrderId)
          /\ SumFunction(StoredMargins(orders)) \in Int
          /\ SumFunction(StoredMargins(orders')) \in Int
      <3>1. \A q \in OrderId : orders[q] \in Order /\ Sound(orders[q])
        BY DEF Ledger
      <3>2. QED
        BY <2>1, <3>1, StoredSum
    <2>3. /\ StoredMargins(orders)[o] = Blocked(orders[o]) /\ StoredMargins(orders')[o] = Blocked(order)
          /\ \A q \in OrderId \ {o} : StoredMargins(orders')[q] = StoredMargins(orders)[q]
      BY <1>2 DEF StoredMargins, Blocked
    <2>4. SumFunction(StoredMargins(orders'))
              = SumFunction(StoredMargins(orders)) - Blocked(orders[o]) + Blocked(order)
      BY <2>2, <2>3, SumChange, TradingAssumption
    <2>5. acc.used - funds.used <= Blocked(order) - Blocked(orders[o])
      BY DEF Stores
    <2>6. funds.used <= PositionMargin(pos) + SumFunction(StoredMargins(orders))
      BY DEF Ledger, NoMarginStuck, StoredMargins
    <2>7. /\ funds.used \in Int /\ acc.used \in Int /\ PositionMargin(pos) \in Int
          /\ Blocked(orders[o]) \in Int /\ Blocked(order) \in Int
      BY <2>2, <2>3, PositionMarginType DEF Ledger, Account
    <2>8. acc.used <= PositionMargin(pos) + SumFunction(StoredMargins(orders'))
      BY <2>2, <2>4, <2>5, <2>6, <2>7
    <2>9. QED
      BY <1>1, <2>8 DEF NoMarginStuck, StoredMargins, PositionMargin
  <1>5. Ledger'
    BY <1>1, <1>2, <1>3, <1>4 DEF Ledger
  <1>6. QED
    BY <1>2, <1>5

\* A reset keeps the ledger.
LEMMA WipesKeep ==
    ASSUME Ledger, NEW acc \in Account, Wipes(acc)
    PROVE  Ledger'
  <1>1. /\ funds' = acc /\ Balanced(acc) /\ orders' = orders
        /\ pos' \in [Product -> Row] /\ \A p \in Product : Real(pos'[p])
    BY DEF Wipes, NoRow, Row, Real
  <1>2. /\ Balanced(funds)' /\ \A q \in OrderId : Sound(orders[q])'
        /\ \A p \in Product : Real(pos[p])'
    BY <1>1 DEF Balanced, Sound, WithinLimit, Ledger, Real
  <1>3. NoMarginStuck'
    <2>1. acc.used = 0 /\ pos' = [p \in Product |-> NoRow]
      BY DEF Wipes
    <2>2. PositionMargin(pos') = 0
      BY <2>1 DEF PositionMargin, OpenMargin, NoRow, Product
    <2>3. SumFunction(StoredMargins(orders')) \in Nat
      <3>1. StoredMargins(orders') = StoredMargins(orders)
        BY <1>1 DEF StoredMargins
      <3>2. QED
        BY <3>1, StoredSum DEF Ledger
    <2>4. QED
      BY <1>1, <2>1, <2>2, <2>3 DEF NoMarginStuck, StoredMargins
  <1>4. QED
    BY <1>1, <1>2, <1>3 DEF Ledger

\* A step elsewhere keeps the ledger.
LEMMA LeavesKeep ==
    ASSUME Ledger, Leaves
    PROVE  Ledger'
  BY DEF Ledger, Leaves, Balanced, Sound, WithinLimit, Real, NoMarginStuck, PositionMargin

\* Every step keeps the ledger.
LEMMA LedgerKept ==
    ASSUME Ledger, [Next]_vars
    PROVE  Ledger'
  BY NextEffects, FillsKeep, StoresKeep, WipesKeep, LeavesKeep DEF Effects

\* What the orders have traded so far is an integer amount, for each order.
LEMMA TradedType ==
    ASSUME \A o \in OrderId : orders[o] \in Order, NEW p \in Product
    PROVE  /\ DOMAIN TradedQty(p) = OrderId /\ \A o \in OrderId : TradedQty(p)[o] \in Int
           /\ DOMAIN TradedCash(p) = OrderId /\ \A o \in OrderId : TradedCash(p)[o] \in Int
  <1>1. \A o \in OrderId : Signed(orders[o]) \in Int /\ orders[o].avg \in Int
    BY DEF Signed, Order
  <1>2. \A o \in OrderId : Signed(orders[o]) * orders[o].avg \in Int
    BY <1>1
  <1>3. QED
    BY <1>1, <1>2 DEF TradedQty, TradedCash

\* A fill nets into the row of the order's product, and resets nothing.
LEMMA FillResets ==
    ASSUME Ledger, NEW o \in OrderId, NEW order \in Order, NEW acc \in Account,
           NEW price \in Nat, Fills(o, order, acc, price)
    PROVE  /\ pos' = [pos EXCEPT ![order.product] = Netted(pos[order.product], order, price)]
           /\ funds'.resets = funds.resets
  <1> DEFINE p     == order.product
             rows  == [pos EXCEPT ![p] = Netted(pos[p], order, price)]
             after == Settled(acc, pos[p], order, price)
  <1>1. pos' = rows /\ funds' = Reconcile(after, PositionMargin(rows))
    BY DEF Fills, Execute
  <1>2. p \in Product /\ pos[p] \in Row
    BY DEF Ledger, Order
  <1>3. rows \in [Product -> Row]
    BY <1>2, NettedType DEF Ledger
  <1>4. after \in Account /\ after.resets = acc.resets
    BY <1>2, SettledBalanced
  <1> HIDE DEF p, rows, after
  <1>5. funds'.resets = after.resets
    BY <1>1, <1>3, <1>4, PositionMarginType, ReconcileBalanced
  <1>6. QED
    BY <1>1, <1>4, <1>5 DEF Fills, p, rows

\* A fill adds the order to the trades of its product, and to no other's.
LEMMA FillsTraded ==
    ASSUME Ledger, NEW o \in OrderId, NEW order \in Order, NEW acc \in Account,
           NEW price \in Nat, Fills(o, order, acc, price), NEW p \in Product
    PROVE  /\ SumFunction(TradedQty(p)') = SumFunction(TradedQty(p))
                  + (IF order.product = p THEN Signed(order) ELSE 0)
           /\ SumFunction(TradedCash(p)') = SumFunction(TradedCash(p))
                  + (IF order.product = p THEN Signed(order) * price ELSE 0)
  <1> DEFINE done == [order EXCEPT !.status = "complete", !.avg = price]
  <1>1. orders' = [orders EXCEPT ![o] = done]
    BY DEF Fills, Execute
  <1>2. /\ done.status = "complete" /\ done.avg = price
        /\ done.action = order.action /\ done.product = order.product /\ done.qty = order.qty
    BY Zenon DEF Order
  <1>3. Signed(done) = Signed(order)
    BY <1>2 DEF Signed
  <1> HIDE DEF done
  <1>4. orders'[o] = done /\ \A q \in OrderId \ {o} : orders'[q] = orders[q]
    BY <1>1 DEF Ledger
  <1>5. orders[o].status # "complete"
    BY DEF Fills
  <1>6. \A q \in OrderId : orders[q] \in Order /\ orders'[q] \in Order
    BY FillsKeep DEF Ledger
  <1>7. /\ DOMAIN TradedQty(p) = OrderId /\ \A q \in OrderId : TradedQty(p)[q] \in Int
        /\ DOMAIN TradedCash(p) = OrderId /\ \A q \in OrderId : TradedCash(p)[q] \in Int
    BY <1>6, TradedType
  <1>8. /\ \A q \in OrderId : TradedQty(p)'[q] \in Int
        /\ \A q \in OrderId : TradedCash(p)'[q] \in Int
    <2>1. \A q \in OrderId : Signed(orders'[q]) \in Int /\ orders'[q].avg \in Int
      BY <1>6 DEF Signed, Order
    <2>2. \A q \in OrderId : Signed(orders'[q]) * orders'[q].avg \in Int
      BY <2>1
    <2>3. QED
      BY <2>1, <2>2 DEF TradedQty, TradedCash
  <1>9. /\ TradedQty(p)[o] = 0 /\ TradedCash(p)[o] = 0
        /\ TradedQty(p)'[o] = IF order.product = p THEN Signed(order) ELSE 0
        /\ TradedCash(p)'[o] = IF order.product = p THEN Signed(order) * price ELSE 0
    BY <1>2, <1>3, <1>4, <1>5 DEF TradedQty, TradedCash, Traded
  <1>10. \A q \in OrderId \ {o} : /\ TradedQty(p)'[q] = TradedQty(p)[q]
                                  /\ TradedCash(p)'[q] = TradedCash(p)[q]
    BY <1>4 DEF TradedQty, TradedCash, Traded, Signed
  <1>11. DOMAIN TradedQty(p)' = OrderId /\ DOMAIN TradedCash(p)' = OrderId
    BY DEF TradedQty, TradedCash
  <1>12. IsFiniteSet(OrderId)
    BY TradingAssumption
  <1>13. /\ SumFunctionOnSet(TradedQty(p)', OrderId)
                = SumFunctionOnSet(TradedQty(p), OrderId) - TradedQty(p)[o] + TradedQty(p)'[o]
         /\ SumFunctionOnSet(TradedQty(p), OrderId) \in Int
    BY <1>7, <1>8, <1>10, <1>12, SumChange, SumRemove
  <1>14. /\ SumFunctionOnSet(TradedCash(p)', OrderId)
                = SumFunctionOnSet(TradedCash(p), OrderId) - TradedCash(p)[o] + TradedCash(p)'[o]
         /\ SumFunctionOnSet(TradedCash(p), OrderId) \in Int
    BY <1>7, <1>8, <1>10, <1>12, SumChange, SumRemove
  <1>15. QED
    BY <1>7, <1>8, <1>9, <1>11, <1>13, <1>14 DEF SumFunction

\* Storing an order trades nothing.
LEMMA StoresTraded ==
    ASSUME Ledger, NEW o \in OrderId, NEW order \in Order, NEW acc \in Account,
           Stores(o, order, acc), NEW p \in Product
    PROVE  TradedQty(p)' = TradedQty(p) /\ TradedCash(p)' = TradedCash(p)
  <1>1. orders'[o] = order /\ \A q \in OrderId \ {o} : orders'[q] = orders[q]
    BY StoresKeep
  <1>2. orders[o].status # "complete" /\ order.status # "complete"
    BY DEF Stores
  <1>3. \A q \in OrderId : Traded(q, p)' <=> Traded(q, p)
    BY <1>1, <1>2 DEF Traded
  <1>4. \A q \in OrderId : Traded(q, p) => orders'[q] = orders[q]
    BY <1>1, <1>2 DEF Traded
  <1>5. QED
    BY <1>3, <1>4 DEF TradedQty, TradedCash, Signed

\* No order has traded and no position is open: the sums are zero.
LEMMA NothingTraded ==
    ASSUME Init
    PROVE  PositionsMatchTrades /\ PnlMatchesTrades
  <1> SUFFICES ASSUME NEW p \in Product
               PROVE  /\ pos[p].qty = SumFunction(TradedQty(p))
                      /\ pos[p].pnl = pos[p].qty * pos[p].avg - SumFunction(TradedCash(p))
    BY DEF PositionsMatchTrades, PnlMatchesTrades
  <1>1. /\ DOMAIN TradedQty(p) = OrderId /\ \A o \in OrderId : TradedQty(p)[o] = 0
        /\ DOMAIN TradedCash(p) = OrderId /\ \A o \in OrderId : TradedCash(p)[o] = 0
    BY DEF Init, Blank, TradedQty, TradedCash, Traded
  <1>2. SumFunction(TradedQty(p)) = 0 /\ SumFunction(TradedCash(p)) = 0
    BY <1>1, SumZero, TradingAssumption DEF SumFunction
  <1>3. pos[p].qty = 0 /\ pos[p].pnl = 0 /\ pos[p].avg = 0
    BY DEF Init, NoRow
  <1>4. QED
    BY <1>2, <1>3

\* A fill that is netted keeps every position the sum of its trades.
LEMMA PositionsMatchKept ==
    ASSUME Ledger, PositionsMatchTrades, [Next]_vars
    PROVE  PositionsMatchTrades'
  <1> SUFFICES ASSUME funds'.resets = 0, NEW p \in Product
               PROVE  pos'[p].qty = SumFunction(TradedQty(p)')
    BY DEF PositionsMatchTrades
  <1>1. ASSUME NEW o \in OrderId, NEW order \in Order, NEW acc \in Account,
               NEW price \in Nat, Fills(o, order, acc, price)
        PROVE  pos'[p].qty = SumFunction(TradedQty(p)')
    <2> DEFINE q == order.product
    <2>1. /\ pos' = [pos EXCEPT ![q] = Netted(pos[q], order, price)]
          /\ funds'.resets = funds.resets
      BY <1>1, FillResets
    <2>2. Netted(pos[q], order, price).qty = pos[q].qty + Signed(order)
      BY NettedQuantity DEF Ledger, Order
    <2>3. pos[p].qty = SumFunction(TradedQty(p)) /\ pos[p].qty \in Int
      BY <2>1 DEF PositionsMatchTrades, Ledger, Row
    <2>4. SumFunction(TradedQty(p)') = SumFunction(TradedQty(p))
              + (IF q = p THEN Signed(order) ELSE 0)
      BY <1>1, FillsTraded
    <2>5. pos'[p].qty = IF q = p THEN pos[p].qty + Signed(order) ELSE pos[p].qty
      BY <2>1, <2>2 DEF Ledger
    <2>6. QED
      BY <2>3, <2>4, <2>5
  <1>2. ASSUME NEW o \in OrderId, NEW order \in Order, NEW acc \in Account,
               Stores(o, order, acc)
        PROVE  pos'[p].qty = SumFunction(TradedQty(p)')
    <2>1. TradedQty(p)' = TradedQty(p)
      BY <1>2, StoresTraded
    <2>2. pos' = pos /\ funds'.resets = funds.resets
      BY <1>2 DEF Stores
    <2>3. QED
      BY <2>1, <2>2 DEF PositionsMatchTrades
  <1>3. ASSUME NEW acc \in Account, Wipes(acc)
        PROVE  FALSE
    BY <1>3 DEF Wipes
  <1>4. ASSUME Leaves
        PROVE  pos'[p].qty = SumFunction(TradedQty(p)')
    <2>1. TradedQty(p)' = TradedQty(p) /\ pos' = pos /\ funds' = funds
      BY <1>4 DEF Leaves, TradedQty, Traded
    <2>2. QED
      BY <2>1 DEF PositionsMatchTrades
  <1>5. QED
    BY <1>1, <1>2, <1>3, <1>4, NextEffects DEF Effects

\* A step whose fills average without rounding.
ExactAverages ==
    \A o \in OrderId :
        orders[o].status # "complete" /\ orders'[o].status = "complete" =>
            AveragesExactly(pos[orders'[o].product], orders'[o], orders'[o].avg)

\* A fill that is netted exactly keeps every position's profit what its trades
\* brought and cost.
LEMMA PnlMatchKept ==
    ASSUME Ledger, PnlMatchesTrades, [Next]_vars, ExactAverages
    PROVE  PnlMatchesTrades'
  <1> SUFFICES ASSUME funds'.resets = 0, NEW p \in Product
               PROVE  pos'[p].pnl = pos'[p].qty * pos'[p].avg - SumFunction(TradedCash(p)')
    BY DEF PnlMatchesTrades
  <1>1. ASSUME NEW o \in OrderId, NEW order \in Order, NEW acc \in Account,
               NEW price \in Nat, Fills(o, order, acc, price)
        PROVE  pos'[p].pnl = pos'[p].qty * pos'[p].avg - SumFunction(TradedCash(p)')
    <2> DEFINE q    == order.product
               row  == pos[q]
               next == Netted(row, order, price)
               cost == Signed(order) * price
    <2>1. pos' = [pos EXCEPT ![q] = next] /\ funds'.resets = funds.resets
      BY <1>1, FillResets
    <2>2. q \in Product /\ row \in Row /\ next \in Row
      BY NettedType DEF Ledger, Order
    <2>3. AveragesExactly(row, order, price)
      <3> DEFINE done == [order EXCEPT !.status = "complete", !.avg = price]
      <3>1. orders' = [orders EXCEPT ![o] = done] /\ orders[o].status # "complete"
        BY <1>1 DEF Fills, Execute
      <3>2. /\ done.status = "complete" /\ done.avg = price
            /\ done.action = order.action /\ done.product = order.product
            /\ done.qty = order.qty
        BY Zenon DEF Order
      <3> HIDE DEF done
      <3>3. orders'[o] = done
        BY <3>1 DEF Ledger
      <3>4. AveragesExactly(pos[done.product], done, done.avg)
        BY <3>1, <3>2, <3>3 DEF ExactAverages
      <3>5. QED
        BY <3>2, <3>4 DEF AveragesExactly
    <2>4. next.pnl - next.qty * next.avg = row.pnl - row.qty * row.avg - cost
      BY <2>2, <2>3, NettedProfit
    <2>5. SumFunction(TradedCash(p)') = SumFunction(TradedCash(p))
              + (IF q = p THEN cost ELSE 0)
      BY <1>1, FillsTraded
    <2>6. pos[p].pnl = pos[p].qty * pos[p].avg - SumFunction(TradedCash(p))
      BY <2>1 DEF PnlMatchesTrades
    <2>7. /\ pos[p].pnl \in Int /\ pos[p].qty * pos[p].avg \in Int
          /\ SumFunction(TradedCash(p)) \in Int
      <3>1. /\ DOMAIN TradedCash(p) = OrderId
            /\ \A x \in OrderId : TradedCash(p)[x] \in Int
        BY TradedType DEF Ledger
      <3>2. QED
        BY <3>1, SumRemove, TradingAssumption DEF SumFunction, Ledger, Row
    <2> HIDE DEF q, row, next, cost
    <2>8. CASE q = p
      <3>1. pos'[p] = next /\ pos[p] = row
        BY <2>1, <2>2, <2>8 DEF Ledger, row
      <3>2. cost \in Int /\ next.qty * next.avg \in Int /\ next.pnl \in Int
        BY <2>2 DEF cost, Row, Signed, Order
      <3> DEFINE held == row.qty * row.avg
                 kept == next.qty * next.avg
                 paid == SumFunction(TradedCash(p))
      <3>3. /\ row.pnl = held - paid /\ held \in Int /\ row.pnl \in Int
            /\ paid \in Int
        BY <2>6, <2>7, <3>1, Zenon
      <3>4. next.pnl - kept = row.pnl - held - cost
        BY <2>4
      <3>5. kept \in Int /\ cost \in Int /\ next.pnl \in Int
        BY <3>2
      <3> HIDE DEF held, kept, paid
      <3>6. next.pnl = kept - (paid + cost)
        BY <3>3, <3>4, <3>5
      <3>7. QED
        BY <2>5, <2>8, <3>1, <3>6 DEF kept, paid
    <2>9. CASE q # p
      <3>1. pos'[p] = pos[p]
        BY <2>1, <2>9 DEF Ledger
      <3>2. QED
        BY <2>5, <2>6, <2>7, <2>9, <3>1
    <2>10. QED
      BY <2>8, <2>9
  <1>2. ASSUME NEW o \in OrderId, NEW order \in Order, NEW acc \in Account,
               Stores(o, order, acc)
        PROVE  pos'[p].pnl = pos'[p].qty * pos'[p].avg - SumFunction(TradedCash(p)')
    <2>1. TradedCash(p)' = TradedCash(p)
      BY <1>2, StoresTraded
    <2>2. pos' = pos /\ funds'.resets = funds.resets
      BY <1>2 DEF Stores
    <2>3. QED
      BY <2>1, <2>2 DEF PnlMatchesTrades
  <1>3. ASSUME NEW acc \in Account, Wipes(acc)
        PROVE  FALSE
    BY <1>3 DEF Wipes
  <1>4. ASSUME Leaves
        PROVE  pos'[p].pnl = pos'[p].qty * pos'[p].avg - SumFunction(TradedCash(p)')
    <2>1. TradedCash(p)' = TradedCash(p) /\ pos' = pos /\ funds' = funds
      BY <1>4 DEF Leaves, TradedCash, Traded
    <2>2. QED
      BY <2>1 DEF PnlMatchesTrades
  <1>5. QED
    BY <1>1, <1>2, <1>3, <1>4, NextEffects DEF Effects

\* The initial state satisfies the invariant.
LEMMA InvInit == Init => Inv
  <1> SUFFICES ASSUME Init PROVE Inv
    OBVIOUS
  <1>1. Blank \in Order /\ Sound(Blank)
    BY DEF Blank, Order, Action, OrderType, Product, Sound
  <1>2. NoRow \in Row /\ Real(NoRow)
    BY DEF NoRow, Row, Real
  <1>3. NoMarginStuck
    <2>1. \A o \in OrderId : orders[o] \in Order /\ Sound(orders[o])
      BY <1>1 DEF Init
    <2>2. SumFunction(StoredMargins(orders)) \in Nat
      BY <2>1, StoredSum
    <2>3. funds.used = 0 /\ PositionMargin(pos) = 0
      BY DEF Init, FreshAccount, PositionMargin, OpenMargin, NoRow, Product
    <2>4. QED
      BY <2>2, <2>3 DEF NoMarginStuck, StoredMargins
  <1>4. Ledger
    BY <1>1, <1>2, <1>3, FreshAccountBalanced DEF Init, Ledger
  <1>5. QED
    BY <1>4, TradingAssumption DEF Init, Inv, Day, Idle

\* The invariant is inductive.
LEMMA InvKept == Inv /\ [Next]_vars => Inv'
  <1> SUFFICES ASSUME Inv, [Next]_vars PROVE Day'
    BY LedgerKept DEF Inv
  <1>1. Day
    BY DEF Inv
  <1>2. CASE UserPlaces \/ UserCloses \/ UserCancels \/ UserModifies \/ EngineExecutes
    BY <1>1, <1>2 DEF UserPlaces, UserCloses, UserCancels, UserModifies, EngineExecutes,
                      Elsewhere, Day
  <1>3. CASE ResetFunds
    BY <1>1, <1>3 DEF ResetFunds, Day
  <1>4. CASE Cutoff
    BY <1>1, <1>4 DEF Cutoff, Day
  <1>5. CASE SweepStart
    BY <1>1, <1>5 DEF SweepStart, Day
  <1>6. CASE \E o \in OrderId : SweepCancel(o)
    <2>1. PICK o \in OrderId : SweepCancel(o)
      BY <1>6
    <2>2. sweep' = [sweep EXCEPT !.listed = sweep.listed \ {o}]
      BY <2>1 DEF SweepCancel
    <2>3. sweep' \in [stage : {"idle", "cancel"}, listed : SUBSET OrderId]
      BY <1>1, <2>2 DEF Day
    <2>4. QED
      BY <1>1, <2>1, <2>3 DEF SweepCancel, Day
  <1>7. CASE SweepClose
    BY <1>1, <1>7 DEF SweepClose, Idle, Day
  <1>8. CASE UNCHANGED vars
    BY <1>1, <1>8 DEF vars, Day
  <1>9. QED
    BY <1>2, <1>3, <1>4, <1>5, <1>6, <1>7, <1>8 DEF Next, Sweep

\* The invariant holds in every reachable state.
LEMMA InvInvariant == Spec => []Inv
  BY InvInit, InvKept, PTL DEF Spec

\* Every variable keeps its type, for all constants.
THEOREM TypeCorrect == Spec => []TypeOK
  <1>1. Inv => TypeOK
    BY DEF Inv, Ledger, Day, TypeOK
  <1>2. QED
    BY <1>1, InvInvariant, PTL

\* Cash and margin always add up to the starting capital and the profit booked
\* (fund_manager.py block_margin, release_margin, reconcile_margin, _reset_funds).
THEOREM MoneyConserved == Spec => []EquityConserved
  <1>1. Inv => EquityConserved
    BY DEF Inv, Ledger, EquityConserved, Balanced
  <1>2. QED
    BY <1>1, InvInvariant, PTL

\* No LIMIT or SL order trades at a price worse than its limit, on the immediate
\* path, on the engine's path and after modifications.
THEOREM LimitsRespected == Spec => []FillsRespectLimits
  <1>1. Inv => FillsRespectLimits
    BY DEF Inv, Ledger, FillsRespectLimits, Sound
  <1>2. QED
    BY <1>1, InvInvariant, PTL

\* For every number of orders, prices and quantities, no trade is lost: until a
\* reset a position is the sum of its product's trades, whether they opened,
\* added, reduced or reversed it (execution_engine.py _update_position).
THEOREM NoTradeLost == Spec => []PositionsMatchTrades
  <1>1. Init => PositionsMatchTrades
    BY NothingTraded
  <1>2. Inv /\ PositionsMatchTrades /\ [Next]_vars => PositionsMatchTrades'
    BY PositionsMatchKept DEF Inv
  <1>3. QED
    BY <1>1, <1>2, InvInvariant, PTL DEF Spec

\* As long as no average is rounded, the profit booked on a position is exactly
\* what its sales brought less what its purchases cost, the open quantity at its
\* average price (execution_engine.py _calculate_realized_pnl).
THEOREM ProfitIsExact == Spec /\ [][ExactAverages]_vars => []PnlMatchesTrades
  <1>1. Init => PnlMatchesTrades
    BY NothingTraded
  <1>2. Inv /\ PnlMatchesTrades /\ [Next]_vars /\ [ExactAverages]_vars => PnlMatchesTrades'
    <2>1. UNCHANGED vars => ExactAverages
      BY DEF vars, ExactAverages
    <2>2. QED
      BY <2>1, PnlMatchKept DEF Inv
  <1>3. QED
    BY <1>1, <1>2, InvInvariant, PTL DEF Spec

\* Whatever is placed, modified, cancelled, filled or reset, the account never
\* holds more margin than its open positions and its resting orders account for.
THEOREM MarginComesBack == Spec => []NoMarginStuck
  <1>1. Inv => NoMarginStuck
    BY DEF Inv, Ledger
  <1>2. QED
    BY <1>1, InvInvariant, PTL

-----------------------------------------------------------------------------
\* The sandbox implements the abstract order book: an order is accepted once,
\* decided once, and trades at most once.
THEOREM OrderBookRefined == Spec => BookSpec
  <1> DEFINE status == [o \in OrderId |-> orders[o].status]
             fill   == [o \in OrderId |-> orders[o].avg]
  <1>1. Init => Book!Init
    BY DEF Init, Book!Init, Blank
  <1>2. Inv /\ [Next]_vars => [Book!Next]_<<status, fill>>
    <2> SUFFICES ASSUME Ledger, [Next]_vars
                 PROVE  Book!Next \/ UNCHANGED <<status, fill>>
      BY DEF Inv
    <2>1. ASSUME NEW o \in OrderId, NEW order \in Order, NEW acc \in Account,
                 NEW price \in Nat, Fills(o, order, acc, price)
          PROVE  Book!Next
      <3>1. /\ status' = [status EXCEPT ![o] = "complete"]
            /\ fill' = [fill EXCEPT ![o] = price]
        BY <2>1, FillsKeep
      <3>2. status[o] \in {"none", "open"} /\ fill'[o] = price /\ price > 0
        BY <2>1, <3>1 DEF Fills
      <3>3. Book!Execute(o)
        BY <3>1, <3>2 DEF Book!Execute, Book!Become
      <3>4. QED
        BY <3>3 DEF Book!Next
    <2>2. ASSUME NEW o \in OrderId, NEW order \in Order, NEW acc \in Account,
                 Stores(o, order, acc)
          PROVE  Book!Next \/ UNCHANGED <<status, fill>>
      <3>1. /\ status' = [status EXCEPT ![o] = order.status]
            /\ fill' = fill
        <4>1. /\ orders'[o] = order /\ order.avg = orders[o].avg
              /\ \A q \in OrderId \ {o} : orders'[q] = orders[q]
          BY <2>2, StoresKeep DEF Stores
        <4>2. \A q \in OrderId : orders'[q].avg = orders[q].avg
          BY <4>1
        <4>3. QED
          BY <4>1, <4>2
      <3>2. CASE orders[o].status = "none" /\ order.status \in {"open", "rejected"}
        BY <3>1, <3>2 DEF Book!Next, Book!Submit, Book!Become
      <3>3. CASE orders[o].status = "open" /\ order.status = "cancelled"
        BY <3>1, <3>3 DEF Book!Next, Book!Cancel, Book!Become
      <3>4. CASE orders[o].status = "open" /\ order.status = "open"
        BY <3>1, <3>4
      <3>5. QED
        BY <2>2, <3>2, <3>3, <3>4 DEF Stores
    <2>3. ASSUME orders' = orders
          PROVE  UNCHANGED <<status, fill>>
      BY <2>3
    <2>4. QED
      BY <2>1, <2>2, <2>3, NextEffects DEF Effects, Wipes, Leaves
  <1>3. QED
    BY <1>1, <1>2, InvInvariant, PTL DEF Spec, BookSpec, Book!Spec
=============================================================================
