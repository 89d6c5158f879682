--------------------------- MODULE ExecutionRace ---------------------------
(***************************************************************************)
(* The sandbox handlers taken apart at their database commits.  Request    *)
(* threads place and cancel orders, the polling engine and the WebSocket   *)
(* engine execute them, all on one user's account and one position         *)
(* (order_manager.py, execution_engine.py, fund_manager.py,                *)
(* websocket_execution_engine.py).  Between two steps of a thread any      *)
(* other thread may step, and the process may stop and start again.        *)
(***************************************************************************)
EXTENDS SandboxNetting, FiniteSets, Functions

CONSTANTS
    OrderId,      \* bound: the orders the user places
    Server,       \* request threads
    Poller,       \* threads of the polling engine
    Ticker,       \* market data threads of the WebSocket engine
    OrderTypes,   \* bound: the order types the user places
    Quantities,   \* bound: the quantities the user asks for
    Prices,       \* bound: the limits the user asks for
    Quotes,       \* bound: the quotes the market shows
    Prefetched,   \* do LIMIT orders come with a quote, as those of a basket do
    MaxRestarts,  \* bound: restarts of the process
    NoOrder, NoThread

Thread == Server \cup Poller \cup Ticker
Engine == Poller \cup Ticker

ASSUME RaceAssumption ==
    /\ IsFiniteSet(OrderId)
    /\ IsFiniteSet(Thread)
    /\ Server \cap Engine = {}
    /\ OrderTypes \subseteq {"MARKET", "LIMIT"}
    /\ Quantities \subseteq Nat \ {0}
    /\ Prices \subseteq Nat \ {0}
    /\ Quotes \subseteq Quote
    /\ Prefetched \in BOOLEAN
    /\ MaxRestarts \in Nat
    /\ NoOrder \notin OrderId
    /\ NoThread \notin Thread

VARIABLES
    orders,    \* SandboxOrders
    trades,    \* number of SandboxTrades rows, by order
    row,       \* the SandboxPositions row
    funds,     \* the SandboxFunds row
    lock,      \* FundManager._lock: the thread that holds it
    index,     \* _pending_orders_index of the WebSocket engine
    thread,    \* what each thread is doing and what it has read
    restarts

vars == <<orders, trades, row, funds, lock, index, thread, restarts>>
database == <<orders, trades, row, funds>>

Blank == [status |-> "none", action |-> "BUY", type |-> "MARKET", product |-> "MIS",
          qty |-> 0, price |-> 0, trigger |-> 0, margin |-> 0, avg |-> 0]

\* id, order and fill: the order in hand and its execution price, 0 for none;
\* row, sum and acc: the position, the margin and the account as read.
Idle == [at |-> "idle", id |-> NoOrder, order |-> Blank, fill |-> 0,
         row |-> NoRow, sum |-> 0, acc |-> FreshAccount(0)]

Init ==
    /\ orders = [o \in OrderId |-> Blank]
    /\ trades = [o \in OrderId |-> 0]
    /\ row = NoRow
    /\ funds = FreshAccount(0)
    /\ lock = NoThread
    /\ index = {}
    /\ thread = [w \in Thread |-> Idle]
    /\ restarts = 0

-----------------------------------------------------------------------------
\* An ORM commit writes the columns the thread changed, and no others.
Merge(committed, read, new) ==
    [c \in DOMAIN committed |-> IF new[c] # read[c] THEN new[c] ELSE committed[c]]

At(w, place) == thread[w].at = place
Step(w, s)   == thread' = [thread EXCEPT ![w] = s]
GoTo(w, place) == Step(w, [thread[w] EXCEPT !.at = place])

Requests ==
    { r \in [action : Action, type : OrderTypes, product : {"MIS"}, qty : Quantities,
             price : Prices \cup {0}, trigger : {0}] :
        r.type = "LIMIT" <=> r.price > 0 }

\* The price at which place_order executes at once, 0 when it does not: a
\* MARKET order without a quote that goes by the position's last price, or a
\* LIMIT order whose quote is missing or beyond the limit.
ImmediateFills(r, quote) ==
    IF r.type = "MARKET"
    THEN {MarketPrice(r, quote)} \cup (IF row.seen THEN {0} ELSE {})
    ELSE {IF Prefetched /\ Executable(r, quote) THEN quote.ltp ELSE 0}

Place(w, o, r, quote) ==
    LET order == Accepted(r, row.qty, IF r.type = "MARKET" THEN quote.ltp ELSE r.price)
    IN  /\ At(w, "idle")
        /\ orders[o].status = "none"
        /\ \A v \in Thread : thread[v].id # o
        /\ \E fill \in ImmediateFills(r, quote) :
               Step(w, [Idle EXCEPT !.at    = IF order.margin > 0 THEN "block" ELSE "insert",
                                    !.id    = o,
                                    !.order = order,
                                    !.fill  = fill])
        /\ UNCHANGED <<database, lock, index, restarts>>

\* block_margin and release_margin read the account with the lock held.
Lock(w) ==
    /\ thread[w].at \in {"block", "free", "return"}
    /\ lock = NoThread
    /\ lock' = w
    /\ Step(w, [thread[w] EXCEPT !.acc = funds])
    /\ UNCHANGED <<database, index, restarts>>

Unlock(w, acc, next) ==
    /\ lock = w
    /\ lock' = NoThread
    /\ funds' = Merge(funds, thread[w].acc, acc)
    /\ Step(w, next)

BlockMargin(w) ==
    LET me     == thread[w]
        margin == me.order.margin
    IN  /\ At(w, "block")
        /\ IF CanBlock(me.acc, margin)
           THEN Unlock(w, Block(me.acc, margin),
                       [me EXCEPT !.at = "insert", !.acc = Idle.acc])
           ELSE Unlock(w, me.acc, Idle)
        /\ UNCHANGED <<orders, trades, row, index, restarts>>

\* Mutant of Insert: the WebSocket engine is told before the immediate execution.
InsertNotified(w) ==
    LET me == thread[w]
    IN  /\ At(w, "insert")
        /\ orders' = [orders EXCEPT ![me.id] = me.order]
        /\ index' = index \cup {me.id}
        /\ GoTo(w, CASE me.fill = 0                                 -> "close"
                     [] me.fill > 0 /\ me.order.type = "MARKET"      -> "check"
                     [] me.fill > 0 /\ me.order.type # "MARKET"      -> "trade")
        /\ UNCHANGED <<trades, row, funds, lock, restarts>>

\* The order is committed open.  A MARKET order is executed by _process_order,
\* the others straight by _execute_order.
Insert(w) ==
    LET me == thread[w]
    IN  /\ At(w, "insert")
        /\ orders' = [orders EXCEPT ![me.id] = me.order]
        /\ GoTo(w, CASE me.fill = 0                                 -> "close"
                     [] me.fill > 0 /\ me.order.type = "MARKET"      -> "check"
                     [] me.fill > 0 /\ me.order.type # "MARKET"      -> "trade")
        /\ UNCHANGED <<trades, row, funds, lock, index, restarts>>

\* The engines list the open orders, or look up an indexed one, and get a
\* quote; a market data tick shows the last price only.
Pick(w, o, quote) ==
    LET seen == IF w \in Ticker THEN [quote EXCEPT !.bid = quote.ltp, !.ask = quote.ltp] ELSE quote
    IN  /\ At(w, "idle")
        /\ orders[o].status = "open"
        /\ w \in Ticker => o \in index
        /\ Executable(orders[o], seen)
        /\ Step(w, [Idle EXCEPT !.at    = "check",
                                !.id    = o,
                                !.order = orders[o],
                                !.fill  = RestingPrice(orders[o], seen)])
        /\ UNCHANGED <<database, lock, index, restarts>>

\* The WebSocket engine drops an indexed order that is no longer open.
Drop(w, o) ==
    /\ At(w, "idle")
    /\ o \in index
    /\ orders[o].status # "open"
    /\ index' = index \ {o}
    /\ UNCHANGED <<database, lock, thread, restarts>>

\* _process_order: an order with a trade is only marked complete.  An engine
\* goes by the status it has read, place_order by the one in the database.
Check(w) ==
    LET o == thread[w].id
    IN  /\ At(w, "check")
        /\ \/ /\ trades[o] = 0
              /\ GoTo(w, "trade")
              /\ UNCHANGED orders
           \/ /\ trades[o] > 0
              /\ GoTo(w, "close")
              /\ orders' = IF w \in Engine \/ orders[o].status = "open"
                           THEN [orders EXCEPT ![o].status = "complete"]
                           ELSE orders
        /\ UNCHANGED <<trades, row, funds, lock, index, restarts>>

\* Mutant of Trade: an order that was cancelled meanwhile gets no trade, and is
\* netted all the same.
TradeOfOpen(w) ==
    LET o == thread[w].id
    IN  /\ At(w, "trade")
        /\ trades' = IF orders[o].status = "open" THEN [trades EXCEPT ![o] = @ + 1] ELSE trades
        /\ orders' = [orders EXCEPT ![o].status = "complete", ![o].avg = thread[w].fill]
        /\ GoTo(w, "netting")
        /\ UNCHANGED <<row, funds, lock, index, restarts>>

\* _execute_order commits the trade and the order together.
Trade(w) ==
    LET o == thread[w].id
    IN  /\ At(w, "trade")
        /\ trades' = [trades EXCEPT ![o] = @ + 1]
        /\ orders' = [orders EXCEPT ![o].status = "complete", ![o].avg = thread[w].fill]
        /\ GoTo(w, "netting")
        /\ UNCHANGED <<row, funds, lock, index, restarts>>

\* _update_position
ReadRow(w) ==
    /\ At(w, "netting")
    /\ Step(w, [thread[w] EXCEPT
                  !.row = row,
                  !.at  = IF FreedMargin(row, thread[w].order) > 0 THEN "free" ELSE "write"])
    /\ UNCHANGED <<database, lock, index, restarts>>

FreeMargin(w) ==
    LET me == thread[w]
    IN  /\ At(w, "free")
        /\ Unlock(w, Release(me.acc, FreedMargin(me.row, me.order),
                             RealizedPnl(me.row, me.order, me.fill)),
                  [me EXCEPT !.at = "write", !.acc = Idle.acc])
        /\ UNCHANGED <<orders, trades, row, index, restarts>>

\* A second INSERT of the position fails on its unique key: the trade stands
\* and the order ends rejected.
WriteRow(w) ==
    LET me == thread[w]
    IN  /\ At(w, "write")
        /\ \/ /\ me.row.seen = row.seen
              /\ row' = Merge(row, me.row, Netted(me.row, me.order, me.fill))
              /\ Step(w, [me EXCEPT !.at = "sum", !.row = NoRow])
              /\ UNCHANGED orders
           \/ /\ me.row.seen # row.seen
              /\ orders' = [orders EXCEPT ![me.id].status = "rejected"]
              /\ GoTo(w, "close")
              /\ UNCHANGED row
        /\ UNCHANGED <<trades, funds, lock, index, restarts>>

\* reconcile_margin takes no lock.
SumMargin(w) ==
    /\ At(w, "sum")
    /\ Step(w, [thread[w] EXCEPT !.at = "reconcile", !.sum = OpenMargin(row)])
    /\ UNCHANGED <<database, lock, index, restarts>>

ReadFunds(w) ==
    /\ At(w, "reconcile")
    /\ Step(w, [thread[w] EXCEPT
                  !.at  = IF funds.used = thread[w].sum THEN "close" ELSE "adjust",
                  !.acc = funds])
    /\ UNCHANGED <<database, lock, index, restarts>>

Adjust(w) ==
    LET me == thread[w]
    IN  /\ At(w, "adjust")
        /\ funds' = Merge(funds, me.acc, Reconcile(me.acc, me.sum))
        /\ GoTo(w, "close")
        /\ UNCHANGED <<orders, trades, row, lock, index, restarts>>

\* Mutant of Close: an order that stays open is not reported.
CloseSilently(w) ==
    LET o == thread[w].id
    IN  /\ At(w, "close")
        /\ index' = IF w \in Ticker /\ orders[o].status # "open" THEN index \ {o} ELSE index
        /\ Step(w, Idle)
        /\ UNCHANGED <<database, lock, restarts>>

\* place_order tells the WebSocket engine of an order that is still open; the
\* engine forgets one that no longer is.
Close(w) ==
    LET o == thread[w].id
    IN  /\ At(w, "close")
        /\ index' = CASE w \in Server /\ orders[o].status = "open" -> index \cup {o}
                      [] w \in Ticker /\ orders[o].status # "open" -> index \ {o}
                      [] OTHER -> index
        /\ Step(w, Idle)
        /\ UNCHANGED <<database, lock, restarts>>

\* cancel_order reads the order, and commits its status with the account.
Cancel(w, o) ==
    /\ At(w, "idle")
    /\ orders[o].status = "open"
    /\ Step(w, [Idle EXCEPT !.at = "return", !.id = o, !.order = orders[o]])
    /\ UNCHANGED <<database, lock, index, restarts>>

ReturnMargin(w) ==
    LET me == thread[w]
    IN  /\ At(w, "return")
        /\ Unlock(w, Release(me.acc, CancelledMargin(me.order, me.order.price), 0), Idle)
        /\ orders' = [orders EXCEPT ![me.id].status = "cancelled"]
        /\ UNCHANGED <<trades, row, index, restarts>>

\* The process stops anywhere; what is committed stays, and the index is
\* rebuilt from the open orders.
Restart ==
    /\ restarts < MaxRestarts
    /\ restarts' = restarts + 1
    /\ thread' = [w \in Thread |-> Idle]
    /\ lock' = NoThread
    /\ index' = {o \in OrderId : orders[o].status = "open"}
    /\ UNCHANGED database

Serve(w) ==
    \/ \E o \in OrderId, r \in Requests, quote \in Quotes : Place(w, o, r, quote)
    \/ \E o \in OrderId : Cancel(w, o)
    \/ BlockMargin(w)
    \/ Insert(w)
    \/ ReturnMargin(w)

Run(w) ==
    \/ \E o \in OrderId, quote \in Quotes : Pick(w, o, quote)
    \/ \E o \in OrderId : w \in Ticker /\ Drop(w, o)

Fill(w) ==
    \/ Check(w)
    \/ Trade(w)
    \/ ReadRow(w)
    \/ FreeMargin(w)
    \/ WriteRow(w)
    \/ SumMargin(w)
    \/ ReadFunds(w)
    \/ Adjust(w)
    \/ Close(w)

Next ==
    \/ \E w \in Server : Serve(w)
    \/ \E w \in Engine : Run(w)
    \/ \E w \in Thread : Lock(w) \/ Fill(w)
    \/ Restart

Spec == Init /\ [][Next]_vars
-----------------------------------------------------------------------------
TypeOK ==
    /\ orders \in [OrderId -> Order]
    /\ trades \in [OrderId -> Nat]
    /\ row \in Row
    /\ funds \in Account
    /\ lock \in Thread \cup {NoThread}
    /\ index \subseteq OrderId
    /\ thread \in [Thread ->
           [at : {"idle", "block", "insert", "check", "trade", "netting", "free", "write",
                  "sum", "reconcile", "adjust", "close", "return"},
            id : OrderId \cup {NoOrder}, order : Order, fill : Nat,
            row : Row, sum : Int, acc : Account]]
    /\ restarts \in 0 .. MaxRestarts

\* However the steps of the threads interleave and wherever the process stops,
\* an order trades at most once (execution_engine.py:239 "prevent duplicates",
\* order_manager.py:584 "prevent duplicate execution").
AtMostOneTrade == \A o \in OrderId : trades[o] <= 1

\* The WebSocket engine knows every open order that no request is still
\* placing: none waits for a tick that is not looked at
\* (websocket_execution_engine.py notify_order_placed, _rebuild_order_index).
OpenOrdersIndexed ==
    \A o \in OrderId :
        orders[o].status = "open" =>
            o \in index \/ \E w \in Server : thread[w].id = o /\ thread[w].at # "return"

\* The account neither makes nor loses money between the lock of the fund
\* manager and the reconciliation that does not take it
\* (fund_manager.py: block_margin, release_margin, reconcile_margin).
EquityConserved ==
    funds.available + funds.used = StartingCapital + funds.realized

\* However the executions interleave, on whatever rows they read and wherever the
\* process stops, no trade is netted into the position twice and nothing but a
\* committed trade is: the quantity held is that of some of the trades, each
\* counted once.  That it is that of all of them does not hold: of two fills that
\* read the same row the later write wins (execution_engine.py _update_position).
NothingNettedTwice ==
    \E counted \in [OrderId -> 0 .. SumFunction(trades)] :
        /\ \A o \in OrderId : counted[o] <= trades[o]
        /\ row.qty = SumFunction([o \in OrderId |-> counted[o] * Signed(orders[o])])
=============================================================================
