------------------------ MODULE ExecutionRaceProofs ------------------------
(***************************************************************************)
(* Theorems of ExecutionRace, for every number of orders and threads: what *)
(* holds however the handlers interleave and wherever the process stops,   *)
(* and what holds under one execution engine.                              *)
(***************************************************************************)
EXTENDS ExecutionRace, SandboxMoneyProofs

Stage == {"idle", "block", "insert", "check", "trade", "netting", "free", "write",
          "sum", "reconcile", "adjust", "close", "return"}

Local == [at : Stage, id : OrderId \cup {NoOrder}, order : Order, fill : Nat,
          row : Row, sum : Int, acc : Account]

\* A thread has an order in hand, and the order is in the database or not yet.
Asleep(w)   == thread[w].at = "idle"
Planning(w) == thread[w].at \in {"block", "insert"}
Placing(w)  == thread[w].at \notin {"idle", "return"}

Held == lock # NoThread => thread[lock].at \in {"block", "free", "return"}

\* Who has which order in hand.
InHand ==
    /\ \A w \in Thread : Asleep(w) <=> thread[w].id = NoOrder
    /\ \A w \in Thread : thread[w].at \in {"block", "insert", "return"} => w \in Server
    /\ \A w \in Thread : Planning(w) => /\ orders[thread[w].id].status = "none"
                                        /\ thread[w].order.status = "open"
    /\ \A w \in Thread : ~Asleep(w) /\ ~Planning(w) => orders[thread[w].id].status # "none"
    /\ \A v, w \in Server : v # w /\ Placing(v) /\ Placing(w) => thread[v].id # thread[w].id

\* An order that was never stored has left no trace.
Untouched ==
    \A o \in OrderId : orders[o].status = "none" => trades[o] = 0 /\ o \notin index

IInv == TypeOK /\ InHand /\ Untouched /\ Held /\ OpenOrdersIndexed

-----------------------------------------------------------------------------
\* What a step leaves of the threads: all but one are where they were.
Moves(w) == /\ thread' \in [Thread -> Local]
            /\ \A v \in Thread : v # w => thread'[v] = thread[v]

LEMMA Stepped ==
    ASSUME TypeOK, NEW w \in Thread, NEW s \in Local, Step(w, s)
    PROVE  Moves(w) /\ thread'[w] = s
  BY DEF TypeOK, Step, Moves, Local, Stage

\* The blank order, the absent row and the first account are well formed.
LEMMA InitTypes == Blank \in Order /\ NoRow \in Row /\ FreshAccount(0) \in Account
  <1>1. Blank \in Order
    BY DEF Blank, Order, Action, Product, OrderType
  <1>2. NoRow \in Row
    BY DEF NoRow, Row
  <1>3. QED
    BY <1>1, <1>2, FreshAccountBalanced

\* The record of a thread, field by field.
Reads(s, at, id, order, fill, r, sum, acc) ==
    /\ s \in Local
    /\ s.at = at /\ s.id = id /\ s.order = order /\ s.fill = fill
    /\ s.row = r /\ s.sum = sum /\ s.acc = acc

LEMMA LocalFields ==
    ASSUME NEW s \in Local, NEW at \in Stage, NEW r \in Row, NEW n \in Int, NEW acc \in Account
    PROVE  /\ Reads([s EXCEPT !.at = at], at, s.id, s.order, s.fill, s.row, s.sum, s.acc)
           /\ Reads([s EXCEPT !.acc = acc], s.at, s.id, s.order, s.fill, s.row, s.sum, acc)
           /\ Reads([s EXCEPT !.at = at, !.acc = acc],
                    at, s.id, s.order, s.fill, s.row, s.sum, acc)
           /\ Reads([s EXCEPT !.at = at, !.row = r],
                    at, s.id, s.order, s.fill, r, s.sum, s.acc)
           /\ Reads([s EXCEPT !.row = r, !.at = at],
                    at, s.id, s.order, s.fill, r, s.sum, s.acc)
           /\ Reads([s EXCEPT !.at = at, !.sum = n],
                    at, s.id, s.order, s.fill, s.row, n, s.acc)
  <1>1. Reads([s EXCEPT !.at = at], at, s.id, s.order, s.fill, s.row, s.sum, s.acc)
    BY Zenon DEF Reads, Local
  <1>2. Reads([s EXCEPT !.acc = acc], s.at, s.id, s.order, s.fill, s.row, s.sum, acc)
    BY Zenon DEF Reads, Local
  <1>3. Reads([s EXCEPT !.at = at, !.acc = acc],
              at, s.id, s.order, s.fill, s.row, s.sum, acc)
    BY Zenon DEF Reads, Local
  <1>4. Reads([s EXCEPT !.at = at, !.row = r], at, s.id, s.order, s.fill, r, s.sum, s.acc)
    BY Zenon DEF Reads, Local
  <1>5. Reads([s EXCEPT !.row = r, !.at = at], at, s.id, s.order, s.fill, r, s.sum, s.acc)
    BY Zenon DEF Reads, Local
  <1>6. Reads([s EXCEPT !.at = at, !.sum = n], at, s.id, s.order, s.fill, s.row, n, s.acc)
    BY Zenon DEF Reads, Local
  <1>7. QED
    BY <1>1, <1>2, <1>3, <1>4, <1>5, <1>6, Zenon

LEMMA IdleFields ==
    /\ Reads(Idle, "idle", NoOrder, Blank, 0, NoRow, 0, FreshAccount(0))
    /\ \A at \in Stage, o \in OrderId, order \in Order, fill \in Nat :
           /\ Reads([Idle EXCEPT !.at = at, !.id = o, !.order = order, !.fill = fill],
                    at, o, order, fill, NoRow, 0, FreshAccount(0))
           /\ Reads([Idle EXCEPT !.at = at, !.id = o, !.order = order],
                    at, o, order, 0, NoRow, 0, FreshAccount(0))
  <1>1. Reads(Idle, "idle", NoOrder, Blank, 0, NoRow, 0, FreshAccount(0))
    BY InitTypes DEF Reads, Idle, Local, Stage
  <1>2. ASSUME NEW at \in Stage, NEW o \in OrderId, NEW order \in Order, NEW fill \in Nat
        PROVE  /\ Reads([Idle EXCEPT !.at = at, !.id = o, !.order = order, !.fill = fill],
                        at, o, order, fill, NoRow, 0, FreshAccount(0))
               /\ Reads([Idle EXCEPT !.at = at, !.id = o, !.order = order],
                        at, o, order, 0, NoRow, 0, FreshAccount(0))
    <2>1. Idle \in Local /\ o \in OrderId \cup {NoOrder}
      BY <1>1 DEF Reads
    <2>2. Reads([Idle EXCEPT !.at = at, !.id = o, !.order = order, !.fill = fill],
                at, o, order, fill, Idle.row, Idle.sum, Idle.acc)
      BY <2>1, Zenon DEF Reads, Local
    <2>3. Reads([Idle EXCEPT !.at = at, !.id = o, !.order = order],
                at, o, order, Idle.fill, Idle.row, Idle.sum, Idle.acc)
      BY <2>1, Zenon DEF Reads, Local
    <2>4. QED
      BY <1>1, <2>2, <2>3, Zenon DEF Reads
  <1>3. QED
    BY <1>1, <1>2

\* A commit that changes some columns leaves a well-formed row or account.
LEMMA MergeAccount ==
    ASSUME NEW a \in Account, NEW b \in Account, NEW c \in Account
    PROVE  /\ Merge(a, b, c) \in Account
           /\ Merge(a, b, c).available =
                  IF c.available # b.available THEN c.available ELSE a.available
           /\ Merge(a, b, c).used = IF c.used # b.used THEN c.used ELSE a.used
           /\ Merge(a, b, c).realized =
                  IF c.realized # b.realized THEN c.realized ELSE a.realized
           /\ Merge(a, b, c).resets = IF c.resets # b.resets THEN c.resets ELSE a.resets
  BY DEF Merge, Account

LEMMA MergeRow ==
    ASSUME NEW a \in Row, NEW b \in Row, NEW c \in Row
    PROVE  /\ Merge(a, b, c) \in Row
           /\ a = b => Merge(a, b, c) = c
  BY DEF Merge, Row

\* Columns of a stored order that a commit overwrites.
LEMMA OrderFields ==
    ASSUME NEW order \in Order, NEW avg \in Nat,
           NEW status \in {"complete", "cancelled", "rejected"}
    PROVE  /\ [order EXCEPT !.status = status] \in Order
           /\ [order EXCEPT !.status = status].status = status
           /\ Signed([order EXCEPT !.status = status]) = Signed(order)
           /\ [order EXCEPT !.status = status, !.avg = avg] \in Order
           /\ [order EXCEPT !.status = status, !.avg = avg].status = status
           /\ Signed([order EXCEPT !.status = status, !.avg = avg]) = Signed(order)
  <1>1. order = [status |-> order.status, action |-> order.action, type |-> order.type,
                 product |-> order.product, qty |-> order.qty, price |-> order.price,
                 trigger |-> order.trigger, margin |-> order.margin, avg |-> order.avg]
    BY DEF Order
  <1>2. QED
    BY <1>1 DEF Order, Signed
\* The same, said of the row that the commit leaves.
Recorded(new, order, status, avg) ==
    \/ new = [order EXCEPT !.status = status]
    \/ new = [order EXCEPT !.status = status, !.avg = avg]

LEMMA OrderChanged ==
    ASSUME NEW order \in Order, NEW avg \in Nat,
           NEW status \in {"complete", "cancelled", "rejected"}, NEW new,
           Recorded(new, order, status, avg)
    PROVE  new.status = status /\ Signed(new) = Signed(order)
  <1>1. new.status = status /\ new.action = order.action /\ new.qty = order.qty
    BY Zenon DEF Order, Recorded
  <1>2. QED
    BY <1>1 DEF Signed

-----------------------------------------------------------------------------
\* A step of w leaves it with these fields and the other threads alone; Goes
\* says that only its place in the handler changes.
After(w, at, id, order, fill, r, sum, acc) ==
    Moves(w) /\ Reads(thread'[w], at, id, order, fill, r, sum, acc)

Goes(w, at) == After(w, at, thread[w].id, thread[w].order, thread[w].fill,
                     thread[w].row, thread[w].sum, thread[w].acc)

Sleeps(w) == After(w, "idle", NoOrder, Blank, 0, NoRow, 0, FreshAccount(0))

\* What each thread holds is well formed.
LEMMA LocalType ==
    ASSUME TypeOK, NEW w \in Thread
    PROVE  /\ thread[w] \in Local
           /\ thread[w].at \in Stage /\ thread[w].id \in OrderId \cup {NoOrder}
           /\ thread[w].order \in Order /\ thread[w].fill \in Nat
           /\ thread[w].row \in Row /\ thread[w].sum \in Int /\ thread[w].acc \in Account
  BY DEF TypeOK, Local, Stage

LEMMA StepSleeps ==
    ASSUME TypeOK, NEW w \in Thread, Step(w, Idle)
    PROVE  Sleeps(w)
  <1>1. Reads(Idle, "idle", NoOrder, Blank, 0, NoRow, 0, FreshAccount(0))
    BY IdleFields, Zenon
  <1>2. QED
    BY <1>1, Stepped DEF Sleeps, After, Reads

LEMMA StepGoes ==
    ASSUME TypeOK, NEW w \in Thread, NEW place \in Stage, GoTo(w, place)
    PROVE  Goes(w, place)
  <1>1. Reads([thread[w] EXCEPT !.at = place], place, thread[w].id, thread[w].order,
              thread[w].fill, thread[w].row, thread[w].sum, thread[w].acc)
    BY LocalType, LocalFields, Zenon
  <1>2. QED
    BY <1>1, Stepped DEF Goes, After, Reads, GoTo

\* place_order accepts a request: it has an open order in hand that the
\* database does not know, with a price only if it is to execute at once.
LEMMA PlaceEffect ==
    ASSUME TypeOK, NEW w \in Server, NEW o \in OrderId, NEW r \in Requests,
           NEW quote \in Quotes, Place(w, o, r, quote)
    PROVE  /\ thread[w].at = "idle" /\ orders[o].status = "none"
           /\ \A v \in Thread : thread[v].id # o
           /\ \E order \in Order, fill \in Nat, at \in {"block", "insert"} :
                  /\ After(w, at, o, order, fill, NoRow, 0, FreshAccount(0))
                  /\ order.status = "open"
                  /\ OrderTypes \subseteq {"LIMIT"} /\ ~Prefetched => fill = 0
           /\ UNCHANGED <<orders, trades, row, funds, lock, index, restarts>>
  <1> DEFINE price == IF r.type = "MARKET" THEN quote.ltp ELSE r.price
             order == Accepted(r, row.qty, price)
             at    == IF order.margin > 0 THEN "block" ELSE "insert"
  <1>1. /\ r.action \in Action /\ r.type \in OrderTypes /\ r.product = "MIS"
        /\ r.qty \in Nat /\ r.price \in Nat /\ r.trigger = 0
    <2>1. r \in [action : Action, type : OrderTypes, product : {"MIS"}, qty : Quantities,
                 price : Prices \cup {0}, trigger : {0}]
      BY Zenon DEF Requests
    <2>2. /\ r.action \in Action /\ r.type \in OrderTypes /\ r.product \in {"MIS"}
          /\ r.qty \in Quantities /\ r.price \in Prices \cup {0} /\ r.trigger \in {0}
      BY <2>1, Zenon
    <2>3. Quantities \subseteq Nat /\ Prices \cup {0} \subseteq Nat
      BY RaceAssumption
    <2>4. r.product = "MIS" /\ r.trigger = 0
      BY <2>2
    <2>5. r.qty \in Nat /\ r.price \in Nat
      BY <2>2, <2>3
    <2>6. QED
      BY <2>2, <2>4, <2>5
  <1>2. quote \in Quote /\ quote.ltp \in Nat
    BY RaceAssumption DEF Quote
  <1>3. price \in Nat /\ r.product \in Product /\ r.type \in OrderType
    BY <1>1, <1>2, RaceAssumption DEF Product, OrderType
  <1>4. MarginToBlock(row.qty, r.product, r.action, r.qty, price) \in Int
    <2>1. MarginToBlock(row.qty, r.product, r.action, r.qty, price) \in Nat
      BY <1>1, <1>3, MarginToBlockType DEF TypeOK, Row
    <2>2. QED
      BY <2>1
  <1>5. order \in Order /\ order.status = "open"
    <2> HIDE DEF price
    <2>1. (IF r.type = "MARKET" THEN price ELSE r.price) \in Nat
      BY <1>1, <1>3
    <2>2. QED
      BY <1>1, <1>3, <1>4, <2>1 DEF Accepted, Order
  <1>6. ASSUME NEW fill \in ImmediateFills(r, quote)
        PROVE  /\ fill \in Nat
               /\ OrderTypes \subseteq {"LIMIT"} /\ ~Prefetched => fill = 0
    <2>1. quote.ask \in Nat /\ quote.bid \in Nat
      BY <1>2 DEF Quote
    <2>2. MarketPrice(r, quote) \in Nat
      BY <1>2, <2>1 DEF MarketPrice
    <2>3. QED
      BY <1>1, <1>2, <2>2 DEF ImmediateFills
  <1>7. PICK fill \in ImmediateFills(r, quote) :
            Step(w, [Idle EXCEPT !.at = at, !.id = o, !.order = order, !.fill = fill])
    BY DEF Place
  <1> HIDE DEF order, price
  <1>8. at \in {"block", "insert"} /\ at \in Stage /\ w \in Thread
    BY DEF Stage, Thread
  <1> HIDE DEF at
  <1>9. After(w, at, o, order, fill, NoRow, 0, FreshAccount(0))
    <2>1. Reads([Idle EXCEPT !.at = at, !.id = o, !.order = order, !.fill = fill],
                at, o, order, fill, NoRow, 0, FreshAccount(0))
      BY <1>5, <1>6, <1>8, IdleFields, Zenon
    <2>2. QED
      BY <1>7, <1>8, <2>1, Stepped DEF After, Reads
  <1>10. QED
    BY <1>5, <1>6, <1>8, <1>9 DEF Place, At, database

\* cancel_order reads an open order.
LEMMA CancelEffect ==
    ASSUME TypeOK, NEW w \in Server, NEW o \in OrderId, Cancel(w, o)
    PROVE  /\ thread[w].at = "idle" /\ orders[o].status = "open"
           /\ After(w, "return", o, orders[o], 0, NoRow, 0, FreshAccount(0))
           /\ UNCHANGED <<orders, trades, row, funds, lock, index, restarts>>
  <1>1. "return" \in Stage /\ orders[o] \in Order /\ w \in Thread
    BY DEF Stage, TypeOK, Thread
  <1>2. Reads([Idle EXCEPT !.at = "return", !.id = o, !.order = orders[o]],
              "return", o, orders[o], 0, NoRow, 0, FreshAccount(0))
    BY <1>1, IdleFields, Zenon
  <1>3. QED
    BY <1>1, <1>2, Stepped DEF Cancel, At, database, After, Reads

\* The fund manager takes its lock and reads the account.
LEMMA LockEffect ==
    ASSUME TypeOK, NEW w \in Thread, Lock(w)
    PROVE  /\ thread[w].at \in {"block", "free", "return"}
           /\ lock = NoThread /\ lock' = w
           /\ After(w, thread[w].at, thread[w].id, thread[w].order, thread[w].fill,
                    thread[w].row, thread[w].sum, funds)
           /\ UNCHANGED <<orders, trades, row, funds, index, restarts>>
  <1>1. funds \in Account
    BY DEF TypeOK
  <1>2. Reads([thread[w] EXCEPT !.acc = funds], thread[w].at, thread[w].id, thread[w].order,
              thread[w].fill, thread[w].row, thread[w].sum, funds)
    BY <1>1, LocalType, LocalFields, Zenon
  <1>3. QED
    BY <1>2, Stepped DEF Lock, database, After, Reads

\* The commit of the account, with the lock given back.
LEMMA UnlockEffect ==
    ASSUME TypeOK, NEW w \in Thread, NEW acc \in Account, NEW next, Unlock(w, acc, next)
    PROVE  /\ lock = w /\ lock' = NoThread /\ Step(w, next)
           /\ funds' = Merge(funds, thread[w].acc, acc) /\ funds' \in Account
  BY LocalType, MergeAccount DEF Unlock, TypeOK
\* block_margin takes the margin and the order goes on, or turns it down.
LEMMA BlockMarginEffect ==
    ASSUME TypeOK, NEW w \in Thread, BlockMargin(w)
    PROVE  /\ thread[w].at = "block" /\ lock = w /\ lock' = NoThread
           /\ funds' \in Account
           /\ \/ /\ funds' = Merge(funds, thread[w].acc, Block(thread[w].acc, thread[w].order.margin))
                 /\ After(w, "insert", thread[w].id, thread[w].order, thread[w].fill,
                          thread[w].row, thread[w].sum, FreshAccount(0))
              \/ /\ funds' = Merge(funds, thread[w].acc, thread[w].acc)
                 /\ Sleeps(w)
           /\ UNCHANGED <<orders, trades, row, index, restarts>>
  <1> DEFINE me    == thread[w]
             taken == Block(me.acc, me.order.margin)
             on    == [me EXCEPT !.at = "insert", !.acc = Idle.acc]
  <1>1. me.acc \in Account /\ taken \in Account
    <2>1. me.order.margin \in Int
      BY LocalType DEF Order
    <2>2. QED
      BY <2>1, LocalType, BlockBalanced
  <1>2. Reads(on, "insert", me.id, me.order, me.fill, me.row, me.sum, FreshAccount(0))
    <2>1. Idle.acc = FreshAccount(0) /\ Idle.acc \in Account
      BY InitTypes DEF Idle
    <2>2. "insert" \in Stage
      BY DEF Stage
    <2>3. Reads(on, "insert", me.id, me.order, me.fill, me.row, me.sum, Idle.acc)
      BY <2>1, <2>2, LocalType, LocalFields, Zenon
    <2>4. QED
      BY <2>1, <2>3
  <1>3. /\ me.at = "block" /\ UNCHANGED <<orders, trades, row, index, restarts>>
        /\ Unlock(w, taken, on) \/ Unlock(w, me.acc, Idle)
    BY DEF BlockMargin, At
  <1> HIDE DEF on, taken
  <1>4. CASE Unlock(w, taken, on)
    <2>1. /\ lock = w /\ lock' = NoThread /\ Step(w, on)
          /\ funds' = Merge(funds, me.acc, taken) /\ funds' \in Account
      BY <1>1, <1>4, UnlockEffect
    <2>2. After(w, "insert", me.id, me.order, me.fill, me.row, me.sum, FreshAccount(0))
      BY <1>2, <2>1, Stepped DEF After, Reads
    <2>3. QED
      BY <1>3, <2>1, <2>2 DEF taken
  <1>5. CASE Unlock(w, me.acc, Idle)
    BY <1>1, <1>3, <1>5, UnlockEffect, StepSleeps
  <1>6. QED
    BY <1>3, <1>4, <1>5

\* The order is committed as it is in hand, and executed if it has a price.
LEMMA InsertEffect ==
    ASSUME TypeOK, NEW w \in Thread, Insert(w)
    PROVE  /\ thread[w].at = "insert"
           /\ orders' = [orders EXCEPT ![thread[w].id] = thread[w].order]
           /\ orders' \in [OrderId -> Order]
           /\ \E at \in {"close", "check", "trade"} :
                  Goes(w, at) /\ (thread[w].fill = 0 => at = "close")
           /\ UNCHANGED <<trades, row, funds, lock, index, restarts>>
  <1> DEFINE me == thread[w]
             at == CASE me.fill = 0                             -> "close"
                     [] me.fill > 0 /\ me.order.type = "MARKET" -> "check"
                     [] me.fill > 0 /\ me.order.type # "MARKET" -> "trade"
  <1>1. at \in {"close", "check", "trade"} /\ (me.fill = 0 => at = "close")
    BY LocalType
  <1>2. GoTo(w, at) /\ at \in Stage
    BY <1>1 DEF Insert, Stage
  <1>3. Goes(w, at)
    <2> HIDE DEF at
    <2>1. QED
      BY <1>2, StepGoes
  <1>4. orders' \in [OrderId -> Order]
    BY LocalType DEF Insert, TypeOK
  <1>5. QED
    BY <1>1, <1>3, <1>4 DEF Insert, At

\* cancel_order gives the margin back and commits the status.
LEMMA ReturnMarginEffect ==
    ASSUME TypeOK, NEW w \in Thread, ReturnMargin(w)
    PROVE  /\ thread[w].at = "return" /\ lock = w /\ lock' = NoThread
           /\ \E amount \in Int : funds' = Merge(funds, thread[w].acc,
                                                Release(thread[w].acc, amount, 0))
           /\ funds' \in Account
           /\ orders' = [orders EXCEPT ![thread[w].id].status = "cancelled"]
           /\ orders' \in [OrderId -> Order]
           /\ Sleeps(w)
           /\ UNCHANGED <<trades, row, index, restarts>>
  <1> DEFINE me     == thread[w]
             amount == CancelledMargin(me.order, me.order.price)
             given  == Release(me.acc, amount, 0)
  <1>1. amount \in Int
    <2>1. /\ me.order.price \in Nat /\ me.order.qty \in Nat /\ me.order.margin \in Int
          /\ me.order.product \in Product /\ me.order.action \in Action
      BY LocalType DEF Order
    <2>2. MarginRequired(me.order.product, me.order.action, me.order.qty,
                         me.order.price) \in Int
      BY <2>1, MarginRequiredType
    <2>3. QED
      BY <2>1, <2>2 DEF CancelledMargin
  <1> HIDE DEF amount
  <1>2. given \in Account
    <2>1. 0 \in Int /\ me.acc \in Account
      BY LocalType
    <2>2. QED
      BY <1>1, <2>1, ReleaseBalanced, Zenon
  <1>3. Unlock(w, given, Idle)
    BY DEF ReturnMargin, amount
  <1> HIDE DEF given
  <1>4. /\ lock = w /\ lock' = NoThread /\ Step(w, Idle)
        /\ funds' = Merge(funds, me.acc, given) /\ funds' \in Account
    BY <1>2, <1>3, UnlockEffect
  <1>5. orders' \in [OrderId -> Order]
    BY OrderFields DEF ReturnMargin, TypeOK
  <1>6. QED
    BY <1>1, <1>4, <1>5, StepSleeps DEF ReturnMargin, At, given

\* An engine picks an open order that is executable on the quote it has.
LEMMA PickEffect ==
    ASSUME TypeOK, NEW w \in Engine, NEW o \in OrderId, NEW quote \in Quotes,
           Pick(w, o, quote)
    PROVE  /\ thread[w].at = "idle" /\ orders[o].status = "open"
           /\ w \in Ticker => o \in index
           /\ \E fill \in Nat : After(w, "check", o, orders[o], fill, NoRow, 0, FreshAccount(0))
           /\ UNCHANGED <<orders, trades, row, funds, lock, index, restarts>>
  <1> DEFINE seen == IF w \in Ticker THEN [quote EXCEPT !.bid = quote.ltp, !.ask = quote.ltp]
                     ELSE quote
             fill == RestingPrice(orders[o], seen)
  <1>1. seen.ltp \in Nat /\ seen.bid \in Nat /\ seen.ask \in Nat
    <2>1. quote \in Quote
      BY RaceAssumption
    <2>2. QED
      BY <2>1 DEF Quote
  <1>2. orders[o] \in Order
    BY DEF TypeOK
  <1>3. fill \in Nat
    <2> HIDE DEF seen
    <2>1. orders[o].price \in Nat /\ orders[o].type \in OrderType
      BY <1>2 DEF Order
    <2>2. MarketPrice(orders[o], seen) \in Nat
      BY <1>1 DEF MarketPrice
    <2>3. QED
      BY <1>1, <2>1, <2>2 DEF RestingPrice, OrderType, Stop
  <1>4. Step(w, [Idle EXCEPT !.at = "check", !.id = o, !.order = orders[o], !.fill = fill])
    BY DEF Pick
  <1> HIDE DEF fill, seen
  <1>5. "check" \in Stage /\ w \in Thread
    BY DEF Stage, Thread, Engine
  <1>6. Reads([Idle EXCEPT !.at = "check", !.id = o, !.order = orders[o], !.fill = fill],
              "check", o, orders[o], fill, NoRow, 0, FreshAccount(0))
    BY <1>2, <1>3, <1>5, IdleFields, Zenon
  <1>7. After(w, "check", o, orders[o], fill, NoRow, 0, FreshAccount(0))
    BY <1>4, <1>5, <1>6, Stepped DEF After, Reads
  <1>8. QED
    BY <1>3, <1>7 DEF Pick, At, database
\* _process_order goes on to the trade, or marks an order with one complete.
LEMMA CheckEffect ==
    ASSUME TypeOK, NEW w \in Thread, Check(w)
    PROVE  /\ thread[w].at = "check"
           /\ \/ /\ trades[thread[w].id] = 0
                 /\ Goes(w, "trade")
                 /\ UNCHANGED orders
              \/ /\ Goes(w, "close")
                 /\ orders' = orders \/ orders' = [orders EXCEPT ![thread[w].id].status = "complete"]
           /\ orders' \in [OrderId -> Order]
           /\ UNCHANGED <<trades, row, funds, lock, index, restarts>>
  <1>1. "trade" \in Stage /\ "close" \in Stage
    BY DEF Stage
  <1>2. \/ trades[thread[w].id] = 0 /\ GoTo(w, "trade") /\ UNCHANGED orders
        \/ /\ GoTo(w, "close")
           /\ orders' = orders \/ orders' = [orders EXCEPT ![thread[w].id].status = "complete"]
    BY DEF Check
  <1>3. orders' \in [OrderId -> Order]
    <2>1. orders \in [OrderId -> Order]
      BY DEF TypeOK
    <2>2. CASE orders' = [orders EXCEPT ![thread[w].id].status = "complete"]
      BY <2>1, <2>2, OrderFields
    <2>3. QED
      BY <1>2, <2>1, <2>2
  <1>4. QED
    BY <1>1, <1>2, <1>3, StepGoes DEF Check, At

\* _execute_order commits one more trade and the completed order.
LEMMA TradeEffect ==
    ASSUME TypeOK, NEW w \in Thread, Trade(w)
    PROVE  /\ thread[w].at = "trade"
           /\ trades' = [trades EXCEPT ![thread[w].id] = @ + 1]
           /\ trades' \in [OrderId -> Nat]
           /\ orders' = [orders EXCEPT ![thread[w].id] =
                             [@ EXCEPT !.status = "complete", !.avg = thread[w].fill]]
           /\ orders' \in [OrderId -> Order]
           /\ Goes(w, "netting")
           /\ UNCHANGED <<row, funds, lock, index, restarts>>
  <1> DEFINE o == thread[w].id
  <1>1. orders' = [orders EXCEPT ![o] = [@ EXCEPT !.status = "complete", !.avg = thread[w].fill]]
    BY DEF Trade, TypeOK
  <1>2. orders' \in [OrderId -> Order]
    BY <1>1, OrderFields, LocalType DEF TypeOK
  <1>3. "netting" \in Stage
    BY DEF Stage
  <1>4. Goes(w, "netting")
    BY <1>3, StepGoes DEF Trade
  <1>5. trades' = [trades EXCEPT ![o] = @ + 1] /\ trades' \in [OrderId -> Nat]
    <2>1. trades' = [trades EXCEPT ![o] = @ + 1]
      BY Zenon DEF Trade
    <2>2. trades \in [OrderId -> Nat]
      BY DEF TypeOK
    <2>3. \A x \in OrderId : trades[x] + 1 \in Nat
      BY <2>2
    <2>4. ASSUME NEW x \in OrderId
          PROVE  trades'[x] = (IF x = o THEN trades[x] + 1 ELSE trades[x])
      BY <2>1, <2>2, Zenon
    <2>5. trades' = [x \in OrderId |-> trades'[x]]
      BY <2>1, <2>2, Zenon
    <2>6. QED
      BY <2>1, <2>2, <2>3, <2>4, <2>5
  <1>6. QED
    BY <1>1, <1>2, <1>4, <1>5 DEF Trade, At

\* _update_position reads the row.
LEMMA ReadRowEffect ==
    ASSUME TypeOK, NEW w \in Thread, ReadRow(w)
    PROVE  /\ thread[w].at = "netting"
           /\ \E at \in {"free", "write"} :
                  After(w, at, thread[w].id, thread[w].order, thread[w].fill,
                        row, thread[w].sum, thread[w].acc)
           /\ UNCHANGED <<orders, trades, row, funds, lock, index, restarts>>
  <1> DEFINE at == IF FreedMargin(row, thread[w].order) > 0 THEN "free" ELSE "write"
  <1>1. at \in {"free", "write"} /\ at \in Stage /\ row \in Row
    BY DEF Stage, TypeOK
  <1>2. Step(w, [thread[w] EXCEPT !.row = row, !.at = at])
    BY DEF ReadRow
  <1> HIDE DEF at
  <1>3. Reads([thread[w] EXCEPT !.row = row, !.at = at], at, thread[w].id, thread[w].order,
              thread[w].fill, row, thread[w].sum, thread[w].acc)
    BY <1>1, LocalType, LocalFields, Zenon
  <1>4. QED
    BY <1>1, <1>2, <1>3, Stepped DEF ReadRow, At, database, After, Reads

\* The closing part of a fill gives margin back and pays its profit or loss.
LEMMA FreeMarginEffect ==
    ASSUME TypeOK, NEW w \in Thread, FreeMargin(w)
    PROVE  /\ thread[w].at = "free" /\ lock = w /\ lock' = NoThread
           /\ \E amount \in Int, pnl \in Int :
                  funds' = Merge(funds, thread[w].acc, Release(thread[w].acc, amount, pnl))
           /\ funds' \in Account
           /\ After(w, "write", thread[w].id, thread[w].order, thread[w].fill,
                    thread[w].row, thread[w].sum, FreshAccount(0))
           /\ UNCHANGED <<orders, trades, row, index, restarts>>
  <1> DEFINE me     == thread[w]
             amount == FreedMargin(me.row, me.order)
             pnl    == RealizedPnl(me.row, me.order, me.fill)
             paid   == Release(me.acc, amount, pnl)
             on     == [me EXCEPT !.at = "write", !.acc = Idle.acc]
  <1>1. amount \in Int /\ pnl \in Int
    BY LocalType, FreedMarginType, RealizedPnlType
  <1>2. Unlock(w, paid, on)
    BY DEF FreeMargin
  <1> HIDE DEF amount, pnl
  <1>3. paid \in Account
    BY <1>1, LocalType, ReleaseBalanced
  <1>4. Reads(on, "write", me.id, me.order, me.fill, me.row, me.sum, FreshAccount(0))
    <2>1. Idle.acc = FreshAccount(0) /\ Idle.acc \in Account
      BY InitTypes DEF Idle
    <2>2. "write" \in Stage
      BY DEF Stage
    <2>3. Reads(on, "write", me.id, me.order, me.fill, me.row, me.sum, Idle.acc)
      BY <2>1, <2>2, LocalType, LocalFields, Zenon
    <2>4. QED
      BY <2>1, <2>3
  <1> HIDE DEF paid, on
  <1>5. /\ lock = w /\ lock' = NoThread /\ Step(w, on)
        /\ funds' = Merge(funds, me.acc, paid) /\ funds' \in Account
    BY <1>2, <1>3, UnlockEffect
  <1>6. After(w, "write", me.id, me.order, me.fill, me.row, me.sum, FreshAccount(0))
    BY <1>4, <1>5, Stepped DEF After, Reads
  <1>7. QED
    BY <1>1, <1>5, <1>6 DEF FreeMargin, At, paid

\* The row is written as the fill nets into the one that was read, or its
\* second INSERT fails and the order ends rejected.
LEMMA WriteRowEffect ==
    ASSUME TypeOK, NEW w \in Thread, WriteRow(w)
    PROVE  /\ thread[w].at = "write"
           /\ \/ /\ thread[w].row.seen = row.seen
                 /\ row' = Merge(row, thread[w].row,
                                 Netted(thread[w].row, thread[w].order, thread[w].fill))
                 /\ After(w, "sum", thread[w].id, thread[w].order, thread[w].fill,
                          NoRow, thread[w].sum, thread[w].acc)
                 /\ UNCHANGED orders
              \/ /\ thread[w].row.seen # row.seen
                 /\ Goes(w, "close")
                 /\ orders' = [orders EXCEPT ![thread[w].id].status = "rejected"]
                 /\ UNCHANGED row
           /\ row' \in Row /\ orders' \in [OrderId -> Order]
           /\ UNCHANGED <<trades, funds, lock, index, restarts>>
  <1> DEFINE me == thread[w]
             on == [me EXCEPT !.at = "sum", !.row = NoRow]
  <1>1. Netted(me.row, me.order, me.fill) \in Row
    BY LocalType, NettedType
  <1>2. CASE /\ me.row.seen = row.seen
             /\ row' = Merge(row, me.row, Netted(me.row, me.order, me.fill))
             /\ Step(w, on)
             /\ UNCHANGED orders
    <2>1. row' \in Row
      BY <1>1, <1>2, LocalType, MergeRow DEF TypeOK
    <2>2. Reads(on, "sum", me.id, me.order, me.fill, NoRow, me.sum, me.acc)
      <3>1. "sum" \in Stage
        BY DEF Stage
      <3>2. QED
        BY <3>1, LocalType, LocalFields, InitTypes, Zenon
    <2> HIDE DEF on
    <2>3. After(w, "sum", me.id, me.order, me.fill, NoRow, me.sum, me.acc)
      BY <1>2, <2>2, Stepped DEF After, Reads
    <2>4. QED
      BY <1>2, <2>1, <2>3 DEF WriteRow, At, TypeOK
  <1>3. CASE /\ me.row.seen # row.seen
             /\ orders' = [orders EXCEPT ![me.id].status = "rejected"]
             /\ GoTo(w, "close")
             /\ UNCHANGED row
    <2>1. orders' \in [OrderId -> Order]
      BY <1>3, OrderFields DEF TypeOK
    <2>2. "close" \in Stage
      BY DEF Stage
    <2>3. QED
      BY <1>3, <2>1, <2>2, StepGoes DEF WriteRow, At, TypeOK
  <1>4. QED
    BY <1>2, <1>3 DEF WriteRow

\* reconcile_margin adds up the margin of the open position.
LEMMA SumMarginEffect ==
    ASSUME TypeOK, NEW w \in Thread, SumMargin(w)
    PROVE  /\ thread[w].at = "sum"
           /\ \E sum \in Int : After(w, "reconcile", thread[w].id, thread[w].order,
                                     thread[w].fill, thread[w].row, sum, thread[w].acc)
           /\ UNCHANGED <<orders, trades, row, funds, lock, index, restarts>>
  <1>1. "reconcile" \in Stage /\ OpenMargin(row) \in Int
    BY DEF Stage, OpenMargin, TypeOK, Row
  <1>2. Reads([thread[w] EXCEPT !.at = "reconcile", !.sum = OpenMargin(row)],
              "reconcile", thread[w].id, thread[w].order, thread[w].fill,
              thread[w].row, OpenMargin(row), thread[w].acc)
    BY <1>1, LocalType, LocalFields, Zenon
  <1>3. Step(w, [thread[w] EXCEPT !.at = "reconcile", !.sum = OpenMargin(row)])
    BY DEF SumMargin
  <1>4. QED
    BY <1>1, <1>2, <1>3, Stepped DEF SumMargin, At, database, After, Reads

\* reconcile_margin reads the account, and corrects it if it differs.
LEMMA ReadFundsEffect ==
    ASSUME TypeOK, NEW w \in Thread, ReadFunds(w)
    PROVE  /\ thread[w].at = "reconcile"
           /\ \E at \in {"close", "adjust"} :
                  After(w, at, thread[w].id, thread[w].order, thread[w].fill,
                        thread[w].row, thread[w].sum, funds)
           /\ UNCHANGED <<orders, trades, row, funds, lock, index, restarts>>
  <1> DEFINE at == IF funds.used = thread[w].sum THEN "close" ELSE "adjust"
  <1>1. at \in {"close", "adjust"} /\ at \in Stage /\ funds \in Account
    BY DEF Stage, TypeOK
  <1>2. Step(w, [thread[w] EXCEPT !.at = at, !.acc = funds])
    BY DEF ReadFunds
  <1> HIDE DEF at
  <1>3. Reads([thread[w] EXCEPT !.at = at, !.acc = funds], at, thread[w].id, thread[w].order,
              thread[w].fill, thread[w].row, thread[w].sum, funds)
    BY <1>1, LocalType, LocalFields, Zenon
  <1>4. QED
    BY <1>1, <1>2, <1>3, Stepped DEF ReadFunds, At, database, After, Reads

\* The correction is committed without the lock.
LEMMA AdjustEffect ==
    ASSUME TypeOK, NEW w \in Thread, Adjust(w)
    PROVE  /\ thread[w].at = "adjust"
           /\ funds' = Merge(funds, thread[w].acc, Reconcile(thread[w].acc, thread[w].sum))
           /\ funds' \in Account
           /\ Goes(w, "close")
           /\ UNCHANGED <<orders, trades, row, lock, index, restarts>>
  <1>1. Reconcile(thread[w].acc, thread[w].sum) \in Account
    BY LocalType, ReconcileBalanced
  <1>2. funds' \in Account
    BY <1>1, LocalType, MergeAccount DEF Adjust, TypeOK
  <1>3. "close" \in Stage
    BY DEF Stage
  <1>4. QED
    BY <1>2, <1>3, StepGoes DEF Adjust, At

\* The handler ends: the WebSocket engine learns of an order that stays open
\* and forgets one that does not.
LEMMA CloseEffect ==
    ASSUME TypeOK, NEW w \in Thread, Close(w)
    PROVE  /\ thread[w].at = "close"
           /\ \/ /\ w \in Server /\ orders[thread[w].id].status = "open"
                 /\ index' = index \cup {thread[w].id}
              \/ /\ ~(w \in Server /\ orders[thread[w].id].status = "open")
                 /\ \/ index' = index
                    \/ /\ w \in Ticker /\ orders[thread[w].id].status # "open"
                       /\ index' = index \ {thread[w].id}
           /\ Sleeps(w)
           /\ UNCHANGED <<orders, trades, row, funds, lock, restarts>>
  <1>1. Sleeps(w)
    BY StepSleeps DEF Close
  <1>2. QED
    BY <1>1 DEF Close, At, database
-----------------------------------------------------------------------------
\* No status goes back: an order that was stored stays stored, and one that is
\* open was open.
StatusMovesOn ==
    \A o \in OrderId : /\ orders'[o].status = "none" <=> orders[o].status = "none"
                       /\ orders'[o].status = "open" => orders[o].status = "open"

\* Nor do the side and the quantity of a stored order change.
SidesKept ==
    \A o \in OrderId : orders[o].status # "none" => Signed(orders'[o]) = Signed(orders[o])

LEMMA TypeKept ==
    ASSUME TypeOK, NEW w \in Thread, Moves(w),
           orders' \in [OrderId -> Order], trades' \in [OrderId -> Nat],
           row' \in Row, funds' \in Account, lock' \in Thread \cup {NoThread},
           index' \subseteq OrderId, restarts' = restarts
    PROVE  TypeOK'
  BY DEF TypeOK, Moves, Local, Stage

\* A step on an order that is stored and being executed, which leaves it in
\* hand and the index alone.
LEMMA FillKeeps ==
    ASSUME IInv, NEW w \in Thread, ~Asleep(w), ~Planning(w), thread[w].at # "return",
           TypeOK', Moves(w), thread'[w].id = thread[w].id,
           thread'[w].at \notin {"idle", "block", "insert", "return"},
           StatusMovesOn, \A o \in OrderId : o # thread[w].id => trades'[o] = trades[o],
           index' = index, lock' = NoThread \/ (lock' = lock /\ lock # w)
    PROVE  IInv'
  <1>1. InHand'
    BY DEF IInv, InHand, Asleep, Planning, Placing, StatusMovesOn, Moves, TypeOK, Thread
  <1>2. Untouched'
    BY DEF IInv, InHand, Untouched, Asleep, Planning, StatusMovesOn, TypeOK
  <1>3. Held'
    BY DEF IInv, Held, Moves, TypeOK
  <1>4. OpenOrdersIndexed'
    BY DEF IInv, OpenOrdersIndexed, StatusMovesOn, Moves, Thread
  <1>5. QED
    BY <1>1, <1>2, <1>3, <1>4 DEF IInv

\* A thread that executes an order has a stored one in hand, and holds the lock
\* only to free margin.
LEMMA FillingFacts ==
    ASSUME IInv, NEW w \in Thread,
           thread[w].at \notin {"idle", "block", "insert", "return"}
    PROVE  /\ TypeOK /\ ~Asleep(w) /\ ~Planning(w) /\ thread[w].at # "return"
           /\ thread[w].id \in OrderId /\ orders[thread[w].id].status # "none"
           /\ thread[w].at # "free" => lock # w
  <1>1. TypeOK /\ ~Asleep(w) /\ ~Planning(w)
    BY DEF IInv, Asleep, Planning
  <1>2. thread[w].id # NoOrder /\ orders[thread[w].id].status # "none"
    BY <1>1 DEF IInv, InHand
  <1>3. thread[w].at # "free" => lock # w
    BY RaceAssumption DEF IInv, Held
  <1>4. QED
    BY <1>1, <1>2, <1>3, LocalType

\* Another status or price for one stored order.
LEMMA StatusMoves ==
    ASSUME TypeOK, NEW o \in OrderId, orders[o].status # "none",
           NEW status \in {"complete", "cancelled", "rejected"}, NEW avg \in Nat,
           \/ orders' = [orders EXCEPT ![o].status = status]
           \/ orders' = [orders EXCEPT ![o] = [@ EXCEPT !.status = status, !.avg = avg]]
    PROVE  StatusMovesOn /\ SidesKept /\ orders'[o].status = status
  <1>1. orders \in [OrderId -> Order]
    BY DEF TypeOK
  <1>2. orders'[o].status = status /\ Signed(orders'[o]) = Signed(orders[o])
    <2>1. Recorded(orders'[o], orders[o], status, avg)
      BY <1>1, Zenon DEF Recorded
    <2>2. orders[o] \in Order
      BY <1>1
    <2>3. QED
      BY <2>1, <2>2, OrderChanged
  <1>3. \A x \in OrderId : x # o => orders'[x] = orders[x]
    BY <1>1
  <1>4. QED
    BY <1>2, <1>3 DEF StatusMovesOn, SidesKept

\* The commits of the engines and of cancel_order move a status on, and leave
\* the side and the quantity of every order.
LEMMA StatusSteps ==
    ASSUME IInv, NEW w \in Thread,
           Check(w) \/ Trade(w) \/ WriteRow(w) \/ ReturnMargin(w)
    PROVE  /\ StatusMovesOn /\ SidesKept
           /\ Trade(w) => orders'[thread[w].id].status = "complete"
  <1>1. TypeOK
    BY DEF IInv
  <1>2. CASE UNCHANGED orders /\ ~Trade(w)
    BY <1>2 DEF StatusMovesOn, SidesKept
  <1>3. thread[w].id \in OrderId /\ orders[thread[w].id].status # "none"
    <2>1. thread[w].at \in {"check", "trade", "write", "return"}
      BY <1>1, CheckEffect, TradeEffect, WriteRowEffect, ReturnMarginEffect
    <2>2. thread[w].id # NoOrder /\ orders[thread[w].id].status # "none"
      BY <2>1 DEF IInv, InHand, Asleep, Planning
    <2>3. QED
      BY <1>1, <2>2, LocalType
  <1>4. CASE Trade(w)
    BY <1>1, <1>3, <1>4, TradeEffect, LocalType, StatusMoves
  <1>5. CASE ~Trade(w) /\ ~UNCHANGED orders
    <2>1. \E status \in {"complete", "cancelled", "rejected"} :
              orders' = [orders EXCEPT ![thread[w].id].status = status]
      BY <1>1, <1>5, CheckEffect, WriteRowEffect, ReturnMarginEffect
    <2>2. QED
      BY <1>1, <1>3, <1>5, <2>1, StatusMoves
  <1>6. QED
    BY <1>2, <1>4, <1>5

LEMMA PlaceKeeps ==
    ASSUME IInv, NEW w \in Server, NEW o \in OrderId, NEW r \in Requests,
           NEW quote \in Quotes, Place(w, o, r, quote)
    PROVE  IInv'
  <1>1. w \in Thread /\ TypeOK
    BY DEF Thread, IInv
  <1>2. PICK order \in Order, fill \in Nat, at \in {"block", "insert"} :
            /\ After(w, at, o, order, fill, NoRow, 0, FreshAccount(0))
            /\ order.status = "open"
    BY <1>1, PlaceEffect
  <1>3. /\ thread[w].at = "idle" /\ orders[o].status = "none"
        /\ \A v \in Thread : thread[v].id # o
        /\ UNCHANGED <<orders, trades, row, funds, lock, index, restarts>>
    BY <1>1, PlaceEffect
  <1>4. /\ Moves(w) /\ thread'[w].at = at /\ thread'[w].id = o
        /\ thread'[w].order = order
    BY <1>2 DEF After, Reads
  <1>5. TypeOK'
    BY <1>1, <1>3, <1>4, TypeKept DEF TypeOK
  <1>6. InHand'
    BY <1>1, <1>2, <1>3, <1>4, RaceAssumption
    DEF IInv, InHand, Asleep, Planning, Placing, Moves, Thread
  <1>7. Untouched' /\ Held'
    BY <1>1, <1>3, <1>4 DEF IInv, Untouched, Held, Moves, TypeOK
  <1>8. OpenOrdersIndexed'
    BY <1>1, <1>3, <1>4, RaceAssumption
    DEF IInv, InHand, Asleep, OpenOrdersIndexed, Moves, Thread
  <1>9. QED
    BY <1>5, <1>6, <1>7, <1>8 DEF IInv

LEMMA CancelKeeps ==
    ASSUME IInv, NEW w \in Server, NEW o \in OrderId, Cancel(w, o)
    PROVE  IInv'
  <1>1. w \in Thread /\ TypeOK
    BY DEF Thread, IInv
  <1>2. /\ thread[w].at = "idle" /\ orders[o].status = "open"
        /\ Moves(w) /\ thread'[w].at = "return" /\ thread'[w].id = o
        /\ UNCHANGED <<orders, trades, row, funds, lock, index, restarts>>
    BY <1>1, CancelEffect DEF After, Reads
  <1>3. TypeOK'
    BY <1>1, <1>2, TypeKept DEF TypeOK
  <1>4. InHand'
    BY <1>1, <1>2, RaceAssumption
    DEF IInv, InHand, Asleep, Planning, Placing, Moves, Thread
  <1>5. Untouched' /\ Held'
    BY <1>1, <1>2 DEF IInv, Untouched, Held, Moves, TypeOK
  <1>6. OpenOrdersIndexed'
    BY <1>1, <1>2, RaceAssumption
    DEF IInv, InHand, Asleep, OpenOrdersIndexed, Moves, Thread
  <1>7. QED
    BY <1>3, <1>4, <1>5, <1>6 DEF IInv

LEMMA PickKeeps ==
    ASSUME IInv, NEW w \in Engine, NEW o \in OrderId, NEW quote \in Quotes,
           Pick(w, o, quote)
    PROVE  IInv'
  <1>1. w \in Thread /\ w \notin Server /\ TypeOK
    BY RaceAssumption DEF Thread, Engine, IInv
  <1>2. /\ thread[w].at = "idle" /\ orders[o].status = "open"
        /\ Moves(w) /\ thread'[w].at = "check" /\ thread'[w].id = o
        /\ UNCHANGED <<orders, trades, row, funds, lock, index, restarts>>
    BY <1>1, PickEffect DEF After, Reads
  <1>3. TypeOK'
    BY <1>1, <1>2, TypeKept DEF TypeOK
  <1>4. InHand'
    BY <1>1, <1>2, RaceAssumption
    DEF IInv, InHand, Asleep, Planning, Placing, Moves, Thread
  <1>5. Untouched' /\ Held'
    BY <1>1, <1>2 DEF IInv, Untouched, Held, Moves, TypeOK
  <1>6. OpenOrdersIndexed'
    BY <1>1, <1>2, RaceAssumption
    DEF IInv, InHand, Asleep, OpenOrdersIndexed, Moves, Thread
  <1>7. QED
    BY <1>3, <1>4, <1>5, <1>6 DEF IInv

LEMMA LockKeeps ==
    ASSUME IInv, NEW w \in Thread, Lock(w)
    PROVE  IInv'
  <1>1. TypeOK
    BY DEF IInv
  <1>2. /\ thread[w].at \in {"block", "free", "return"}
        /\ lock = NoThread /\ lock' = w
        /\ Moves(w) /\ thread'[w].at = thread[w].at /\ thread'[w].id = thread[w].id
        /\ thread'[w].order = thread[w].order
        /\ UNCHANGED <<orders, trades, row, funds, index, restarts>>
    BY <1>1, LockEffect DEF After, Reads
  <1>3. TypeOK'
    BY <1>1, <1>2, TypeKept DEF TypeOK
  <1>4. InHand'
    BY <1>1, <1>2 DEF IInv, InHand, Asleep, Planning, Placing, Moves, Thread
  <1>5. Untouched' /\ Held'
    BY <1>1, <1>2 DEF IInv, Untouched, Held
  <1>6. OpenOrdersIndexed'
    BY <1>1, <1>2 DEF IInv, OpenOrdersIndexed, Moves, Thread
  <1>7. QED
    BY <1>3, <1>4, <1>5, <1>6 DEF IInv
LEMMA BlockMarginKeeps ==
    ASSUME IInv, NEW w \in Thread, BlockMargin(w)
    PROVE  IInv'
  <1>1. TypeOK
    BY DEF IInv
  <1>2. /\ thread[w].at = "block" /\ lock = w /\ lock' = NoThread /\ funds' \in Account
        /\ Moves(w)
        /\ \/ /\ thread'[w].at = "insert" /\ thread'[w].id = thread[w].id
              /\ thread'[w].order = thread[w].order
           \/ thread'[w].at = "idle" /\ thread'[w].id = NoOrder
        /\ UNCHANGED <<orders, trades, row, index, restarts>>
    BY <1>1, BlockMarginEffect DEF After, Reads, Sleeps
  <1>3. TypeOK'
    BY <1>1, <1>2, TypeKept DEF TypeOK
  <1>4. InHand'
    BY <1>1, <1>2 DEF IInv, InHand, Asleep, Planning, Placing, Moves, Thread
  <1>5. Untouched' /\ Held'
    BY <1>1, <1>2 DEF IInv, Untouched, Held
  <1>6. OpenOrdersIndexed'
    BY <1>1, <1>2
    DEF IInv, InHand, Asleep, Planning, OpenOrdersIndexed, Moves, Thread, TypeOK
  <1>7. QED
    BY <1>3, <1>4, <1>5, <1>6 DEF IInv

LEMMA InsertKeeps ==
    ASSUME IInv, NEW w \in Thread, Insert(w)
    PROVE  IInv'
  <1>1. TypeOK
    BY DEF IInv
  <1>2. PICK at \in {"close", "check", "trade"} : Goes(w, at)
    BY <1>1, InsertEffect
  <1>3. /\ thread[w].at = "insert" /\ Moves(w)
        /\ thread'[w].at = at /\ thread'[w].id = thread[w].id
        /\ orders' = [orders EXCEPT ![thread[w].id] = thread[w].order]
        /\ orders' \in [OrderId -> Order]
        /\ UNCHANGED <<trades, row, funds, lock, index, restarts>>
    BY <1>1, <1>2, InsertEffect DEF Goes, After, Reads
  <1>4. TypeOK'
    BY <1>1, <1>3, TypeKept DEF TypeOK
  <1>5. /\ w \in Server /\ thread[w].id \in OrderId
        /\ orders[thread[w].id].status = "none" /\ thread[w].order.status = "open"
        /\ lock # w
    <2>1. /\ w \in Server /\ thread[w].id # NoOrder
          /\ orders[thread[w].id].status = "none" /\ thread[w].order.status = "open"
      BY <1>3 DEF IInv, InHand, Asleep, Planning
    <2>2. lock # w
      BY <1>3, RaceAssumption DEF IInv, Held
    <2>3. QED
      BY <1>1, <2>1, <2>2, LocalType
  <1>6. /\ orders'[thread[w].id].status = "open"
        /\ \A o \in OrderId : o # thread[w].id => orders'[o] = orders[o]
    BY <1>1, <1>3, <1>5 DEF TypeOK
  <1>7. InHand'
    <2>1. \A v \in Thread : /\ Asleep(v)' <=> thread'[v].id = NoOrder
                            /\ thread'[v].at \in {"block", "insert", "return"} => v \in Server
      BY <1>3, <1>5, RaceAssumption DEF IInv, InHand, Asleep, Moves
    <2>2. ASSUME NEW v \in Thread, Planning(v)'
          PROVE  orders'[thread'[v].id].status = "none" /\ thread'[v].order.status = "open"
      <3>1. v # w /\ thread'[v] = thread[v] /\ v \in Server
        BY <1>3, <2>2, RaceAssumption DEF IInv, InHand, Planning, Moves
      <3>2. thread[v].id # thread[w].id /\ thread[v].id \in OrderId
        BY <1>1, <1>3, <1>5, <2>2, <3>1, LocalType DEF IInv, InHand, Planning, Placing, Asleep
      <3>3. QED
        BY <1>6, <2>2, <3>1, <3>2 DEF IInv, InHand, Planning
    <2>3. ASSUME NEW v \in Thread, ~Asleep(v)', ~Planning(v)'
          PROVE  orders'[thread'[v].id].status # "none"
      <3>1. CASE v = w
        BY <1>3, <1>6, <3>1
      <3>2. CASE v # w
        BY <1>1, <1>3, <1>6, <2>3, <3>2, LocalType DEF IInv, InHand, Planning, Asleep, Moves
      <3>3. QED
        BY <3>1, <3>2
    <2>4. \A u, v \in Server : u # v /\ Placing(u)' /\ Placing(v)' => thread'[u].id # thread'[v].id
      BY <1>3 DEF IInv, InHand, Placing, Moves, Thread
    <2>5. QED
      BY <2>1, <2>2, <2>3, <2>4 DEF InHand, Asleep, Planning, Placing
  <1>8. Untouched' /\ Held'
    BY <1>1, <1>3, <1>5, <1>6 DEF IInv, Untouched, Held, Moves, TypeOK
  <1>9. OpenOrdersIndexed'
    BY <1>1, <1>3, <1>5, <1>6 DEF IInv, OpenOrdersIndexed, Moves, Thread
  <1>10. QED
    BY <1>4, <1>7, <1>8, <1>9 DEF IInv

LEMMA ReturnMarginKeeps ==
    ASSUME IInv, NEW w \in Thread, ReturnMargin(w)
    PROVE  IInv'
  <1>1. TypeOK
    BY DEF IInv
  <1>2. /\ thread[w].at = "return" /\ lock = w /\ lock' = NoThread /\ funds' \in Account
        /\ Moves(w) /\ thread'[w].at = "idle" /\ thread'[w].id = NoOrder
        /\ orders' = [orders EXCEPT ![thread[w].id].status = "cancelled"]
        /\ orders' \in [OrderId -> Order]
        /\ UNCHANGED <<trades, row, index, restarts>>
    BY <1>1, ReturnMarginEffect DEF After, Reads, Sleeps
  <1>3. TypeOK'
    BY <1>1, <1>2, TypeKept DEF TypeOK
  <1>4. thread[w].id \in OrderId /\ orders[thread[w].id].status # "none"
    BY <1>1, <1>2, LocalType DEF IInv, InHand, Asleep, Planning
  <1>5. StatusMovesOn
    BY StatusSteps
  <1>6. InHand'
    BY <1>1, <1>2, <1>5, LocalType
    DEF IInv, InHand, Asleep, Planning, Placing, StatusMovesOn, Moves, Thread
  <1>7. Untouched' /\ Held'
    BY <1>1, <1>2, <1>5 DEF IInv, Untouched, Held, StatusMovesOn, TypeOK
  <1>8. OpenOrdersIndexed'
    BY <1>1, <1>2, <1>5 DEF IInv, OpenOrdersIndexed, StatusMovesOn, Moves, Thread
  <1>9. QED
    BY <1>3, <1>6, <1>7, <1>8 DEF IInv

\* An index entry goes only when its order is no longer open.
LEMMA DropKeeps ==
    ASSUME IInv, NEW w \in Engine, NEW o \in OrderId, Drop(w, o)
    PROVE  IInv'
  <1>1. /\ orders[o].status # "open" /\ index' = index \ {o}
        /\ UNCHANGED <<orders, trades, row, funds, lock, thread, restarts>>
    BY DEF Drop, database
  <1>2. TypeOK'
    BY <1>1 DEF IInv, TypeOK
  <1>3. InHand' /\ Untouched' /\ Held'
    BY <1>1 DEF IInv, InHand, Asleep, Planning, Placing, Untouched, Held
  <1>4. OpenOrdersIndexed'
    BY <1>1 DEF IInv, OpenOrdersIndexed
  <1>5. QED
    BY <1>2, <1>3, <1>4 DEF IInv

LEMMA CloseKeeps ==
    ASSUME IInv, NEW w \in Thread, Close(w)
    PROVE  IInv'
  <1>1. TypeOK
    BY DEF IInv
  <1>2. /\ thread[w].at = "close" /\ Moves(w)
        /\ thread'[w].at = "idle" /\ thread'[w].id = NoOrder
        /\ \/ /\ w \in Server /\ orders[thread[w].id].status = "open"
              /\ index' = index \cup {thread[w].id}
           \/ /\ ~(w \in Server /\ orders[thread[w].id].status = "open")
              /\ \/ index' = index
                 \/ /\ orders[thread[w].id].status # "open"
                    /\ index' = index \ {thread[w].id}
        /\ UNCHANGED <<orders, trades, row, funds, lock, restarts>>
    BY <1>1, CloseEffect DEF After, Reads, Sleeps
  <1>3. thread[w].id \in OrderId /\ orders[thread[w].id].status # "none" /\ lock # w
    <2>1. thread[w].id # NoOrder /\ orders[thread[w].id].status # "none"
      BY <1>2 DEF IInv, InHand, Asleep, Planning
    <2>2. lock # w
      BY <1>2, RaceAssumption DEF IInv, Held
    <2>3. QED
      BY <1>1, <2>1, <2>2, LocalType
  <1>4. TypeOK'
    BY <1>1, <1>2, <1>3, TypeKept DEF TypeOK
  <1>5. InHand'
    BY <1>1, <1>2 DEF IInv, InHand, Asleep, Planning, Placing, Moves, Thread
  <1>6. Untouched' /\ Held'
    BY <1>1, <1>2, <1>3 DEF IInv, Untouched, Held, Moves, TypeOK
  <1>7. OpenOrdersIndexed'
    BY <1>1, <1>2, <1>3 DEF IInv, OpenOrdersIndexed, Moves, Thread
  <1>8. QED
    BY <1>4, <1>5, <1>6, <1>7 DEF IInv

\* A restart forgets what the threads had in hand and rebuilds the index.
LEMMA RestartKeeps ==
    ASSUME IInv, Restart
    PROVE  IInv'
  <1>1. /\ restarts < MaxRestarts /\ restarts' = restarts + 1
        /\ thread' = [w \in Thread |-> Idle] /\ lock' = NoThread
        /\ index' = {o \in OrderId : orders[o].status = "open"}
        /\ UNCHANGED <<orders, trades, row, funds>>
    BY DEF Restart, database
  <1>2. Idle \in Local /\ Idle.at = "idle" /\ Idle.id = NoOrder
    BY IdleFields DEF Reads
  <1>3. TypeOK'
    <2>1. thread' \in [Thread -> Local]
      BY <1>1, <1>2
    <2>2. restarts' \in 0 .. MaxRestarts
      BY <1>1, RaceAssumption DEF IInv, TypeOK
    <2>3. QED
      BY <1>1, <2>1, <2>2 DEF IInv, TypeOK, Local, Stage
  <1>4. InHand'
    BY <1>1, <1>2 DEF InHand, Asleep, Planning, Placing, Thread
  <1>5. Untouched' /\ Held' /\ OpenOrdersIndexed'
    BY <1>1 DEF IInv, Untouched, Held, OpenOrdersIndexed
  <1>6. QED
    BY <1>3, <1>4, <1>5 DEF IInv
\* _process_order, _execute_order, _update_position and reconcile_margin.
LEMMA FillActionsKeep ==
    ASSUME IInv, NEW w \in Thread,
           \/ Check(w) \/ Trade(w) \/ ReadRow(w) \/ FreeMargin(w) \/ WriteRow(w)
           \/ SumMargin(w) \/ ReadFunds(w) \/ Adjust(w)
    PROVE  IInv'
  <1>1. TypeOK /\ orders \in [OrderId -> Order] /\ trades \in [OrderId -> Nat]
    BY DEF IInv, TypeOK
  <1>2. CASE Check(w)
    <2>1. thread[w].at = "check"
      BY <1>1, <1>2, CheckEffect
    <2>2. /\ ~Asleep(w) /\ ~Planning(w) /\ thread[w].at # "return" /\ lock # w
          /\ thread[w].id \in OrderId /\ orders[thread[w].id].status # "none"
      BY <2>1, FillingFacts
    <2>3. /\ Moves(w) /\ thread'[w].at \in {"trade", "close"} /\ thread'[w].id = thread[w].id
          /\ orders' \in [OrderId -> Order]
          /\ UNCHANGED <<trades, row, funds, lock, index, restarts>>
      BY <1>1, <1>2, CheckEffect DEF Goes, After, Reads
    <2>4. StatusMovesOn
      BY <1>2, StatusSteps
    <2>5. TypeOK'
      BY <1>1, <2>3, TypeKept DEF TypeOK
    <2>6. QED
      BY <2>2, <2>3, <2>4, <2>5, FillKeeps
  <1>3. CASE Trade(w)
    <2>1. thread[w].at = "trade"
      BY <1>1, <1>3, TradeEffect
    <2>2. /\ ~Asleep(w) /\ ~Planning(w) /\ thread[w].at # "return" /\ lock # w
          /\ thread[w].id \in OrderId /\ orders[thread[w].id].status # "none"
      BY <2>1, FillingFacts
    <2>3. /\ Moves(w) /\ thread'[w].at = "netting" /\ thread'[w].id = thread[w].id
          /\ trades' = [trades EXCEPT ![thread[w].id] = @ + 1]
          /\ trades' \in [OrderId -> Nat]
          /\ orders' = [orders EXCEPT ![thread[w].id] =
                            [@ EXCEPT !.status = "complete", !.avg = thread[w].fill]]
          /\ orders' \in [OrderId -> Order]
          /\ UNCHANGED <<row, funds, lock, index, restarts>>
      BY <1>1, <1>3, TradeEffect DEF Goes, After, Reads
    <2>4. StatusMovesOn
      BY <1>3, StatusSteps
    <2>5. TypeOK'
      BY <1>1, <2>3, TypeKept DEF TypeOK
    <2>6. \A o \in OrderId : o # thread[w].id => trades'[o] = trades[o]
      BY <1>1, <2>3, Zenon
    <2>7. QED
      BY <2>2, <2>3, <2>4, <2>5, <2>6, FillKeeps
  <1>4. CASE ReadRow(w) \/ SumMargin(w) \/ ReadFunds(w)
    <2>1. thread[w].at \in {"netting", "sum", "reconcile"}
      BY <1>1, <1>4, ReadRowEffect, SumMarginEffect, ReadFundsEffect
    <2>2. /\ ~Asleep(w) /\ ~Planning(w) /\ thread[w].at # "return" /\ lock # w
      BY <2>1, FillingFacts
    <2>3. /\ Moves(w) /\ thread'[w].id = thread[w].id
          /\ thread'[w].at \in {"free", "write", "reconcile", "close", "adjust"}
          /\ UNCHANGED <<orders, trades, row, funds, lock, index, restarts>>
      <3>1. CASE ReadRow(w)
        BY <1>1, <3>1, ReadRowEffect DEF After, Reads
      <3>2. CASE SumMargin(w)
        BY <1>1, <3>2, SumMarginEffect DEF After, Reads
      <3>3. CASE ReadFunds(w)
        BY <1>1, <3>3, ReadFundsEffect DEF After, Reads
      <3>4. QED
        BY <1>4, <3>1, <3>2, <3>3
    <2>4. TypeOK' /\ StatusMovesOn
      BY <1>1, <2>3, TypeKept DEF TypeOK, StatusMovesOn
    <2>5. QED
      BY <2>2, <2>3, <2>4, FillKeeps
  <1>5. CASE FreeMargin(w)
    <2>1. /\ thread[w].at = "free" /\ lock' = NoThread
          /\ Moves(w) /\ thread'[w].at = "write" /\ thread'[w].id = thread[w].id
          /\ funds' \in Account
          /\ UNCHANGED <<orders, trades, row, index, restarts>>
      BY <1>1, <1>5, FreeMarginEffect DEF After, Reads
    <2>2. ~Asleep(w) /\ ~Planning(w) /\ thread[w].at # "return"
      BY <2>1, FillingFacts
    <2>3. TypeOK' /\ StatusMovesOn
      BY <1>1, <2>1, TypeKept DEF TypeOK, StatusMovesOn
    <2>4. QED
      BY <2>1, <2>2, <2>3, FillKeeps
  <1>6. CASE WriteRow(w)
    <2>1. thread[w].at = "write"
      BY <1>1, <1>6, WriteRowEffect
    <2>2. /\ ~Asleep(w) /\ ~Planning(w) /\ thread[w].at # "return" /\ lock # w
          /\ thread[w].id \in OrderId /\ orders[thread[w].id].status # "none"
      BY <2>1, FillingFacts
    <2>3. /\ Moves(w) /\ thread'[w].at \in {"sum", "close"} /\ thread'[w].id = thread[w].id
          /\ orders' \in [OrderId -> Order] /\ row' \in Row
          /\ UNCHANGED <<trades, funds, lock, index, restarts>>
      BY <1>1, <1>6, WriteRowEffect DEF Goes, After, Reads
    <2>4. StatusMovesOn
      BY <1>6, StatusSteps
    <2>5. TypeOK'
      BY <1>1, <2>3, TypeKept DEF TypeOK
    <2>6. QED
      BY <2>2, <2>3, <2>4, <2>5, FillKeeps
  <1>7. CASE Adjust(w)
    <2>1. /\ thread[w].at = "adjust" /\ Moves(w)
          /\ thread'[w].at = "close" /\ thread'[w].id = thread[w].id
          /\ funds' \in Account
          /\ UNCHANGED <<orders, trades, row, lock, index, restarts>>
      BY <1>1, <1>7, AdjustEffect DEF Goes, After, Reads
    <2>2. ~Asleep(w) /\ ~Planning(w) /\ thread[w].at # "return" /\ lock # w
      BY <2>1, FillingFacts
    <2>3. TypeOK' /\ StatusMovesOn
      BY <1>1, <2>1, TypeKept DEF TypeOK, StatusMovesOn
    <2>4. QED
      BY <2>1, <2>2, <2>3, FillKeeps
  <1>8. QED
    BY <1>2, <1>3, <1>4, <1>5, <1>6, <1>7

\* Nothing has been placed yet.
LEMMA InitHolds == Init => IInv
  <1> SUFFICES ASSUME Init PROVE IInv
    OBVIOUS
  <1>1. /\ orders = [o \in OrderId |-> Blank] /\ trades = [o \in OrderId |-> 0]
        /\ row = NoRow /\ funds = FreshAccount(0) /\ lock = NoThread /\ index = {}
        /\ thread = [w \in Thread |-> Idle] /\ restarts = 0
    BY DEF Init
  <1>2. /\ Idle \in Local /\ Idle.at = "idle" /\ Idle.id = NoOrder
        /\ Blank.status = "none"
    BY IdleFields DEF Reads, Blank
  <1>3. TypeOK
    <2>1. orders \in [OrderId -> Order] /\ trades \in [OrderId -> Nat]
      BY <1>1, InitTypes
    <2>2. thread \in [Thread -> Local]
      BY <1>1, <1>2
    <2>3. row \in Row /\ funds \in Account /\ restarts \in 0 .. MaxRestarts
      BY <1>1, InitTypes, RaceAssumption
    <2>4. QED
      BY <1>1, <2>1, <2>2, <2>3 DEF TypeOK, Local, Stage
  <1>4. InHand
    BY <1>1, <1>2 DEF InHand, Asleep, Planning, Placing, Thread
  <1>5. Untouched /\ Held /\ OpenOrdersIndexed
    BY <1>1, <1>2 DEF Untouched, Held, OpenOrdersIndexed
  <1>6. QED
    BY <1>3, <1>4, <1>5 DEF IInv

LEMMA NextKeeps == IInv /\ [Next]_vars => IInv'
  <1> SUFFICES ASSUME IInv, [Next]_vars PROVE IInv'
    OBVIOUS
  <1>1. ASSUME NEW w \in Server, Serve(w) PROVE IInv'
    <2>1. w \in Thread
      BY DEF Thread
    <2>2. QED
      BY <1>1, <2>1, PlaceKeeps, CancelKeeps, BlockMarginKeeps, InsertKeeps, ReturnMarginKeeps
      DEF Serve
  <1>2. ASSUME NEW w \in Engine, Run(w) PROVE IInv'
    BY <1>2, PickKeeps, DropKeeps DEF Run
  <1>3. ASSUME NEW w \in Thread, Lock(w) \/ Fill(w) PROVE IInv'
    BY <1>3, LockKeeps, FillActionsKeep, CloseKeeps DEF Fill
  <1>4. CASE Restart
    BY <1>4, RestartKeeps
  <1>5. CASE UNCHANGED vars
    BY <1>5 DEF vars, IInv, TypeOK, InHand, Asleep, Planning, Placing, Untouched, Held,
                OpenOrdersIndexed
  <1>6. QED
    BY <1>1, <1>2, <1>3, <1>4, <1>5 DEF Next

LEMMA Invariance == Spec => []IInv
  <1>1. QED
    BY InitHolds, NextKeeps, PTL DEF Spec

\* TypeOK, for every number of threads and orders: what the tables and the
\* threads hold is well formed.
THEOREM RaceTypes == Spec => []TypeOK
  <1>1. IInv => TypeOK
    BY DEF IInv
  <1>2. QED
    BY <1>1, Invariance, PTL

\* OpenOrdersIndexed: however requests, engines and restarts interleave, the
\* WebSocket engine knows every open order that no request is still placing
\* (notify_order_placed, _rebuild_order_index).
THEOREM NoOrderForgotten == Spec => []OpenOrdersIndexed
  <1>1. IInv => OpenOrdersIndexed
    BY DEF IInv
  <1>2. QED
    BY <1>1, Invariance, PTL
-----------------------------------------------------------------------------
\* The WebSocket engine alone, one tick at a time.
OneTicker == Poller = {} /\ \A v, w \in Ticker : v = w

\* Who is about to trade an order is alone with it: a request with an order the
\* engine does not know, the engine with one of its index.
TickInv ==
    /\ \A o \in OrderId : trades[o] <= 1 /\ (trades[o] = 1 => orders[o].status # "open")
    /\ \A w \in Thread : thread[w].at \in {"check", "trade"} => trades[thread[w].id] = 0
    /\ \A w \in Ticker : thread[w].at \in {"check", "trade"} => thread[w].id \in index
    /\ \A w \in Server : Placing(w) => thread[w].id \notin index

\* A step that trades nothing, leaves the index alone and takes no thread up to
\* a trade.
LEMMA NoTick ==
    ASSUME IInv, TickInv, NEW w \in Thread, Moves(w), StatusMovesOn,
           trades' = trades, index' = index,
           thread'[w].at \notin {"idle", "return"} =>
               /\ thread'[w].id = thread[w].id
               /\ thread[w].at \notin {"idle", "return"}
               /\ thread'[w].at \in {"check", "trade"} => thread[w].at \in {"check", "trade"}
    PROVE  TickInv'
  BY DEF IInv, TickInv, Placing, Moves, StatusMovesOn, Thread

LEMMA TickActionsKeep ==
    ASSUME IInv, TickInv, NEW w \in Thread,
           \/ Lock(w) \/ BlockMargin(w) \/ ReturnMargin(w) \/ Check(w) \/ ReadRow(w)
           \/ FreeMargin(w) \/ WriteRow(w) \/ SumMargin(w) \/ ReadFunds(w) \/ Adjust(w)
    PROVE  TickInv'
  <1>1. TypeOK
    BY DEF IInv
  <1>2. CASE Lock(w)
    BY <1>1, <1>2, LockEffect, NoTick DEF After, Reads, StatusMovesOn
  <1>3. CASE BlockMargin(w)
    BY <1>1, <1>3, BlockMarginEffect, NoTick DEF After, Reads, Sleeps, StatusMovesOn
  <1>4. CASE ReturnMargin(w)
    BY <1>1, <1>4, ReturnMarginEffect, StatusSteps, NoTick DEF After, Reads, Sleeps
  <1>5. CASE Check(w)
    BY <1>1, <1>5, CheckEffect, StatusSteps, NoTick DEF Goes, After, Reads
  <1>6. CASE ReadRow(w)
    BY <1>1, <1>6, ReadRowEffect, NoTick DEF After, Reads, StatusMovesOn
  <1>7. CASE FreeMargin(w)
    BY <1>1, <1>7, FreeMarginEffect, NoTick DEF After, Reads, StatusMovesOn
  <1>8. CASE WriteRow(w)
    BY <1>1, <1>8, WriteRowEffect, StatusSteps, NoTick DEF Goes, After, Reads
  <1>9. CASE SumMargin(w)
    BY <1>1, <1>9, SumMarginEffect, NoTick DEF After, Reads, StatusMovesOn
  <1>10. CASE ReadFunds(w)
    BY <1>1, <1>10, ReadFundsEffect, NoTick DEF After, Reads, StatusMovesOn
  <1>11. CASE Adjust(w)
    BY <1>1, <1>11, AdjustEffect, NoTick DEF Goes, After, Reads, StatusMovesOn
  <1>12. QED
    BY <1>2, <1>3, <1>4, <1>5, <1>6, <1>7, <1>8, <1>9, <1>10, <1>11

\* The request and the engine never have the same order up for a trade.
LEMMA TradeTicks ==
    ASSUME OneTicker, IInv, TickInv, NEW w \in Thread, Trade(w)
    PROVE  TickInv'
  <1> DEFINE o == thread[w].id
  <1>1. TypeOK /\ trades \in [OrderId -> Nat]
    BY DEF IInv, TypeOK
  <1>2. /\ thread[w].at = "trade" /\ Moves(w)
        /\ thread'[w].at = "netting" /\ thread'[w].id = o
        /\ trades' = [trades EXCEPT ![o] = @ + 1]
        /\ UNCHANGED <<row, funds, lock, index, restarts>>
    BY <1>1, TradeEffect DEF Goes, After, Reads
  <1>3. StatusMovesOn /\ orders'[o].status = "complete"
    BY StatusSteps
  <1>4. o \in OrderId /\ trades[o] = 0
    BY <1>2, FillingFacts DEF TickInv
  <1>5. /\ trades'[o] = 1
        /\ \A x \in OrderId : x # o => trades'[x] = trades[x]
    BY <1>1, <1>2, <1>4
  <1>6. ASSUME NEW v \in Thread, v # w, thread[v].at \in {"check", "trade"}
        PROVE  thread[v].id # o
    <2>1. v \in Server \/ v \in Ticker
      BY DEF OneTicker, Thread
    <2>2. w \in Server \/ w \in Ticker
      BY DEF OneTicker, Thread
    <2>3. QED
      BY <1>2, <1>6, <2>1, <2>2 DEF OneTicker, IInv, InHand, TickInv, Placing
  <1>7. \A x \in OrderId : trades'[x] <= 1 /\ (trades'[x] = 1 => orders'[x].status # "open")
    BY <1>1, <1>3, <1>4, <1>5 DEF TickInv, StatusMovesOn
  <1>8. ASSUME NEW v \in Thread, thread'[v].at \in {"check", "trade"}
        PROVE  trades'[thread'[v].id] = 0
    <2>1. v # w /\ thread'[v] = thread[v] /\ thread[v].id \in OrderId
      BY <1>2, <1>8, FillingFacts DEF Moves
    <2>2. QED
      BY <1>5, <1>6, <1>8, <2>1 DEF TickInv
  <1>9. /\ \A v \in Ticker : thread'[v].at \in {"check", "trade"} => thread'[v].id \in index'
        /\ \A v \in Server : Placing(v)' => thread'[v].id \notin index'
    BY <1>2 DEF TickInv, Placing, Moves, Thread
  <1>10. QED
    BY <1>7, <1>8, <1>9 DEF TickInv, Placing

LEMMA TickNextKeeps == OneTicker /\ IInv /\ TickInv /\ [Next]_vars => TickInv'
  <1> SUFFICES ASSUME OneTicker, IInv, TickInv, [Next]_vars PROVE TickInv'
    OBVIOUS
  <1>1. TypeOK /\ trades \in [OrderId -> Nat]
    BY DEF IInv, TypeOK
  <1>2. ASSUME NEW w \in Server, NEW o \in OrderId, NEW r \in Requests, NEW quote \in Quotes,
               Place(w, o, r, quote)
        PROVE  TickInv'
    <2>1. PICK order \in Order, fill \in Nat, at \in {"block", "insert"} :
              After(w, at, o, order, fill, NoRow, 0, FreshAccount(0))
      BY <1>1, <1>2, PlaceEffect
    <2>2. /\ orders[o].status = "none"
          /\ UNCHANGED <<orders, trades, row, funds, lock, index, restarts>>
          /\ Moves(w) /\ thread'[w].at = at /\ thread'[w].id = o
      BY <1>1, <1>2, <2>1, PlaceEffect DEF After, Reads
    <2>3. o \notin index
      BY <2>2 DEF IInv, Untouched
    <2>4. QED
      BY <2>2, <2>3 DEF TickInv, Placing, Moves, Thread
  <1>3. ASSUME NEW w \in Server, NEW o \in OrderId, Cancel(w, o)
        PROVE  TickInv'
    <2>1. w \in Thread
      BY DEF Thread
    <2>2. QED
      BY <1>1, <1>3, <2>1, CancelEffect, NoTick DEF After, Reads, StatusMovesOn
  <1>4. ASSUME NEW w \in Thread, Insert(w)
        PROVE  TickInv'
    <2>1. /\ thread[w].at = "insert" /\ Moves(w) /\ thread'[w].id = thread[w].id
          /\ orders' = [orders EXCEPT ![thread[w].id] = thread[w].order]
          /\ UNCHANGED <<trades, row, funds, lock, index, restarts>>
      BY <1>1, <1>4, InsertEffect DEF Goes, After, Reads
    <2>2. /\ w \in Server /\ thread[w].id \in OrderId
          /\ orders[thread[w].id].status = "none" /\ thread[w].id # NoOrder
      BY <1>1, <2>1, LocalType DEF IInv, InHand, Asleep, Planning
    <2>3. trades[thread[w].id] = 0 /\ thread[w].id \notin index /\ w \notin Ticker
      BY <2>2, RaceAssumption DEF IInv, Untouched, Engine
    <2>4. \A x \in OrderId : x # thread[w].id => orders'[x] = orders[x]
      BY <1>1, <2>1 DEF TypeOK
    <2>5. QED
      BY <2>1, <2>2, <2>3, <2>4 DEF TickInv, Placing, Moves, Thread
  <1>5. ASSUME NEW w \in Engine, NEW o \in OrderId, NEW quote \in Quotes, Pick(w, o, quote)
        PROVE  TickInv'
    <2>1. w \in Ticker /\ w \notin Server /\ w \in Thread
      BY RaceAssumption DEF OneTicker, Engine, Thread
    <2>2. /\ orders[o].status = "open" /\ o \in index
          /\ UNCHANGED <<orders, trades, row, funds, lock, index, restarts>>
          /\ Moves(w) /\ thread'[w].at = "check" /\ thread'[w].id = o
      BY <1>1, <1>5, <2>1, PickEffect DEF After, Reads
    <2>3. trades[o] = 0
      BY <1>1, <2>2 DEF TickInv
    <2>4. QED
      BY <2>1, <2>2, <2>3 DEF TickInv, Placing, Moves, Thread
  <1>6. ASSUME NEW w \in Ticker, NEW o \in OrderId, Drop(w, o)
        PROVE  TickInv'
    <2>1. /\ thread[w].at = "idle" /\ index' = index \ {o}
          /\ UNCHANGED <<orders, trades, row, funds, lock, thread, restarts>>
      BY <1>6 DEF Drop, At, database
    <2>2. QED
      BY <2>1 DEF OneTicker, TickInv, Placing
  <1>7. ASSUME NEW w \in Thread, Close(w)
        PROVE  TickInv'
    <2>1. /\ thread[w].at = "close" /\ Moves(w) /\ thread'[w].at = "idle"
          /\ \/ w \in Server /\ index' = index \cup {thread[w].id}
             \/ index' = index
             \/ w \in Ticker /\ index' = index \ {thread[w].id}
          /\ UNCHANGED <<orders, trades, row, funds, lock, restarts>>
      BY <1>1, <1>7, CloseEffect DEF After, Reads, Sleeps
    <2>2. \A o \in OrderId : trades'[o] <= 1 /\ (trades'[o] = 1 => orders'[o].status # "open")
      BY <2>1 DEF TickInv
    <2>3. \A v \in Thread : thread'[v].at \in {"check", "trade"} => trades'[thread'[v].id] = 0
      BY <2>1 DEF TickInv, Moves
    <2>4. \A v \in Ticker : thread'[v].at \in {"check", "trade"} => thread'[v].id \in index'
      BY <2>1 DEF OneTicker, TickInv, Moves, Thread
    <2>5. \A v \in Server : Placing(v)' => thread'[v].id \notin index'
      BY <2>1 DEF IInv, InHand, TickInv, Placing, Moves, Thread
    <2>6. QED
      BY <2>2, <2>3, <2>4, <2>5 DEF TickInv, Placing
  <1>8. CASE Restart
    <2>1. /\ thread' = [w \in Thread |-> Idle]
          /\ UNCHANGED <<orders, trades, row, funds>>
      BY <1>8 DEF Restart, database
    <2>2. Idle.at = "idle"
      BY DEF Idle
    <2>3. QED
      BY <2>1, <2>2 DEF TickInv, Placing, Thread
  <1>9. CASE UNCHANGED vars
    BY <1>9 DEF vars, TickInv, Placing
  <1>10. ASSUME NEW w \in Server, Serve(w) PROVE TickInv'
    <2>1. w \in Thread
      BY DEF Thread
    <2>2. QED
      BY <1>2, <1>3, <1>4, <1>10, <2>1, TickActionsKeep DEF Serve
  <1>11. ASSUME NEW w \in Engine, Run(w) PROVE TickInv'
    BY <1>5, <1>6, <1>11 DEF Run
  <1>12. ASSUME NEW w \in Thread, Lock(w) \/ Fill(w) PROVE TickInv'
    BY <1>7, <1>12, TradeTicks, TickActionsKeep DEF Fill
  <1>13. QED
    BY <1>8, <1>9, <1>10, <1>11, <1>12 DEF Next

\* AtMostOneTrade: with the WebSocket engine alone, and its ticks handled one
\* after the other, no order trades twice, however many requests place and
\* cancel meanwhile and wherever the process stops (execution_engine.py
\* _process_order, order_manager.py place_order).
THEOREM TradedOnce == ASSUME OneTicker PROVE Spec => []AtMostOneTrade
  <1>1. Init => TickInv
    BY DEF Init, Idle, Blank, TickInv, Placing, Thread
  <1>2. IInv /\ TickInv /\ [Next]_vars => TickInv'
    BY TickNextKeeps
  <1>3. TickInv => AtMostOneTrade
    BY DEF TickInv, AtMostOneTrade
  <1>4. QED
    BY <1>1, <1>2, <1>3, Invariance, PTL DEF Spec
-----------------------------------------------------------------------------
\* Resting orders under one engine: no request executes an order itself.
RestingOrders == OrderTypes \subseteq {"LIMIT"} /\ ~Prefetched
OneEngine     == \A v, w \in Engine : v = w

\* A request places or cancels and never fills; what the fund manager and
\* reconcile_margin have read is an account of the same profits, balanced like
\* the committed one, and the engine under its lock has the committed one.
MoneyInv ==
    /\ \A w \in Server : /\ thread[w].at \in {"idle", "block", "insert", "close", "return"}
                         /\ Planning(w) => thread[w].fill = 0
    /\ Balanced(funds)
    /\ lock # NoThread => /\ Balanced(thread[lock].acc)
                          /\ thread[lock].acc.realized = funds.realized
    /\ \A e \in Engine : lock = e => thread[e].acc = funds
    /\ \A e \in Engine : thread[e].at = "adjust" =>
           Balanced(thread[e].acc) /\ thread[e].acc.realized = funds.realized

\* Writing the columns that changed keeps the account balanced when what was
\* read and what is written account for the same profits as the row does.
LEMMA MergeBalanced ==
    ASSUME NEW a \in Account, NEW b \in Account, NEW c \in Account,
           Balanced(a), Balanced(b), Balanced(c),
           b.realized = a.realized, c.realized = a.realized
    PROVE  Balanced(Merge(a, b, c)) /\ Merge(a, b, c).realized = a.realized
  <1>1. /\ Merge(a, b, c).available = IF c.available # b.available THEN c.available
                                      ELSE a.available
        /\ Merge(a, b, c).used = IF c.used # b.used THEN c.used ELSE a.used
        /\ Merge(a, b, c).realized = a.realized
    BY MergeAccount
  <1>2. /\ a.available \in Int /\ a.used \in Int /\ a.realized \in Int
        /\ b.available \in Int /\ b.used \in Int
        /\ c.available \in Int /\ c.used \in Int
    BY DEF Account
  <1>3. /\ a.available + a.used = StartingCapital + a.realized
        /\ b.available + b.used = StartingCapital + a.realized
        /\ c.available + c.used = StartingCapital + a.realized
    BY DEF Balanced
  <1>4. c.available # b.available <=> c.used # b.used
    <2> DEFINE w == c.available
               x == c.used
               y == b.available
               z == b.used
    <2>1. w \in Int /\ x \in Int /\ y \in Int /\ z \in Int
      BY <1>2
    <2>2. w + x = y + z
      BY <1>3
    <2> HIDE DEF w, x, y, z
    <2>3. w # y <=> x # z
      BY <2>1, <2>2
    <2>4. QED
      BY <2>3 DEF w, x, y, z
  <1>5. QED
    BY <1>1, <1>3, <1>4 DEF Balanced

\* With the committed account in hand the commit writes what was computed.
LEMMA MergeCommitted ==
    ASSUME NEW a \in Account, NEW b \in Account, NEW c \in Account, a = b
    PROVE  Merge(a, b, c) = c
  <1>1. /\ Merge(a, b, c) \in Account
        /\ Merge(a, b, c).available = c.available
        /\ Merge(a, b, c).used = c.used
        /\ Merge(a, b, c).realized = c.realized
        /\ Merge(a, b, c).resets = c.resets
    BY MergeAccount
  <1>2. QED
    BY <1>1 DEF Account

\* A step of an engine, or of a request that does not fill, that leaves the
\* account and the lock alone.
LEMMA NoMoney ==
    ASSUME IInv, MoneyInv, NEW w \in Thread, Moves(w), lock # w,
           funds' = funds, lock' = lock, thread'[w].at # "adjust",
           w \in Server => /\ thread'[w].at \in {"idle", "block", "insert", "close", "return"}
                           /\ Planning(w)' => thread'[w].fill = 0
    PROVE  MoneyInv'
  <1>1. /\ \A v \in Server : /\ thread'[v].at \in {"idle", "block", "insert", "close", "return"}
                             /\ Planning(v)' => thread'[v].fill = 0
    BY DEF MoneyInv, Planning, Moves, Thread
  <1>2. lock # NoThread => lock \in Thread /\ thread'[lock] = thread[lock]
    BY DEF IInv, TypeOK, Moves
  <1>3. \A e \in Engine : lock' = e => thread'[e].acc = funds'
    BY RaceAssumption, <1>2 DEF MoneyInv, Thread, Engine
  <1>4. \A e \in Engine : thread'[e].at = "adjust" =>
            Balanced(thread'[e].acc) /\ thread'[e].acc.realized = funds'.realized
    BY DEF MoneyInv, Moves, Thread, Engine
  <1>5. QED
    BY <1>1, <1>2, <1>3, <1>4 DEF MoneyInv, Planning

\* A commit of the account that keeps it balanced and gives the lock back.
LEMMA MoneyBack ==
    ASSUME IInv, MoneyInv, NEW w \in Thread, Moves(w), lock = w, lock' = NoThread,
           Balanced(funds'), funds'.realized = funds.realized \/ (OneEngine /\ w \in Engine),
           thread'[w].at # "adjust",
           w \in Server => /\ thread'[w].at \in {"idle", "block", "insert", "close", "return"}
                           /\ Planning(w)' => thread'[w].fill = 0
    PROVE  MoneyInv'
  <1>1. /\ \A v \in Server : /\ thread'[v].at \in {"idle", "block", "insert", "close", "return"}
                             /\ Planning(v)' => thread'[v].fill = 0
    BY DEF MoneyInv, Planning, Moves, Thread
  <1>2. \A e \in Engine : lock' # e
    BY RaceAssumption DEF Thread, Engine
  <1>3. \A e \in Engine : thread'[e].at = "adjust" =>
            Balanced(thread'[e].acc) /\ thread'[e].acc.realized = funds'.realized
    BY DEF OneEngine, MoneyInv, Moves, Thread, Engine
  <1>4. QED
    BY <1>1, <1>2, <1>3 DEF MoneyInv, Planning
\* A request never executes: it reaches no place where an engine fills.
LEMMA OnlyEnginesFill ==
    ASSUME MoneyInv, NEW w \in Thread,
           thread[w].at \notin {"idle", "block", "insert", "close", "return"}
    PROVE  w \in Engine /\ w \notin Server
  BY RaceAssumption DEF MoneyInv, Thread, Engine

LEMMA LockMoney ==
    ASSUME IInv, MoneyInv, NEW w \in Thread, Lock(w)
    PROVE  MoneyInv'
  <1>1. TypeOK
    BY DEF IInv
  <1>2. /\ thread[w].at \in {"block", "free", "return"} /\ lock = NoThread /\ lock' = w
        /\ Moves(w) /\ thread'[w].at = thread[w].at /\ thread'[w].fill = thread[w].fill
        /\ thread'[w].acc = funds /\ funds' = funds
    BY <1>1, LockEffect DEF After, Reads
  <1>3. QED
    BY <1>2 DEF MoneyInv, Planning, Moves, Thread, Engine

LEMMA BlockMoney ==
    ASSUME IInv, MoneyInv, NEW w \in Thread, BlockMargin(w)
    PROVE  MoneyInv'
  <1> DEFINE acc == thread[w].acc
  <1>1. TypeOK /\ funds \in Account /\ acc \in Account /\ thread[w].order.margin \in Int
    BY LocalType DEF IInv, TypeOK, Order
  <1>2. /\ thread[w].at = "block" /\ lock = w /\ lock' = NoThread /\ Moves(w)
        /\ \/ funds' = Merge(funds, acc, Block(acc, thread[w].order.margin))
           \/ funds' = Merge(funds, acc, acc)
        /\ \/ thread'[w].at = "insert" /\ thread'[w].fill = thread[w].fill
           \/ thread'[w].at = "idle"
    BY <1>1, BlockMarginEffect DEF After, Reads, Sleeps
  <1>3. Balanced(acc) /\ acc.realized = funds.realized /\ Balanced(funds)
    BY <1>2, RaceAssumption DEF MoneyInv
  <1>4. Balanced(funds') /\ funds'.realized = funds.realized
    <2>1. /\ Block(acc, thread[w].order.margin) \in Account
          /\ Balanced(Block(acc, thread[w].order.margin))
          /\ Block(acc, thread[w].order.margin).realized = funds.realized
      BY <1>1, <1>3, BlockBalanced
    <2>2. QED
      BY <1>1, <1>2, <1>3, <2>1, MergeBalanced
  <1>5. QED
    BY <1>2, <1>4, MoneyBack DEF MoneyInv, Planning

LEMMA ReturnMoney ==
    ASSUME IInv, MoneyInv, NEW w \in Thread, ReturnMargin(w)
    PROVE  MoneyInv'
  <1> DEFINE acc == thread[w].acc
  <1>1. TypeOK /\ funds \in Account /\ acc \in Account
    BY LocalType DEF IInv, TypeOK
  <1>2. PICK amount \in Int : funds' = Merge(funds, acc, Release(acc, amount, 0))
    BY <1>1, ReturnMarginEffect
  <1>3. /\ thread[w].at = "return" /\ lock = w /\ lock' = NoThread
        /\ Moves(w) /\ thread'[w].at = "idle"
    BY <1>1, ReturnMarginEffect DEF Sleeps, After, Reads
  <1>4. Balanced(acc) /\ acc.realized = funds.realized /\ Balanced(funds)
    BY <1>3, RaceAssumption DEF MoneyInv
  <1>5. Balanced(funds') /\ funds'.realized = funds.realized
    <2>1. 0 \in Int /\ funds.realized + 0 = funds.realized
      BY <1>1 DEF Account
    <2>2. /\ Release(acc, amount, 0) \in Account
          /\ Balanced(Release(acc, amount, 0))
          /\ Release(acc, amount, 0).realized = acc.realized + 0
      BY <1>1, <1>4, <2>1, ReleaseBalanced, Zenon
    <2>3. QED
      BY <1>1, <1>2, <1>4, <2>1, <2>2, MergeBalanced
  <1>6. QED
    BY <1>3, <1>5, MoneyBack DEF Planning

\* The profit of a fill is committed by the one engine, under the lock.
LEMMA FreeMoney ==
    ASSUME OneEngine, IInv, MoneyInv, NEW w \in Thread, FreeMargin(w)
    PROVE  MoneyInv'
  <1> DEFINE acc == thread[w].acc
  <1>1. TypeOK /\ funds \in Account /\ acc \in Account
    BY LocalType DEF IInv, TypeOK
  <1>2. PICK amount \in Int, pnl \in Int : funds' = Merge(funds, acc, Release(acc, amount, pnl))
    BY <1>1, FreeMarginEffect
  <1>3. /\ thread[w].at = "free" /\ lock = w /\ lock' = NoThread
        /\ Moves(w) /\ thread'[w].at = "write"
    BY <1>1, FreeMarginEffect DEF After, Reads
  <1>4. w \in Engine /\ w \notin Server
    BY <1>3, OnlyEnginesFill
  <1>5. acc = funds /\ Balanced(funds)
    BY <1>3, <1>4 DEF MoneyInv
  <1>6. Balanced(funds')
    <2>1. Release(acc, amount, pnl) \in Account /\ Balanced(Release(acc, amount, pnl))
      BY <1>1, <1>5, ReleaseBalanced, Zenon
    <2>2. funds' = Release(acc, amount, pnl)
      BY <1>1, <1>2, <1>5, <2>1, MergeCommitted
    <2>3. QED
      BY <2>1, <2>2
  <1>7. QED
    BY <1>3, <1>4, <1>6, MoneyBack

\* reconcile_margin commits without the lock what it computed from an account
\* of the same profits.
LEMMA AdjustMoney ==
    ASSUME OneEngine, IInv, MoneyInv, NEW w \in Thread, Adjust(w)
    PROVE  MoneyInv'
  <1> DEFINE acc == thread[w].acc
  <1>1. TypeOK /\ funds \in Account /\ acc \in Account /\ thread[w].sum \in Int
    BY LocalType DEF IInv, TypeOK
  <1>2. /\ thread[w].at = "adjust" /\ Moves(w) /\ thread'[w].at = "close"
        /\ funds' = Merge(funds, acc, Reconcile(acc, thread[w].sum)) /\ lock' = lock
    BY <1>1, AdjustEffect DEF Goes, After, Reads
  <1>3. w \in Engine /\ w \notin Server /\ lock # w
    BY <1>2, OnlyEnginesFill, FillingFacts
  <1>4. Balanced(acc) /\ acc.realized = funds.realized /\ Balanced(funds)
    BY <1>2, <1>3 DEF MoneyInv
  <1>5. Balanced(funds') /\ funds'.realized = funds.realized
    <2>1. /\ Reconcile(acc, thread[w].sum) \in Account
          /\ Balanced(Reconcile(acc, thread[w].sum))
          /\ Reconcile(acc, thread[w].sum).realized = funds.realized
      BY <1>1, <1>4, ReconcileBalanced
    <2>2. QED
      BY <1>1, <1>2, <1>4, <2>1, MergeBalanced
  <1>6. lock' # NoThread => /\ Balanced(thread'[lock'].acc)
                            /\ thread'[lock'].acc.realized = funds'.realized
    BY <1>2, <1>3, <1>5 DEF IInv, TypeOK, MoneyInv, Moves
  <1>7. /\ \A v \in Server : /\ thread'[v].at \in {"idle", "block", "insert", "close", "return"}
                             /\ Planning(v)' => thread'[v].fill = 0
        /\ \A e \in Engine : e = w
    BY <1>2, <1>3 DEF OneEngine, MoneyInv, Planning, Moves, Thread
  <1>8. QED
    BY <1>2, <1>3, <1>5, <1>6, <1>7 DEF MoneyInv, Planning

LEMMA ReadFundsMoney ==
    ASSUME IInv, MoneyInv, NEW w \in Thread, ReadFunds(w)
    PROVE  MoneyInv'
  <1>1. TypeOK
    BY DEF IInv
  <1>2. /\ thread[w].at = "reconcile" /\ Moves(w) /\ thread'[w].at \in {"close", "adjust"}
        /\ thread'[w].acc = funds /\ UNCHANGED <<funds, lock>>
    BY <1>1, ReadFundsEffect DEF After, Reads
  <1>3. w \in Engine /\ w \notin Server /\ lock # w
    BY <1>2, OnlyEnginesFill, FillingFacts
  <1>4. lock' # NoThread => thread'[lock'] = thread[lock]
    BY <1>2, <1>3 DEF IInv, TypeOK, Moves
  <1>5. \A v \in Server : /\ thread'[v].at \in {"idle", "block", "insert", "close", "return"}
                          /\ Planning(v)' => thread'[v].fill = 0
    BY <1>2, <1>3 DEF MoneyInv, Planning, Moves, Thread
  <1>6. /\ \A e \in Engine : lock' = e => thread'[e].acc = funds'
        /\ \A e \in Engine : thread'[e].at = "adjust" =>
               Balanced(thread'[e].acc) /\ thread'[e].acc.realized = funds'.realized
    BY <1>2, <1>3 DEF MoneyInv, Moves, Thread, Engine
  <1>7. QED
    BY <1>2, <1>4, <1>5, <1>6 DEF MoneyInv, Planning
\* The steps that neither read nor write the account.
LEMMA OtherMoney ==
    ASSUME RestingOrders, IInv, MoneyInv, NEW w \in Thread,
           \/ /\ w \in Server
              /\ \/ \E o \in OrderId, r \in Requests, quote \in Quotes : Place(w, o, r, quote)
                 \/ \E o \in OrderId : Cancel(w, o)
           \/ w \in Engine /\ \E o \in OrderId, quote \in Quotes : Pick(w, o, quote)
           \/ Insert(w) \/ Check(w) \/ Trade(w) \/ ReadRow(w) \/ WriteRow(w)
           \/ SumMargin(w) \/ Close(w)
    PROVE  MoneyInv'
  <1>1. TypeOK
    BY DEF IInv
  <1>2. thread[w].at \notin {"block", "free", "return"} => lock # w
    BY RaceAssumption DEF IInv, Held
  <1>3. w \in Engine => w \notin Server
    BY RaceAssumption
  <1>4. ASSUME w \in Server, NEW o \in OrderId, NEW r \in Requests, NEW quote \in Quotes,
               Place(w, o, r, quote)
        PROVE  MoneyInv'
    <2>1. PICK order \in Order, fill \in Nat, at \in {"block", "insert"} :
              /\ After(w, at, o, order, fill, NoRow, 0, FreshAccount(0))
              /\ OrderTypes \subseteq {"LIMIT"} /\ ~Prefetched => fill = 0
      BY <1>1, <1>4, PlaceEffect
    <2>2. /\ thread[w].at = "idle" /\ Moves(w) /\ thread'[w].at = at /\ thread'[w].fill = 0
          /\ UNCHANGED <<funds, lock>>
      BY <1>1, <1>4, <2>1, PlaceEffect DEF RestingOrders, After, Reads
    <2>3. QED
      BY <1>2, <2>2, NoMoney
  <1>5. ASSUME w \in Server, NEW o \in OrderId, Cancel(w, o)
        PROVE  MoneyInv'
    <2>1. /\ thread[w].at = "idle" /\ Moves(w) /\ thread'[w].at = "return"
          /\ UNCHANGED <<funds, lock>>
      BY <1>1, <1>5, CancelEffect DEF After, Reads
    <2>2. QED
      BY <1>2, <2>1, NoMoney DEF Planning
  <1>6. ASSUME w \in Engine, NEW o \in OrderId, NEW quote \in Quotes, Pick(w, o, quote)
        PROVE  MoneyInv'
    <2>1. /\ thread[w].at = "idle" /\ Moves(w) /\ thread'[w].at = "check"
          /\ UNCHANGED <<funds, lock>>
      BY <1>1, <1>6, PickEffect DEF After, Reads
    <2>2. QED
      BY <1>2, <1>3, <1>6, <2>1, NoMoney
  <1>7. CASE Insert(w)
    <2>1. /\ thread[w].at = "insert" /\ Moves(w)
          /\ thread[w].fill = 0 => thread'[w].at = "close"
          /\ thread'[w].at # "adjust"
          /\ UNCHANGED <<funds, lock>>
      BY <1>1, <1>7, InsertEffect DEF Goes, After, Reads
    <2>2. w \in Server => thread'[w].at = "close"
      BY <2>1 DEF MoneyInv, Planning
    <2>3. QED
      BY <1>2, <2>1, <2>2, NoMoney DEF Planning
  <1>8. CASE Check(w) \/ Trade(w) \/ ReadRow(w) \/ WriteRow(w) \/ SumMargin(w)
    <2>1. /\ thread[w].at \in {"check", "trade", "netting", "write", "sum"}
          /\ Moves(w) /\ thread'[w].at # "adjust" /\ UNCHANGED <<funds, lock>>
      <3>1. CASE Check(w)
        BY <1>1, <3>1, CheckEffect DEF Goes, After, Reads
      <3>2. CASE Trade(w)
        BY <1>1, <3>2, TradeEffect DEF Goes, After, Reads
      <3>3. CASE ReadRow(w)
        BY <1>1, <3>3, ReadRowEffect DEF After, Reads
      <3>4. CASE WriteRow(w)
        BY <1>1, <3>4, WriteRowEffect DEF Goes, After, Reads
      <3>5. CASE SumMargin(w)
        BY <1>1, <3>5, SumMarginEffect DEF After, Reads
      <3>6. QED
        BY <1>8, <3>1, <3>2, <3>3, <3>4, <3>5
    <2>2. w \notin Server
      BY <2>1, OnlyEnginesFill
    <2>3. QED
      BY <1>2, <2>1, <2>2, NoMoney
  <1>9. CASE Close(w)
    <2>1. /\ thread[w].at = "close" /\ Moves(w) /\ thread'[w].at = "idle"
          /\ UNCHANGED <<funds, lock>>
      BY <1>1, <1>9, CloseEffect DEF Sleeps, After, Reads
    <2>2. QED
      BY <1>2, <2>1, NoMoney DEF Planning
  <1>10. QED
    BY <1>4, <1>5, <1>6, <1>7, <1>8, <1>9

LEMMA MoneyNextKeeps ==
    RestingOrders /\ OneEngine /\ IInv /\ MoneyInv /\ [Next]_vars => MoneyInv'
  <1> SUFFICES ASSUME RestingOrders, OneEngine, IInv, MoneyInv, [Next]_vars PROVE MoneyInv'
    OBVIOUS
  <1>1. ASSUME NEW w \in Server, Serve(w) PROVE MoneyInv'
    <2>1. w \in Thread
      BY DEF Thread
    <2>2. QED
      BY <1>1, <2>1, OtherMoney, BlockMoney, ReturnMoney DEF Serve
  <1>2. ASSUME NEW w \in Engine, Run(w) PROVE MoneyInv'
    <2>1. w \in Thread
      BY DEF Thread, Engine
    <2>2. ASSUME NEW o \in OrderId, Drop(w, o) PROVE MoneyInv'
      BY <2>2 DEF Drop, database, MoneyInv, Planning
    <2>3. QED
      BY <1>2, <2>1, <2>2, OtherMoney DEF Run
  <1>3. ASSUME NEW w \in Thread, Lock(w) \/ Fill(w) PROVE MoneyInv'
    BY <1>3, LockMoney, FreeMoney, ReadFundsMoney, AdjustMoney, OtherMoney DEF Fill
  <1>4. CASE Restart
    <2>1. /\ thread' = [w \in Thread |-> Idle] /\ lock' = NoThread /\ funds' = funds
      BY <1>4 DEF Restart, database
    <2>2. Idle.at = "idle"
      BY DEF Idle
    <2>3. QED
      BY <2>1, <2>2, RaceAssumption DEF MoneyInv, Planning, Thread, Engine
  <1>5. CASE UNCHANGED vars
    BY <1>5 DEF vars, MoneyInv, Planning
  <1>6. QED
    BY <1>1, <1>2, <1>3, <1>4, <1>5 DEF Next

LEMMA InitMoney == Init => MoneyInv
  <1> SUFFICES ASSUME Init PROVE MoneyInv
    OBVIOUS
  <1>1. /\ funds = FreshAccount(0) /\ lock = NoThread
        /\ thread = [w \in Thread |-> Idle]
    BY DEF Init
  <1>2. Balanced(funds) /\ Idle.at = "idle"
    BY <1>1, FreshAccountBalanced DEF Idle
  <1>3. QED
    BY <1>1, <1>2, RaceAssumption DEF MoneyInv, Planning, Thread, Engine

\* EquityConserved: under one engine of resting orders the account makes and
\* loses no money, although reconcile_margin reads and writes it without the
\* lock under which block_margin and release_margin do (fund_manager.py).
THEOREM EquityKept == ASSUME RestingOrders, OneEngine PROVE Spec => []EquityConserved
  <1>1. IInv /\ MoneyInv /\ [Next]_vars => MoneyInv'
    BY MoneyNextKeeps
  <1>2. MoneyInv => EquityConserved
    BY DEF MoneyInv, Balanced, EquityConserved
  <1>3. QED
    BY <1>1, <1>2, InitMoney, Invariance, PTL DEF Spec
-----------------------------------------------------------------------------
\* The trade is committed and its position is not.
Netting(w) == thread[w].at \in {"netting", "free", "write"}
Nets(o)    == {w \in Thread : Netting(w) /\ thread[w].id = o}

\* The trades of an order that no thread has still to net.
Posted == [o \in OrderId |-> trades[o] - Cardinality(Nets(o))]

Book(orderOf, counted) == [o \in OrderId |-> counted[o] * Signed(orderOf[o])]

\* A quantity that counts each order at most so many times.
Counts(qty, orderOf, most) ==
    \E counted \in [OrderId -> Nat] :
        /\ \A o \in OrderId : counted[o] <= most[o]
        /\ qty = SumFunction(Book(orderOf, counted))

\* The row, and each row a thread has read, counts posted trades only, each once.
RowInv ==
    /\ Real(row) /\ Counts(row.qty, orders, Posted)
    /\ \A w \in Thread : ~Asleep(w) /\ ~Planning(w) =>
           Signed(thread[w].order) = Signed(orders[thread[w].id])
    /\ \A w \in Thread : thread[w].at \in {"free", "write"} =>
           Real(thread[w].row) /\ Counts(thread[w].row.qty, orders, Posted)

LEMMA BookType ==
    ASSUME NEW orderOf \in [OrderId -> Order], NEW counted \in [OrderId -> Nat]
    PROVE  /\ DOMAIN Book(orderOf, counted) = OrderId
           /\ \A o \in OrderId : Book(orderOf, counted)[o] \in Int
  <1>1. \A o \in OrderId : Signed(orderOf[o]) \in Int /\ counted[o] \in Int
    <2>1. \A o \in OrderId : orderOf[o] \in Order
      OBVIOUS
    <2>2. QED
      BY <2>1 DEF Signed, Order
  <1>2. \A o \in OrderId : counted[o] * Signed(orderOf[o]) \in Int
    BY <1>1
  <1>3. QED
    BY <1>2 DEF Book

\* What was counted still is when the bounds grow and no order that is counted
\* changes its side or its quantity.
LEMMA CountsStill ==
    ASSUME NEW before \in [OrderId -> Order], NEW after \in [OrderId -> Order],
           NEW most \in [OrderId -> Int], NEW more \in [OrderId -> Int], NEW qty,
           \A o \in OrderId : most[o] <= 0 \/ Signed(after[o]) = Signed(before[o]),
           \A o \in OrderId : most[o] <= more[o],
           Counts(qty, before, most)
    PROVE  Counts(qty, after, more)
  <1>1. PICK counted \in [OrderId -> Nat] :
            /\ \A o \in OrderId : counted[o] <= most[o]
            /\ qty = SumFunction(Book(before, counted))
    BY DEF Counts
  <1>2. ASSUME NEW o \in OrderId
        PROVE  counted[o] * Signed(after[o]) = counted[o] * Signed(before[o])
    <2>1. CASE Signed(after[o]) = Signed(before[o])
      BY <2>1
    <2>2. CASE most[o] <= 0
      <3>1. counted[o] = 0
        BY <1>1, <2>2
      <3>2. Signed(before[o]) \in Int /\ Signed(after[o]) \in Int
        BY DEF Signed, Order
      <3>3. 0 * Signed(after[o]) = 0 /\ 0 * Signed(before[o]) = 0
        BY <3>2
      <3>4. QED
        BY <3>1, <3>3
    <2>3. QED
      BY <2>1, <2>2
  <1>3. Book(after, counted) = Book(before, counted)
    BY <1>2, Zenon DEF Book
  <1>4. \A o \in OrderId : counted[o] <= more[o]
    <2>1. \A o \in OrderId : counted[o] \in Int /\ most[o] \in Int /\ more[o] \in Int
      OBVIOUS
    <2>2. QED
      BY <1>1, <2>1
  <1>5. QED
    BY <1>1, <1>3, <1>4 DEF Counts

\* One more trade of an order may be counted when its bound grows by one.
LEMMA CountsOneMore ==
    ASSUME NEW orderOf \in [OrderId -> Order], NEW most \in [OrderId -> Int],
           NEW more \in [OrderId -> Int], NEW o \in OrderId, NEW qty,
           more[o] = most[o] + 1, \A x \in OrderId \ {o} : most[x] <= more[x],
           Counts(qty, orderOf, most)
    PROVE  Counts(qty + Signed(orderOf[o]), orderOf, more)
  <1>1. PICK counted \in [OrderId -> Nat] :
            /\ \A x \in OrderId : counted[x] <= most[x]
            /\ qty = SumFunction(Book(orderOf, counted))
    BY DEF Counts
  <1> DEFINE next == [counted EXCEPT ![o] = @ + 1]
  <1>2. /\ next \in [OrderId -> Nat] /\ next[o] = counted[o] + 1
        /\ \A x \in OrderId \ {o} : next[x] = counted[x]
    OBVIOUS
  <1> HIDE DEF next
  <1>3. \A x \in OrderId : next[x] <= more[x]
    BY <1>1, <1>2
  <1> DEFINE f == Book(orderOf, counted)
             h == Book(orderOf, next)
  <1>4. /\ DOMAIN f = OrderId /\ DOMAIN h = OrderId
        /\ \A x \in OrderId : f[x] \in Int /\ h[x] \in Int
    BY <1>2, BookType
  <1>5. h[o] = f[o] + Signed(orderOf[o])
    <2>1. Signed(orderOf[o]) \in Int /\ counted[o] \in Int
      BY DEF Signed, Order
    <2>2. (counted[o] + 1) * Signed(orderOf[o])
              = counted[o] * Signed(orderOf[o]) + Signed(orderOf[o])
      BY <2>1
    <2>3. QED
      BY <1>2, <2>2 DEF Book
  <1>6. \A x \in OrderId \ {o} : h[x] = f[x]
    BY <1>2 DEF Book
  <1> HIDE DEF f, h
  <1>7. SumFunctionOnSet(h, OrderId) = SumFunctionOnSet(f, OrderId) - f[o] + h[o]
    BY <1>4, <1>6, SumChange, RaceAssumption
  <1>8. SumFunctionOnSet(f, OrderId) \in Int /\ Signed(orderOf[o]) \in Int
    BY <1>4, SumRemove, RaceAssumption DEF Signed, Order
  <1>9. SumFunction(h) = SumFunction(f) + Signed(orderOf[o])
    BY <1>4, <1>5, <1>7, <1>8 DEF SumFunction
  <1>10. qty = SumFunction(f)
    BY <1>1 DEF f
  <1>11. QED
    BY <1>2, <1>3, <1>9, <1>10 DEF Counts, h

\* What is posted are integers, and no more than what was traded.
LEMMA PostedType ==
    ASSUME TypeOK
    PROVE  /\ Posted \in [OrderId -> Int]
           /\ \A o \in OrderId : /\ IsFiniteSet(Nets(o)) /\ Cardinality(Nets(o)) \in Nat
                                  /\ Posted[o] <= trades[o]
  <1>1. \A o \in OrderId : IsFiniteSet(Nets(o)) /\ Cardinality(Nets(o)) \in Nat
    <2>1. ASSUME NEW o \in OrderId
          PROVE  IsFiniteSet(Nets(o)) /\ Cardinality(Nets(o)) \in Nat
      <3>1. Nets(o) \subseteq Thread
        BY DEF Nets
      <3>2. QED
        BY <3>1, RaceAssumption, FS_Subset, FS_CardinalityType
    <2>2. QED
      BY <2>1
  <1>2. \A o \in OrderId : trades[o] \in Nat
    BY DEF TypeOK
  <1>3. QED
    BY <1>1, <1>2 DEF Posted

\* Commits that leave the sides of the stored orders keep what was counted,
\* when no trade is taken back: an order that was never stored has no trade.
LEMMA CountsKept ==
    ASSUME IInv, TypeOK', SidesKept, \A o \in OrderId : Posted[o] <= Posted'[o],
           NEW qty, Counts(qty, orders, Posted)
    PROVE  Counts(qty, orders', Posted')
  <1>1. Posted \in [OrderId -> Int] /\ \A o \in OrderId : Posted[o] <= trades[o]
    BY PostedType DEF IInv
  <1>2. Posted' \in [OrderId -> Int]
    <2>1. /\ trades' \in [OrderId -> Nat]
          /\ \A o \in OrderId : Nets(o)' \subseteq Thread
      BY DEF TypeOK, Nets, Thread
    <2>2. \A o \in OrderId : Cardinality(Nets(o)') \in Nat
      BY <2>1, RaceAssumption, FS_Subset, FS_CardinalityType
    <2>3. \A o \in OrderId : trades'[o] - Cardinality(Nets(o)') \in Int
      BY <2>1, <2>2
    <2>4. Posted' = [o \in OrderId |-> trades'[o] - Cardinality(Nets(o)')]
      BY DEF Posted
    <2>5. QED
      BY <2>3, <2>4
  <1>3. orders \in [OrderId -> Order] /\ orders' \in [OrderId -> Order]
    BY DEF IInv, TypeOK
  <1>4. \A o \in OrderId : Posted[o] <= 0 \/ Signed(orders'[o]) = Signed(orders[o])
    BY <1>1 DEF IInv, Untouched, SidesKept
  <1>5. QED
    BY <1>1, <1>2, <1>3, <1>4, CountsStill

\* A step that takes no thread into or out of a netting posts nothing.
LEMMA PostedSame ==
    ASSUME NEW w \in Thread, Moves(w), trades' = trades, Netting(w)' <=> Netting(w),
           Netting(w) => thread'[w].id = thread[w].id
    PROVE  Posted' = Posted
  <1>1. \A v \in Thread : /\ Netting(v)' <=> Netting(v)
                          /\ Netting(v) => thread'[v].id = thread[v].id
    BY DEF Moves, Netting
  <1>2. \A o \in OrderId : Nets(o)' = Nets(o)
    BY <1>1 DEF Nets
  <1>3. \A o \in OrderId : trades'[o] - Cardinality(Nets(o)') = trades[o] - Cardinality(Nets(o))
    BY <1>2
  <1>4. QED
    BY <1>3, Zenon DEF Posted

\* What is left to show of a step: the new row, the order in hand and the row
\* that was read.
LEMMA RowKept ==
    ASSUME IInv, IInv', RowInv, NEW w \in Thread, Moves(w), SidesKept,
           \A o \in OrderId : Posted[o] <= Posted'[o],
           Real(row'), Counts(row'.qty, orders', Posted'),
           ~Asleep(w)' /\ ~Planning(w)' =>
               Signed(thread'[w].order) = Signed(orders'[thread'[w].id]),
           thread'[w].at \in {"free", "write"} =>
               \/ thread'[w].row = row
               \/ thread[w].at \in {"free", "write"} /\ thread'[w].row = thread[w].row
    PROVE  RowInv'
  <1>1. TypeOK /\ TypeOK'
    BY DEF IInv
  <1>2. ASSUME NEW v \in Thread, ~Asleep(v)' /\ ~Planning(v)'
        PROVE  Signed(thread'[v].order) = Signed(orders'[thread'[v].id])
    <2>1. CASE v = w
      BY <1>2, <2>1
    <2>2. CASE v # w
      <3>1. thread'[v] = thread[v] /\ ~Asleep(v) /\ ~Planning(v)
        BY <1>2, <2>2 DEF Moves, Asleep, Planning
      <3>2. /\ Signed(thread[v].order) = Signed(orders[thread[v].id])
            /\ thread[v].id # NoOrder /\ orders[thread[v].id].status # "none"
        BY <3>1 DEF RowInv, IInv, InHand
      <3>3. thread[v].id \in OrderId
        BY <1>1, <3>2, LocalType
      <3>4. QED
        BY <3>1, <3>2, <3>3 DEF SidesKept
    <2>3. QED
      BY <2>1, <2>2
  <1>3. ASSUME NEW v \in Thread, thread'[v].at \in {"free", "write"}
        PROVE  Real(thread'[v].row) /\ Counts(thread'[v].row.qty, orders', Posted')
    <2>1. \/ thread'[v].row = row
          \/ thread[v].at \in {"free", "write"} /\ thread'[v].row = thread[v].row
      BY <1>3 DEF Moves
    <2>2. Real(thread'[v].row) /\ Counts(thread'[v].row.qty, orders, Posted)
      BY <2>1 DEF RowInv
    <2>3. QED
      BY <1>1, <2>2, CountsKept
  <1>4. QED
    BY <1>2, <1>3 DEF RowInv, Real, Asleep, Planning

\* The steps that leave the row and the trades alone.
LEMMA QuietStep ==
    ASSUME IInv, IInv', RowInv, NEW w \in Thread, Moves(w), SidesKept,
           trades' = trades, row' = row, Netting(w)' <=> Netting(w),
           \/ thread'[w].at \in {"idle", "block", "insert"}
           \/ /\ thread'[w].id = thread[w].id
              /\ thread'[w].order = thread[w].order /\ ~Asleep(w) /\ ~Planning(w)
              /\ thread'[w].row = thread[w].row \/ thread'[w].at \notin {"free", "write"},
           Netting(w) => thread'[w].id = thread[w].id /\ thread[w].at \in {"free", "write"}
    PROVE  RowInv'
  <1>1. Posted' = Posted
    BY PostedSame
  <1>2. TypeOK /\ TypeOK' /\ Posted \in [OrderId -> Int]
    BY PostedType DEF IInv
  <1>3. \A o \in OrderId : Posted[o] <= Posted'[o]
    BY <1>1, <1>2
  <1>4. Real(row') /\ Counts(row'.qty, orders', Posted')
    BY <1>2, <1>3, CountsKept DEF RowInv
  <1>5. ASSUME ~Asleep(w)' /\ ~Planning(w)'
        PROVE  Signed(thread'[w].order) = Signed(orders'[thread'[w].id])
    <2>1. /\ thread'[w].id = thread[w].id
          /\ thread'[w].order = thread[w].order /\ ~Asleep(w) /\ ~Planning(w)
      BY <1>5 DEF Asleep, Planning
    <2>2. /\ Signed(thread[w].order) = Signed(orders[thread[w].id])
          /\ thread[w].id # NoOrder /\ orders[thread[w].id].status # "none"
      BY <2>1 DEF RowInv, IInv, InHand
    <2>3. thread[w].id \in OrderId
      BY <1>2, <2>2, LocalType
    <2>4. QED
      BY <2>1, <2>2, <2>3 DEF SidesKept
  <1>6. thread'[w].at \in {"free", "write"} =>
            thread[w].at \in {"free", "write"} /\ thread'[w].row = thread[w].row
    BY DEF Netting
  <1>7. QED
    BY <1>3, <1>4, <1>5, <1>6, RowKept

\* The trade is committed, and is one more to net.
LEMMA TradeCounts ==
    ASSUME IInv, IInv', RowInv, NEW w \in Thread, Trade(w)
    PROVE  RowInv'
  <1>1. TypeOK /\ TypeOK' /\ thread[w].at = "trade"
    BY TradeEffect DEF IInv
  <1> SUFFICES ASSUME NEW o \in OrderId, thread[w].id = o PROVE RowInv'
    BY <1>1, FillingFacts
  <1>2. /\ thread[w].at = "trade" /\ Moves(w)
        /\ thread'[w].at = "netting" /\ thread'[w].id = o
        /\ thread'[w].order = thread[w].order
        /\ trades' = [trades EXCEPT ![o] = @ + 1] /\ row' = row
    BY <1>1, TradeEffect DEF Goes, After, Reads
  <1>3. SidesKept
    BY StatusSteps
  <1>4. ~Asleep(w) /\ ~Planning(w) /\ orders[o].status # "none"
    BY <1>2, FillingFacts
  <1>5. w \notin Nets(o) /\ Nets(o)' = Nets(o) \cup {w}
    BY <1>2 DEF Nets, Netting, Moves
  <1>6. \A x \in OrderId \ {o} : Nets(x)' = Nets(x)
    BY <1>2 DEF Nets, Netting, Moves
  <1>7. Cardinality(Nets(o)') = Cardinality(Nets(o)) + 1 /\ Cardinality(Nets(o)) \in Nat
    BY <1>1, <1>4, <1>5, PostedType, FS_AddElement
  <1>8. \A x \in OrderId : trades[x] \in Nat
    BY <1>1 DEF TypeOK
  <1>9. trades'[o] = trades[o] + 1 /\ \A x \in OrderId \ {o} : trades'[x] = trades[x]
    BY <1>1, <1>2, <1>4 DEF TypeOK
  <1>10. \A x \in OrderId : Posted[x] <= Posted'[x]
    <2>1. Posted'[o] = trades'[o] - Cardinality(Nets(o)') /\ Posted[o] = trades[o] - Cardinality(Nets(o))
      BY <1>4 DEF Posted
    <2>2. Posted'[o] = Posted[o] /\ Posted[o] \in Int
      BY <1>4, <1>7, <1>8, <1>9, <2>1
    <2>3. ASSUME NEW x \in OrderId \ {o}
          PROVE  Posted[x] <= Posted'[x]
      <3>1. Posted'[x] = Posted[x]
        BY <1>6, <1>9 DEF Posted
      <3>2. Posted[x] \in Int
        BY <1>1, PostedType
      <3>3. QED
        BY <3>1, <3>2
    <2>4. QED
      BY <2>2, <2>3
  <1>11. Real(row') /\ Counts(row'.qty, orders', Posted')
    BY <1>1, <1>2, <1>3, <1>10, CountsKept DEF RowInv
  <1>12. Signed(thread'[w].order) = Signed(orders'[thread'[w].id])
    BY <1>2, <1>3, <1>4 DEF RowInv, SidesKept
  <1>13. QED
    BY <1>2, <1>3, <1>10, <1>11, <1>12, RowKept

\* _update_position reads the row as it is.
LEMMA ReadRowCounts ==
    ASSUME IInv, IInv', RowInv, NEW w \in Thread, ReadRow(w)
    PROVE  RowInv'
  <1>1. TypeOK /\ TypeOK'
    BY DEF IInv
  <1>2. /\ thread[w].at = "netting" /\ thread'[w].at \in {"free", "write"} /\ Moves(w)
        /\ thread'[w].id = thread[w].id /\ thread'[w].order = thread[w].order
        /\ thread'[w].row = row
        /\ UNCHANGED <<orders, trades, row>>
    BY <1>1, ReadRowEffect DEF After, Reads
  <1>3. Posted' = Posted /\ Posted \in [OrderId -> Int] /\ SidesKept
    BY <1>1, <1>2, PostedSame, PostedType DEF Netting, SidesKept
  <1>4. \A o \in OrderId : Posted[o] <= Posted'[o]
    BY <1>3
  <1>5. Real(row') /\ Counts(row'.qty, orders', Posted')
    BY <1>1, <1>2, <1>3, <1>4, CountsKept DEF RowInv
  <1>6. Signed(thread'[w].order) = Signed(orders'[thread'[w].id])
    BY <1>2 DEF RowInv, Asleep, Planning
  <1>7. QED
    BY <1>2, <1>3, <1>4, <1>5, <1>6, RowKept

\* The trade is netted into the row that was read, or lost with the rejection:
\* either way it is no longer one to net.
LEMMA WriteRowCounts ==
    ASSUME IInv, IInv', RowInv, NEW w \in Thread, WriteRow(w)
    PROVE  RowInv'
  <1> DEFINE me  == thread[w]
             new == Netted(me.row, me.order, me.fill)
  <1>1. TypeOK /\ TypeOK' /\ row \in Row /\ thread[w].at = "write"
    BY WriteRowEffect DEF IInv, TypeOK
  <1> SUFFICES ASSUME NEW o \in OrderId, thread[w].id = o PROVE RowInv'
    BY <1>1, FillingFacts
  <1>2. /\ me.at = "write" /\ Moves(w)
        /\ thread'[w].at \in {"sum", "close"} /\ thread'[w].id = o
        /\ thread'[w].order = me.order
        /\ UNCHANGED trades
        /\ \/ me.row.seen = row.seen /\ row' = Merge(row, me.row, new) /\ orders' = orders
           \/ row' = row
    BY <1>1, WriteRowEffect DEF Goes, After, Reads
  <1>3. SidesKept
    BY StatusSteps
  <1>4. ~Asleep(w) /\ ~Planning(w) /\ orders[o].status # "none"
    BY <1>2, FillingFacts
  <1>5. w \in Nets(o) /\ Nets(o)' = Nets(o) \ {w}
    BY <1>2 DEF Nets, Netting, Moves
  <1>6. \A x \in OrderId \ {o} : Nets(x)' = Nets(x)
    BY <1>2 DEF Nets, Netting, Moves
  <1>7. Cardinality(Nets(o)') = Cardinality(Nets(o)) - 1 /\ Cardinality(Nets(o)) \in Nat
    BY <1>1, <1>4, <1>5, PostedType, FS_RemoveElement
  <1>8. \A x \in OrderId : trades[x] \in Nat /\ trades'[x] = trades[x]
    BY <1>1, <1>2 DEF TypeOK
  <1>9. /\ Posted \in [OrderId -> Int] /\ Posted' \in [OrderId -> Int]
        /\ Posted'[o] = Posted[o] + 1
        /\ \A x \in OrderId \ {o} : Posted[x] <= Posted'[x]
    <2>1. Posted \in [OrderId -> Int]
      BY <1>1, PostedType
    <2>2. Posted'[o] = trades'[o] - Cardinality(Nets(o)') /\ Posted[o] = trades[o] - Cardinality(Nets(o))
      BY <1>4 DEF Posted
    <2>3. Posted'[o] = Posted[o] + 1
      BY <1>4, <1>7, <1>8, <2>2
    <2>4. \A x \in OrderId \ {o} : Posted'[x] = Posted[x]
      BY <1>6, <1>8 DEF Posted
    <2>5. Posted' = [x \in OrderId |-> Posted'[x]]
      BY DEF Posted
    <2>6. QED
      BY <1>4, <2>1, <2>3, <2>4, <2>5
  <1>10. \A x \in OrderId : Posted[x] <= Posted'[x]
    BY <1>4, <1>9
  <1>11. Real(row') /\ Counts(row'.qty, orders', Posted')
    <2>1. CASE row' = row
      BY <1>1, <1>3, <1>10, <2>1, CountsKept DEF RowInv
    <2>2. CASE me.row.seen = row.seen /\ row' = Merge(row, me.row, new) /\ orders' = orders
      <3>1. me.row \in Row /\ Real(me.row) /\ Counts(me.row.qty, orders, Posted)
        BY <1>1, <1>2, LocalType DEF RowInv
      <3>2. new.qty = me.row.qty + Signed(me.order) /\ Real(new) /\ (me.row.seen => new.seen)
        BY <1>1, <3>1, LocalType, NettedQuantity
      <3>3. Signed(me.order) = Signed(orders[o])
        BY <1>4 DEF RowInv
      <3>4. Counts(new.qty, orders, Posted')
        <4>1. orders \in [OrderId -> Order]
          BY <1>1 DEF TypeOK
        <4>2. Counts(me.row.qty + Signed(orders[o]), orders, Posted')
          BY <1>9, <3>1, <4>1, CountsOneMore, Zenon
        <4>3. QED
          BY <3>2, <3>3, <4>2
      <3>5. Counts(row.qty, orders', Posted')
        BY <1>1, <1>3, <1>10, CountsKept DEF RowInv
      <3> HIDE DEF new
      <3>6. /\ row'.qty = IF new.qty # me.row.qty THEN new.qty ELSE row.qty
            /\ row'.seen = IF new.seen # me.row.seen THEN new.seen ELSE row.seen
        BY <1>1, <2>2 DEF Merge, Row
      <3>7. Real(row')
        BY <2>2, <3>1, <3>2, <3>6 DEF Real, RowInv
      <3>8. QED
        BY <2>2, <3>4, <3>5, <3>6, <3>7
    <2>3. QED
      BY <1>2, <2>1, <2>2
  <1>12. Signed(thread'[w].order) = Signed(orders'[thread'[w].id])
    BY <1>2, <1>3, <1>4 DEF RowInv, SidesKept
  <1> HIDE DEF new
  <1>13. QED
    BY <1>2, <1>3, <1>10, <1>11, <1>12, RowKept

\* A request plans, stores or cancels an order: it never nets.
LEMMA ServeCounts ==
    ASSUME IInv, IInv', RowInv, NEW w \in Server, Serve(w)
    PROVE  RowInv'
  <1>1. w \in Thread /\ TypeOK /\ TypeOK'
    BY DEF Thread, IInv
  <1>2. ASSUME NEW o \in OrderId, NEW r \in Requests, NEW quote \in Quotes,
               Place(w, o, r, quote)
        PROVE  RowInv'
    <2>1. /\ thread[w].at = "idle" /\ Moves(w) /\ thread'[w].at \in {"block", "insert"}
          /\ UNCHANGED <<orders, trades, row>>
      BY <1>1, <1>2, PlaceEffect DEF After, Reads
    <2>2. QED
      BY <1>1, <2>1, QuietStep DEF SidesKept, Netting
  <1>3. ASSUME NEW o \in OrderId, Cancel(w, o)
        PROVE  RowInv'
    <2>1. /\ thread[w].at = "idle" /\ Moves(w) /\ thread'[w].at = "return"
          /\ thread'[w].id = o /\ thread'[w].order = orders[o]
          /\ UNCHANGED <<orders, trades, row>>
      BY <1>1, <1>3, CancelEffect DEF After, Reads
    <2>2. Posted' = Posted /\ Posted \in [OrderId -> Int] /\ SidesKept
      BY <1>1, <2>1, PostedSame, PostedType DEF Netting, SidesKept
    <2>3. \A x \in OrderId : Posted[x] <= Posted'[x]
      BY <2>2
    <2>4. Real(row') /\ Counts(row'.qty, orders', Posted')
      BY <1>1, <2>1, <2>2, <2>3, CountsKept DEF RowInv
    <2>5. QED
      BY <1>1, <2>1, <2>2, <2>3, <2>4, RowKept
  <1>4. CASE BlockMargin(w)
    <2>1. /\ thread[w].at = "block" /\ Moves(w) /\ thread'[w].at \in {"insert", "idle"}
          /\ UNCHANGED <<orders, trades, row>>
      BY <1>1, <1>4, BlockMarginEffect DEF After, Sleeps, Reads
    <2>2. QED
      BY <1>1, <2>1, QuietStep DEF SidesKept, Netting
  <1>5. CASE Insert(w)
    <2>1. /\ thread[w].at = "insert" /\ Moves(w)
          /\ thread'[w].at \in {"close", "check", "trade"}
          /\ thread'[w].id = thread[w].id /\ thread'[w].order = thread[w].order
          /\ orders' = [orders EXCEPT ![thread[w].id] = thread[w].order]
          /\ UNCHANGED <<trades, row>>
      BY <1>1, <1>5, InsertEffect DEF Goes, After, Reads
    <2>2. thread[w].id \in OrderId /\ orders[thread[w].id].status = "none"
      BY <1>1, <2>1, LocalType DEF IInv, InHand, Planning, Asleep
    <2>3. SidesKept
      BY <1>1, <2>1, <2>2 DEF TypeOK, SidesKept
    <2>4. Posted' = Posted /\ Posted \in [OrderId -> Int]
      BY <1>1, <2>1, PostedSame, PostedType DEF Netting
    <2>5. \A x \in OrderId : Posted[x] <= Posted'[x]
      BY <2>4
    <2>6. Real(row') /\ Counts(row'.qty, orders', Posted')
      BY <1>1, <2>1, <2>3, <2>5, CountsKept DEF RowInv
    <2>7. orders'[thread[w].id] = thread[w].order
      BY <1>1, <2>1, <2>2 DEF TypeOK
    <2>8. QED
      BY <1>1, <2>1, <2>3, <2>5, <2>6, <2>7, RowKept
  <1>6. CASE ReturnMargin(w)
    <2>1. thread[w].at = "return" /\ Moves(w) /\ thread'[w].at = "idle" /\ UNCHANGED <<trades, row>>
      BY <1>1, <1>6, ReturnMarginEffect DEF Sleeps, After, Reads
    <2>2. QED
      BY <1>1, <1>6, <2>1, StatusSteps, QuietStep DEF Netting
  <1>7. QED
    BY <1>2, <1>3, <1>4, <1>5, <1>6 DEF Serve

\* The engine picks a stored order and has its side and quantity in hand.
LEMMA PickCounts ==
    ASSUME IInv, IInv', RowInv, NEW w \in Engine, NEW o \in OrderId, NEW quote \in Quotes,
           Pick(w, o, quote)
    PROVE  RowInv'
  <1>1. w \in Thread /\ TypeOK
    BY DEF Thread, Engine, IInv
  <1>2. /\ thread[w].at = "idle" /\ Moves(w)
        /\ thread'[w].at = "check" /\ thread'[w].id = o /\ thread'[w].order = orders[o]
        /\ UNCHANGED <<orders, trades, row>>
    BY <1>1, PickEffect DEF After, Reads
  <1>3. Posted' = Posted /\ Posted \in [OrderId -> Int] /\ SidesKept
    BY <1>1, <1>2, PostedSame, PostedType DEF Netting, SidesKept
  <1>4. \A x \in OrderId : Posted[x] <= Posted'[x]
    BY <1>3
  <1>5. Real(row') /\ Counts(row'.qty, orders', Posted')
    BY <1>1, <1>2, <1>3, <1>4, CountsKept DEF RowInv, IInv
  <1>6. QED
    BY <1>1, <1>2, <1>3, <1>4, <1>5, RowKept

\* The steps of an execution that leave the row and the trades alone.
LEMMA OtherCounts ==
    ASSUME IInv, IInv', RowInv, NEW w \in Thread,
           \/ Lock(w) \/ Check(w) \/ FreeMargin(w) \/ SumMargin(w) \/ ReadFunds(w)
           \/ Adjust(w) \/ Close(w)
    PROVE  RowInv'
  <1>1. TypeOK
    BY DEF IInv
  <1>2. CASE Lock(w)
    <2>1. /\ thread[w].at \in {"block", "free", "return"} /\ Moves(w)
          /\ thread'[w].at = thread[w].at /\ thread'[w].id = thread[w].id
          /\ thread'[w].order = thread[w].order /\ thread'[w].row = thread[w].row
          /\ UNCHANGED <<orders, trades, row>>
      BY <1>1, <1>2, LockEffect DEF After, Reads
    <2>2. QED
      BY <2>1, QuietStep DEF SidesKept, Asleep, Planning, Netting
  <1>3. CASE Check(w)
    <2>1. /\ thread[w].at = "check" /\ Moves(w) /\ thread'[w].at \in {"trade", "close"}
          /\ thread'[w].id = thread[w].id /\ thread'[w].order = thread[w].order
          /\ UNCHANGED <<trades, row>>
      BY <1>1, <1>3, CheckEffect DEF Goes, After, Reads
    <2>2. QED
      BY <1>3, <2>1, StatusSteps, QuietStep DEF Asleep, Planning, Netting
  <1>4. CASE FreeMargin(w)
    <2>1. /\ thread[w].at = "free" /\ Moves(w) /\ thread'[w].at = "write"
          /\ thread'[w].id = thread[w].id /\ thread'[w].order = thread[w].order
          /\ thread'[w].row = thread[w].row
          /\ UNCHANGED <<orders, trades, row>>
      BY <1>1, <1>4, FreeMarginEffect DEF After, Reads
    <2>2. QED
      BY <2>1, QuietStep DEF SidesKept, Asleep, Planning, Netting
  <1>5. CASE SumMargin(w) \/ ReadFunds(w) \/ Adjust(w)
    <2>1. /\ thread[w].at \in {"sum", "reconcile", "adjust"} /\ Moves(w)
          /\ thread'[w].at \in {"reconcile", "adjust", "close"}
          /\ thread'[w].id = thread[w].id /\ thread'[w].order = thread[w].order
          /\ UNCHANGED <<orders, trades, row>>
      <3>1. CASE SumMargin(w)
        BY <1>1, <3>1, SumMarginEffect DEF After, Reads
      <3>2. CASE ReadFunds(w)
        BY <1>1, <3>2, ReadFundsEffect DEF After, Reads
      <3>3. CASE Adjust(w)
        BY <1>1, <3>3, AdjustEffect DEF Goes, After, Reads
      <3>4. QED
        BY <1>5, <3>1, <3>2, <3>3
    <2>2. QED
      BY <2>1, QuietStep DEF SidesKept, Asleep, Planning, Netting
  <1>6. CASE Close(w)
    <2>1. /\ thread[w].at = "close" /\ Moves(w) /\ thread'[w].at = "idle"
          /\ UNCHANGED <<orders, trades, row>>
      BY <1>1, <1>6, CloseEffect DEF Sleeps, After, Reads
    <2>2. QED
      BY <2>1, QuietStep DEF SidesKept, Netting
  <1>7. QED
    BY <1>2, <1>3, <1>4, <1>5, <1>6

\* A restart forgets the trades that were still to net: they are posted, and
\* never counted.
LEMMA RestartCounts ==
    ASSUME IInv, IInv', RowInv, Restart
    PROVE  RowInv'
  <1>1. /\ TypeOK /\ TypeOK' /\ thread' = [w \in Thread |-> Idle]
        /\ UNCHANGED <<orders, trades, row>>
    BY DEF IInv, Restart, database
  <1>2. \A w \in Thread : Asleep(w)' /\ thread'[w].at \notin {"free", "write"} /\ ~Netting(w)'
    BY <1>1 DEF Asleep, Netting, Idle
  <1>3. \A o \in OrderId : Nets(o)' = {}
    BY <1>2 DEF Nets
  <1>4. \A o \in OrderId : Posted[o] <= Posted'[o]
    <2>1. ASSUME NEW o \in OrderId
          PROVE  Posted[o] <= Posted'[o]
      <3>1. Cardinality(Nets(o)') = 0
        BY <1>3, FS_EmptySet
      <3>2. Posted'[o] = trades[o] - 0
        BY <1>1, <3>1 DEF Posted
      <3>3. trades[o] \in Nat /\ Posted[o] \in Int /\ Posted[o] <= trades[o]
        BY <1>1, PostedType DEF TypeOK
      <3>4. QED
        BY <3>2, <3>3
    <2>2. QED
      BY <2>1
  <1>5. Counts(row'.qty, orders', Posted')
    BY <1>1, <1>4, CountsKept DEF RowInv, SidesKept
  <1>6. QED
    BY <1>1, <1>2, <1>5 DEF RowInv, Real

LEMMA RowNextKeeps == IInv /\ IInv' /\ RowInv /\ [Next]_vars => RowInv'
  <1> SUFFICES ASSUME IInv, IInv', RowInv, [Next]_vars PROVE RowInv'
    OBVIOUS
  <1>1. ASSUME NEW w \in Server, Serve(w) PROVE RowInv'
    BY <1>1, ServeCounts
  <1>2. ASSUME NEW w \in Engine, Run(w) PROVE RowInv'
    <2>1. ASSUME NEW o \in OrderId, Drop(w, o) PROVE RowInv'
      <3>1. UNCHANGED <<orders, trades, row, thread>>
        BY <2>1 DEF Drop, database
      <3>2. QED
        BY <3>1 DEF RowInv, Asleep, Planning, Netting, Nets, Posted, Counts, Book, Real
    <2>2. QED
      BY <1>2, <2>1, PickCounts DEF Run
  <1>3. ASSUME NEW w \in Thread, Lock(w) \/ Fill(w) PROVE RowInv'
    BY <1>3, TradeCounts, ReadRowCounts, WriteRowCounts, OtherCounts DEF Fill
  <1>4. CASE Restart
    BY <1>4, RestartCounts
  <1>5. CASE UNCHANGED vars
    BY <1>5 DEF vars, RowInv, Asleep, Planning, Netting, Nets, Posted, Counts, Book, Real
  <1>6. QED
    BY <1>1, <1>2, <1>3, <1>4, <1>5 DEF Next

LEMMA InitRow == Init => RowInv
  <1> SUFFICES ASSUME Init PROVE RowInv
    OBVIOUS
  <1>1. /\ trades = [o \in OrderId |-> 0] /\ row = NoRow /\ orders = [o \in OrderId |-> Blank]
        /\ thread = [w \in Thread |-> Idle]
    BY DEF Init
  <1>2. /\ row.qty = 0 /\ Real(row)
        /\ \A w \in Thread : Asleep(w) /\ ~Netting(w) /\ thread[w].at \notin {"free", "write"}
    BY <1>1 DEF NoRow, Real, Idle, Asleep, Netting
  <1> DEFINE none == [o \in OrderId |-> 0]
  <1>3. \A o \in OrderId : none[o] <= Posted[o]
    <2>1. \A o \in OrderId : Nets(o) = {}
      BY <1>2 DEF Nets
    <2>2. QED
      BY <1>1, <2>1, FS_EmptySet DEF Posted
  <1>4. SumFunction(Book(orders, none)) = 0
    <2>1. Signed(Blank) = 0
      BY DEF Signed, Blank
    <2>2. /\ DOMAIN Book(orders, none) = OrderId
          /\ \A o \in OrderId : Book(orders, none)[o] = 0
      BY <1>1, <2>1 DEF Book
    <2>3. QED
      BY <2>2, SumZero, RaceAssumption DEF SumFunction
  <1>5. Counts(row.qty, orders, Posted)
    <2>1. none \in [OrderId -> Nat]
      OBVIOUS
    <2> HIDE DEF none
    <2>2. QED
      BY <1>2, <1>3, <1>4, <2>1 DEF Counts
  <1>6. QED
    BY <1>2, <1>5 DEF RowInv

\* The trades of one order are no more than those of all.
LEMMA TradesBound ==
    ASSUME TypeOK, NEW o \in OrderId
    PROVE  SumFunction(trades) \in Nat /\ trades[o] <= SumFunction(trades)
  <1>1. DOMAIN trades = OrderId /\ \A x \in OrderId : trades[x] \in Nat
    BY DEF TypeOK
  <1>2. IsFiniteSet(OrderId) /\ IsFiniteSet(OrderId \ {o})
    BY RaceAssumption, FS_RemoveElement
  <1>3. /\ SumFunctionOnSet(trades, OrderId) \in Nat
        /\ SumFunctionOnSet(trades, OrderId \ {o}) \in Nat
    BY <1>1, <1>2, SumNatural
  <1>4. SumFunctionOnSet(trades, OrderId) = trades[o] + SumFunctionOnSet(trades, OrderId \ {o})
    BY <1>1, <1>2, SumRemove
  <1>5. QED
    BY <1>1, <1>3, <1>4 DEF SumFunction

\* NothingNettedTwice, for every number of orders, requests and engines: whatever
\* row each of them has read, the position is the quantity of some of the trades,
\* each counted once (execution_engine.py _update_position).
THEOREM NoTradeNettedTwice == Spec => []NothingNettedTwice
  <1>1. IInv /\ RowInv => NothingNettedTwice
    <2> SUFFICES ASSUME IInv, RowInv PROVE NothingNettedTwice
      OBVIOUS
    <2>1. TypeOK
      BY DEF IInv
    <2>2. PICK counted \in [OrderId -> Nat] :
              /\ \A o \in OrderId : counted[o] <= Posted[o]
              /\ row.qty = SumFunction(Book(orders, counted))
      BY DEF RowInv, Counts
    <2>3. \A o \in OrderId : counted[o] <= trades[o] /\ counted[o] \in 0 .. SumFunction(trades)
      <3>1. ASSUME NEW o \in OrderId
            PROVE  counted[o] <= trades[o] /\ counted[o] \in 0 .. SumFunction(trades)
        <4>1. Posted[o] \in Int /\ Posted[o] <= trades[o] /\ trades[o] \in Nat
          BY <2>1, PostedType DEF TypeOK
        <4>2. QED
          BY <2>1, <2>2, <4>1, TradesBound
      <3>2. QED
        BY <3>1
    <2>4. counted \in [OrderId -> 0 .. SumFunction(trades)]
      BY <2>3
    <2>5. QED
      BY <2>2, <2>3, <2>4 DEF NothingNettedTwice, Book
  <1>2. QED
    BY <1>1, InitRow, RowNextKeeps, Invariance, PTL DEF Spec
=============================================================================
