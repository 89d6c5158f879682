------------------------ MODULE SandboxMoneyProofs ------------------------
(***************************************************************************)
(* What the account and netting operators return: their types, that no     *)
(* account operator creates or destroys money, and that a fill adds the    *)
(* order's quantity to the row.  At the end, what a sum over a finite set  *)
(* of orders returns: the library's induction theorem for finite sets has  *)
(* an operator for a parameter, so each induction here is a smallest       *)
(* counterexample.                                                         *)
(***************************************************************************)
EXTENDS SandboxNetting, Functions, FiniteSetTheorems, TLAPS

\* The account obeys available + used = starting capital + realized profit.
Balanced(acc) == acc.available + acc.used = StartingCapital + acc.realized

\* Rounding a quotient to the nearest paisa yields an integer, which is not negative
\* when the quotient is not.
LEMMA RoundDivType ==
    ASSUME NEW a \in Int, NEW b \in Int, b > 0
    PROVE  RoundDiv(a, b) \in Int /\ (a >= 0 => RoundDiv(a, b) >= 0)
  <1>1. 2 * b \in Int /\ 2 * b > 0 /\ 2 * a + b \in Int
    OBVIOUS
  <1>2. ASSUME NEW n \in Int, NEW d \in Int, d > 0
        PROVE  n \div d \in Int /\ (n >= 0 => n \div d >= 0)
    BY <1>2
  <1>3. (2 * a + b) \div (2 * b) \in Int
        /\ (2 * a + b >= 0 => (2 * a + b) \div (2 * b) >= 0)
    BY <1>1, <1>2
  <1>4. QED
    BY <1>3 DEF RoundDiv

\* calculate_margin_required yields an amount that is not negative, for any order.
LEMMA MarginRequiredType ==
    ASSUME NEW p \in Product, NEW act \in Action, NEW qty \in Nat, NEW price \in Nat
    PROVE  MarginRequired(p, act, qty, price) \in Nat
  <1>1. Leverage[p][act] \in Nat \ {0}
    BY MoneyAssumption
  <1>2. qty * price \in Int /\ qty * price >= 0
    OBVIOUS
  <1>3. QED
    BY <1>1, <1>2, RoundDivType DEF MarginRequired

\* The margin place_order blocks, for an increase, a reduction or a reversal,
\* is not negative.
LEMMA MarginToBlockType ==
    ASSUME NEW held \in Int, NEW p \in Product, NEW act \in Action,
           NEW qty \in Nat, NEW price \in Nat
    PROVE  MarginToBlock(held, p, act, qty, price) \in Nat
  <1> DEFINE exposure == IF Opposes(held, act) THEN qty - Lesser(qty, Abs(held)) ELSE qty
  <1>1. exposure \in Nat
    BY DEF Lesser, Abs, Opposes
  <1>2. QED
    BY <1>1, MarginRequiredType DEF MarginToBlock

\* A fresh account is typed and balanced.
LEMMA FreshAccountBalanced ==
    ASSUME NEW k \in Nat
    PROVE  /\ FreshAccount(k) \in Account /\ Balanced(FreshAccount(k))
           /\ FreshAccount(k).resets = k
  BY MoneyAssumption DEF FreshAccount, Account, Balanced

\* block_margin moves cash into margin, keeps the account balanced and is no reset.
LEMMA BlockBalanced ==
    ASSUME NEW acc \in Account, NEW amount \in Int
    PROVE  /\ Block(acc, amount) \in Account
           /\ Balanced(acc) => Balanced(Block(acc, amount))
           /\ Block(acc, amount).resets = acc.resets
           /\ Block(acc, amount).realized = acc.realized
  <1>1. acc.available - amount \in Int /\ acc.used + amount \in Int
    BY DEF Account
  <1>2. Block(acc, amount) \in Account
    BY <1>1, Zenon DEF Block, Account
  <1>3. /\ Block(acc, amount).available = acc.available - amount
        /\ Block(acc, amount).used = acc.used + amount
        /\ Block(acc, amount).realized = acc.realized
        /\ Block(acc, amount).resets = acc.resets
    BY Zenon DEF Block, Account
  <1>4. QED
    BY <1>2, <1>3, MoneyAssumption DEF Account, Balanced

\* release_margin, with any profit or loss, keeps the account balanced.
LEMMA ReleaseBalanced ==
    ASSUME NEW acc \in Account, NEW amount \in Int, NEW pnl \in Int
    PROVE  /\ Release(acc, amount, pnl) \in Account
           /\ Balanced(acc) => Balanced(Release(acc, amount, pnl))
           /\ Release(acc, amount, pnl).resets = acc.resets
           /\ Release(acc, amount, pnl).realized = acc.realized + pnl
  <1>1. /\ acc.used - amount \in Int
        /\ acc.available + amount + pnl \in Int
        /\ acc.realized + pnl \in Int
    BY DEF Account
  <1>2. Release(acc, amount, pnl) \in Account
    BY <1>1, Zenon DEF Release, Account
  <1>3. /\ Release(acc, amount, pnl).available = acc.available + amount + pnl
        /\ Release(acc, amount, pnl).used = acc.used - amount
        /\ Release(acc, amount, pnl).realized = acc.realized + pnl
        /\ Release(acc, amount, pnl).resets = acc.resets
    BY Zenon DEF Release, Account
  <1>4. QED
    BY <1>2, <1>3, MoneyAssumption DEF Account, Balanced

\* reconcile_margin keeps the account balanced and leaves as used exactly the
\* margin it was given.
LEMMA ReconcileBalanced ==
    ASSUME NEW acc \in Account, NEW margin \in Int
    PROVE  /\ Reconcile(acc, margin) \in Account
           /\ Reconcile(acc, margin).used = margin
           /\ Balanced(acc) => Balanced(Reconcile(acc, margin))
           /\ Reconcile(acc, margin).resets = acc.resets
           /\ Reconcile(acc, margin).realized = acc.realized
  <1>1. acc.available + (acc.used - margin) \in Int
    BY DEF Account
  <1>2. Reconcile(acc, margin) \in Account
    BY <1>1, Zenon DEF Reconcile, Account
  <1>3. /\ Reconcile(acc, margin).available = acc.available + (acc.used - margin)
        /\ Reconcile(acc, margin).used = margin
        /\ Reconcile(acc, margin).realized = acc.realized
        /\ Reconcile(acc, margin).resets = acc.resets
    BY Zenon DEF Reconcile, Account
  <1>4. QED
    BY <1>2, <1>3, MoneyAssumption DEF Account, Balanced

-----------------------------------------------------------------------------
\* The quantity a fill closes is a natural number.
LEMMA ClosedQtyType ==
    ASSUME NEW row \in Row, NEW o \in Order
    PROVE  ClosedQty(row, o) \in Nat
  BY DEF ClosedQty, Opposes, Lesser, Abs, Row, Order

\* The profit or loss of the closed part is an integer amount.
LEMMA RealizedPnlType ==
    ASSUME NEW row \in Row, NEW o \in Order, NEW price \in Nat
    PROVE  RealizedPnl(row, o, price) \in Int
  <1>1. ClosedQty(row, o) \in Int
    BY ClosedQtyType
  <1>2. (IF row.qty > 0 THEN price - row.avg ELSE row.avg - price) \in Int
    BY DEF Row
  <1>3. QED
    BY <1>1, <1>2 DEF RealizedPnl

\* The margin the closed part frees is an integer amount; no division by zero.
LEMMA FreedMarginType ==
    ASSUME NEW row \in Row, NEW o \in Order
    PROVE  FreedMargin(row, o) \in Int
  <1>1. CASE Opposes(row.qty, o.action)
    <2>1. Abs(row.qty) \in Int /\ Abs(row.qty) > 0
      BY <1>1 DEF Opposes, Abs, Row
    <2>2. row.margin * ClosedQty(row, o) \in Int
      BY ClosedQtyType DEF Row
    <2>3. QED
      BY <1>1, <2>1, <2>2, RoundDivType DEF FreedMargin
  <1>2. CASE ~Opposes(row.qty, o.action)
    BY <1>2 DEF FreedMargin
  <1>3. QED
    BY <1>1, <1>2

\* _update_position leaves a well-formed row in each of its four cases: a new
\* position, an addition, a reduction and a reversal.
LEMMA NettedType ==
    ASSUME NEW row \in Row, NEW o \in Order, NEW price \in Nat
    PROVE  Netted(row, o, price) \in Row
  <1>1. Signed(o) \in Int
    BY DEF Signed, Order
  <1>2. CASE row.qty = 0
    <2>1. price \in Int /\ o.margin \in Int /\ TRUE \in BOOLEAN
      BY DEF Order
    <2>2. Opened(row, o, price) \in Row
      BY <1>1, <2>1, Zenon DEF Opened, Row
    <2>3. Netted(row, o, price) = Opened(row, o, price)
      BY <1>2 DEF Netted, Opposes
    <2>4. QED
      BY <2>2, <2>3
  <1>3. CASE row.qty # 0 /\ ~Opposes(row.qty, o.action)
    <2>1. Abs(row.qty) \in Int /\ Abs(row.qty) > 0 /\ o.qty \in Int /\ o.qty >= 0
      BY <1>3 DEF Abs, Row, Order
    <2>2. Abs(row.qty) * row.avg + o.qty * price \in Int
      BY <2>1 DEF Row
    <2>3. RoundDiv(Abs(row.qty) * row.avg + o.qty * price, Abs(row.qty) + o.qty) \in Int
      BY <2>1, <2>2, RoundDivType
    <2>4. row.qty + Signed(o) \in Int /\ row.margin + o.margin \in Int
      BY <1>1 DEF Row, Order
    <2>5. Increased(row, o, price) \in Row
      BY <2>3, <2>4, Zenon DEF Increased, Row
    <2>6. Netted(row, o, price) = Increased(row, o, price)
      BY <1>3 DEF Netted
    <2>7. QED
      BY <2>5, <2>6
  <1>4. CASE Opposes(row.qty, o.action) /\ o.qty <= Abs(row.qty)
    <2>1. /\ row.qty + Signed(o) \in Int
          /\ row.margin - FreedMargin(row, o) \in Int
          /\ row.pnl + RealizedPnl(row, o, price) \in Int
      BY <1>1, FreedMarginType, RealizedPnlType DEF Row
    <2>2. Reduced(row, o, price) \in Row
      BY <2>1, Zenon DEF Reduced, Row
    <2>3. row.qty # 0 /\ ~(o.qty > Abs(row.qty))
      BY <1>4 DEF Opposes, Row, Order, Abs
    <2>4. Netted(row, o, price) = Reduced(row, o, price)
      BY <1>4, <2>3 DEF Netted
    <2>5. QED
      BY <2>2, <2>4
  <1>5. CASE Opposes(row.qty, o.action) /\ o.qty > Abs(row.qty)
    <2>1. o.qty \in Int /\ o.qty > 0 /\ Abs(row.qty) \in Int /\ o.margin \in Int
      BY <1>5 DEF Abs, Row, Order
    <2>2. o.margin * (o.qty - Abs(row.qty)) \in Int
      BY <2>1
    <2>3. RoundDiv(o.margin * (o.qty - Abs(row.qty)), o.qty) \in Int
      BY <2>1, <2>2, RoundDivType
    <2>4. /\ row.qty + Signed(o) \in Int
          /\ row.pnl + RealizedPnl(row, o, price) \in Int
          /\ price \in Int
      BY <1>1, RealizedPnlType DEF Row
    <2>5. Reversed(row, o, price) \in Row
      BY <2>3, <2>4, Zenon DEF Reversed, Row
    <2>6. row.qty # 0 /\ ~(o.qty <= Abs(row.qty))
      BY <1>5, <2>1 DEF Opposes, Row
    <2>7. Netted(row, o, price) = Reversed(row, o, price)
      BY <1>5, <2>6 DEF Netted
    <2>8. QED
      BY <2>5, <2>7
  <1>6. o.qty <= Abs(row.qty) \/ o.qty > Abs(row.qty)
    BY DEF Row, Order, Abs
  <1>7. QED
    BY <1>2, <1>3, <1>4, <1>5, <1>6

\* Telling the fund manager of a closing fill, or failing to, keeps the account
\* balanced.
LEMMA SettledBalanced ==
    ASSUME NEW acc \in Account, NEW row \in Row, NEW o \in Order, NEW price \in Nat
    PROVE  /\ Settled(acc, row, o, price) \in Account
           /\ Balanced(acc) => Balanced(Settled(acc, row, o, price))
           /\ Settled(acc, row, o, price).resets = acc.resets
  BY ReleaseBalanced, FreedMarginType, RealizedPnlType DEF Settled

\* A row with a quantity exists.
Real(row) == row.qty # 0 => row.seen

\* A fill adds the order's signed quantity to the row in all four cases, and
\* leaves a row that exists.
LEMMA NettedQuantity ==
    ASSUME NEW row \in Row, NEW o \in Order, NEW price \in Nat, Real(row)
    PROVE  /\ Netted(row, o, price).qty = row.qty + Signed(o)
           /\ Real(Netted(row, o, price))
           /\ row.seen => Netted(row, o, price).seen
  <1>1. row = [qty |-> row.qty, avg |-> row.avg, margin |-> row.margin,
               pnl |-> row.pnl, seen |-> row.seen]
    BY DEF Row
  <1>2. CASE row.qty = 0
    <2>1. Netted(row, o, price) = Opened(row, o, price)
      BY <1>2 DEF Netted, Opposes
    <2>2. Opened(row, o, price).qty = Signed(o) /\ Opened(row, o, price).seen = TRUE
      BY <1>1, Zenon DEF Opened, Row
    <2>3. Signed(o) \in Int
      BY DEF Signed, Order
    <2>4. QED
      BY <1>2, <2>1, <2>2, <2>3 DEF Real
  <1>3. CASE row.qty # 0
    <2>1. row.seen
      BY <1>3 DEF Real
    <2>2. /\ Increased(row, o, price).qty = row.qty + Signed(o)
          /\ Reduced(row, o, price).qty = row.qty + Signed(o)
          /\ Reversed(row, o, price).qty = row.qty + Signed(o)
      BY <1>1, Zenon DEF Increased, Reduced, Reversed, Row
    <2>3. /\ Increased(row, o, price).seen = row.seen
          /\ Reduced(row, o, price).seen = row.seen
          /\ Reversed(row, o, price).seen = row.seen
      BY <1>1, Zenon DEF Increased, Reduced, Reversed, Row
    <2>4. o.qty <= Abs(row.qty) \/ o.qty > Abs(row.qty)
      BY DEF Row, Order, Abs
    <2>5. \/ Netted(row, o, price) = Increased(row, o, price)
          \/ Netted(row, o, price) = Reduced(row, o, price)
          \/ Netted(row, o, price) = Reversed(row, o, price)
      <3>1. CASE ~Opposes(row.qty, o.action)
        BY <1>3, <3>1 DEF Netted
      <3>2. CASE Opposes(row.qty, o.action) /\ o.qty <= Abs(row.qty)
        <4>1. ~(o.qty > Abs(row.qty))
          BY <3>2 DEF Row, Order, Abs
        <4>2. QED
          BY <1>3, <3>2, <4>1 DEF Netted
      <3>3. CASE Opposes(row.qty, o.action) /\ o.qty > Abs(row.qty)
        <4>1. ~(o.qty <= Abs(row.qty))
          BY <3>3 DEF Row, Order, Abs
        <4>2. QED
          BY <1>3, <3>3, <4>1 DEF Netted
      <3>4. QED
        BY <2>4, <3>1, <3>2, <3>3
    <2>6. QED
      BY <2>1, <2>2, <2>3, <2>5 DEF Real
  <1>4. QED
    BY <1>2, <1>3

\* A quotient without remainder is not rounded.
LEMMA RoundDivExact ==
    ASSUME NEW a \in Int, NEW b \in Int, b > 0, a % b = 0
    PROVE  b * RoundDiv(a, b) = a
  <1>1. PICK k \in Int : a = b * k
    <2>1. a = b * (a \div b) + (a % b)
      OBVIOUS
    <2>2. QED
      BY <2>1
  <1>2. 2 * a + b = (2 * b) * k + b
    BY <1>1
  <1>3. ASSUME NEW d \in Int, NEW r \in Int, NEW m \in Int, d > 0, 0 <= r, r < d
        PROVE  (d * m + r) \div d = m
    BY <1>3
  <1>4. ((2 * b) * k + b) \div (2 * b) = k
    BY <1>3
  <1>5. QED
    BY <1>1, <1>2, <1>4 DEF RoundDiv

\* The price of a fill that adds to a position averages without rounding.
AveragesExactly(row, o, price) ==
    row.qty # 0 /\ ~Opposes(row.qty, o.action) =>
        (Abs(row.qty) * row.avg + o.qty * price) % (Abs(row.qty) + o.qty) = 0

\* The cost of a short position, with the signs turned.
LEMMA ShortCost ==
    ASSUME NEW q \in Int, NEW n \in Int, NEW a \in Int, NEW avg \in Int, NEW price \in Int,
           (-q + n) * a = (-q) * avg + n * price
    PROVE  (q + (-n)) * a = q * avg + (-n) * price
  <1>1. (q + (-n)) * a = -((-q + n) * a)
    OBVIOUS
  <1>2. q * avg + (-n) * price = -((-q) * avg + n * price)
    OBVIOUS
  <1>3. QED
    BY <1>1, <1>2

\* The profit of a short position bought back in full and beyond.
LEMMA ShortReversal ==
    ASSUME NEW q \in Int, NEW n \in Int, NEW pnl \in Int, NEW avg \in Int, NEW price \in Int
    PROVE  pnl + (avg - price) * (-q) - (q + n) * price = pnl - q * avg - n * price
  <1>1. (avg - price) * (-q) = q * price - q * avg
    OBVIOUS
  <1>2. (q + n) * price = q * price + n * price
    OBVIOUS
  <1>3. /\ q * price \in Int /\ q * avg \in Int /\ n * price \in Int
    OBVIOUS
  <1>4. QED
    BY <1>1, <1>2, <1>3

\* The profit a row has booked, less its open quantity at cost, goes down by what
\* a fill costs: in all four cases of _update_position.
LEMMA NettedProfit ==
    ASSUME NEW row \in Row, NEW o \in Order, NEW price \in Nat,
           AveragesExactly(row, o, price)
    PROVE  Netted(row, o, price).pnl - Netted(row, o, price).qty * Netted(row, o, price).avg
               = row.pnl - row.qty * row.avg - Signed(o) * price
  <1> DEFINE q   == row.qty
             avg == row.avg
             pnl == row.pnl
             n   == o.qty
  <1>1. /\ q \in Int /\ avg \in Int /\ pnl \in Int /\ n \in Nat
        /\ row = [qty |-> q, avg |-> avg, margin |-> row.margin, pnl |-> pnl, seen |-> row.seen]
        /\ row.qty = q /\ row.avg = avg /\ row.pnl = pnl /\ o.qty = n
        /\ o.action \in {"BUY", "SELL"}
    BY DEF Row, Order, Action
  <1> HIDE DEF q, avg, pnl, n
  <1>2. Signed(o) = IF o.action = "BUY" THEN n ELSE -n
    BY <1>1 DEF Signed
  <1>3. CASE row.qty = 0
    <2>1. Netted(row, o, price) = Opened(row, o, price)
      BY <1>3 DEF Netted, Opposes
    <2>2. /\ Opened(row, o, price).qty = Signed(o) /\ Opened(row, o, price).avg = price
          /\ Opened(row, o, price).pnl = pnl
      BY <1>1, Zenon DEF Opened, Row
    <2>3. pnl - Signed(o) * price = pnl - 0 * avg - Signed(o) * price
      BY <1>1, <1>2
    <2>4. QED
      BY <1>1, <1>3, <2>1, <2>2, <2>3
  <1>4. CASE row.qty # 0 /\ ~Opposes(row.qty, o.action)
    <2> DEFINE w == Abs(q) + n
               sum == Abs(q) * avg + n * price
    <2>1. Netted(row, o, price) = Increased(row, o, price)
      BY <1>4 DEF Netted
    <2>2. /\ Increased(row, o, price).qty = q + Signed(o)
          /\ Increased(row, o, price).avg = RoundDiv(sum, w)
          /\ Increased(row, o, price).pnl = pnl
      BY <1>1, Zenon DEF Increased, Row
    <2>3. w \in Int /\ w > 0 /\ sum \in Int
      BY <1>1, <1>4 DEF Abs
    <2>4. w * RoundDiv(sum, w) = sum /\ RoundDiv(sum, w) \in Int
      <3>1. sum % w = 0
        BY <1>1, <1>4 DEF AveragesExactly
      <3>2. QED
        BY <2>3, <3>1, RoundDivExact, RoundDivType
    <2>5. (q + Signed(o)) * RoundDiv(sum, w) = q * avg + Signed(o) * price
      <3> DEFINE a == RoundDiv(sum, w)
      <3>1. a \in Int /\ (Abs(q) + n) * a = Abs(q) * avg + n * price
        BY <2>4
      <3> HIDE DEF a
      <3>2. CASE q > 0
        <4>1. Abs(q) = q /\ Signed(o) = n
          BY <1>1, <1>2, <1>4, <3>2 DEF Abs, Opposes
        <4>2. QED
          BY <3>1, <4>1 DEF a
      <3>3. CASE q < 0
        <4>1. Abs(q) = -q /\ Signed(o) = -n
          BY <1>1, <1>2, <1>4, <3>3 DEF Abs, Opposes
        <4>2. (-q + n) * a = (-q) * avg + n * price
          BY <3>1, <4>1
        <4>3. (q + (-n)) * a = q * avg + (-n) * price
          BY <1>1, <3>1, <4>2, ShortCost
        <4>4. QED
          BY <4>1, <4>3 DEF a
      <3>4. QED
        BY <1>1, <1>4, <3>2, <3>3 DEF a
    <2>6. q * avg \in Int /\ Signed(o) * price \in Int
      BY <1>1, <1>2
    <2>7. QED
      BY <1>1, <2>1, <2>2, <2>5, <2>6
  <1>5. CASE Opposes(row.qty, o.action) /\ o.qty <= Abs(row.qty)
    <2>1. Netted(row, o, price) = Reduced(row, o, price)
      <3>1. row.qty # 0 /\ ~(o.qty > Abs(row.qty))
        BY <1>5 DEF Opposes, Row, Order, Abs
      <3>2. QED
        BY <1>5, <3>1 DEF Netted
    <2>2. /\ Reduced(row, o, price).qty = q + Signed(o)
          /\ Reduced(row, o, price).avg = avg
          /\ Reduced(row, o, price).pnl = pnl + RealizedPnl(row, o, price)
      BY <1>1, Zenon DEF Reduced, Row
    <2>3. ClosedQty(row, o) = n
      BY <1>1, <1>5 DEF ClosedQty, Lesser, Abs
    <2>4. RealizedPnl(row, o, price) = (IF q > 0 THEN price - avg ELSE avg - price) * n
      BY <1>1, <2>3 DEF RealizedPnl
    <2>5. CASE q > 0 /\ o.action = "SELL"
      BY <1>1, <1>2, <2>1, <2>2, <2>4, <2>5
    <2>6. CASE q < 0 /\ o.action = "BUY"
      BY <1>1, <1>2, <2>1, <2>2, <2>4, <2>6
    <2>7. QED
      BY <1>1, <1>5, <2>5, <2>6 DEF Opposes
  <1>6. CASE Opposes(row.qty, o.action) /\ o.qty > Abs(row.qty)
    <2>1. Netted(row, o, price) = Reversed(row, o, price)
      <3>1. row.qty # 0 /\ ~(o.qty <= Abs(row.qty))
        BY <1>1, <1>6 DEF Opposes, Abs
      <3>2. QED
        BY <1>6, <3>1 DEF Netted
    <2>2. /\ Reversed(row, o, price).qty = q + Signed(o)
          /\ Reversed(row, o, price).avg = price
          /\ Reversed(row, o, price).pnl = pnl + RealizedPnl(row, o, price)
      BY <1>1, Zenon DEF Reversed, Row
    <2>3. ClosedQty(row, o) = Abs(q)
      BY <1>1, <1>6 DEF ClosedQty, Lesser, Abs
    <2>4. RealizedPnl(row, o, price) = (IF q > 0 THEN price - avg ELSE avg - price) * Abs(q)
      BY <1>1, <2>3 DEF RealizedPnl
    <2>5. CASE q > 0 /\ o.action = "SELL"
      <3>1. Abs(q) = q
        BY <1>1, <2>5 DEF Abs
      <3>2. QED
        BY <1>1, <1>2, <2>1, <2>2, <2>4, <2>5, <3>1
    <2>6. CASE q < 0 /\ o.action = "BUY"
      <3>1. Abs(q) = -q
        BY <1>1, <2>6 DEF Abs
      <3>2. /\ Netted(row, o, price).pnl = pnl + (avg - price) * (-q)
            /\ Netted(row, o, price).qty = q + n /\ Netted(row, o, price).avg = price
            /\ Signed(o) = n
        BY <1>1, <1>2, <2>1, <2>2, <2>4, <2>6, <3>1
      <3>3. pnl + (avg - price) * (-q) - (q + n) * price = pnl - q * avg - n * price
        BY <1>1, ShortReversal
      <3>4. Netted(row, o, price).pnl - Netted(row, o, price).qty * Netted(row, o, price).avg
              = pnl + (avg - price) * (-q) - (q + n) * price
        BY <1>1, <3>2
      <3>5. row.pnl - row.qty * row.avg - Signed(o) * price = pnl - q * avg - n * price
        BY <1>1, <3>2, Zenon
      <3>6. QED
        BY <3>3, <3>4, <3>5, Zenon
    <2>7. QED
      BY <1>1, <1>6, <2>5, <2>6 DEF Opposes
  <1>7. o.qty <= Abs(row.qty) \/ o.qty > Abs(row.qty)
    BY <1>1 DEF Abs
  <1>8. QED
    BY <1>3, <1>4, <1>5, <1>6, <1>7

\* What an account holds, in cash and as margin.
Holds(acc) == acc.available + acc.used

\* Blocking and reconciling move money between cash and margin; only the profit
\* of a closing fill, once the fund manager is told of it, changes their sum.
LEMMA SettledHolds ==
    ASSUME NEW acc \in Account, NEW row \in Row, NEW o \in Order, NEW price \in Nat,
           NEW amount \in Int, NEW margin \in Int,
           RealizedPnl(row, o, price) # 0 => FreedMargin(row, o) > 0
    PROVE  Holds(Reconcile(Settled(Block(acc, amount), row, o, price), margin))
               = Holds(acc) + RealizedPnl(row, o, price)
  <1> DEFINE blocked == Block(acc, amount)
             pnl     == RealizedPnl(row, o, price)
             freed   == FreedMargin(row, o)
             settled == Settled(blocked, row, o, price)
  <1>1. pnl \in Int /\ freed \in Int
    BY RealizedPnlType, FreedMarginType
  <1>2. blocked \in Account /\ Holds(blocked) = Holds(acc)
    <2>1. /\ blocked.available = acc.available - amount
          /\ blocked.used = acc.used + amount
      BY DEF Block, Account
    <2>2. acc.available \in Int /\ acc.used \in Int
      BY DEF Account
    <2> HIDE DEF blocked
    <2>3. Holds(blocked) = Holds(acc)
      BY <2>1, <2>2 DEF Holds
    <2>4. QED
      BY <2>3, BlockBalanced DEF blocked
  <1>3. settled \in Account
    BY <1>2, SettledBalanced
  <1>4. Holds(settled) = Holds(blocked) + pnl
    <2> HIDE DEF blocked, pnl, freed
    <2>1. settled = IF freed > 0 THEN Release(blocked, freed, pnl) ELSE blocked
      BY DEF Settled, pnl, freed
    <2>2. pnl # 0 => freed > 0
      BY DEF pnl, freed
    <2> HIDE DEF settled
    <2>3. CASE freed > 0
      BY <1>1, <1>2, <2>1, <2>3 DEF Release, Account, Holds
    <2>4. CASE ~(freed > 0)
      BY <1>1, <1>2, <2>1, <2>2, <2>4 DEF Account, Holds
    <2>5. QED
      BY <2>3, <2>4
  <1> HIDE DEF blocked, settled, pnl, freed
  <1>5. Holds(Reconcile(settled, margin)) = Holds(settled)
    BY <1>3 DEF Account, Reconcile, Holds
  <1>6. Holds(Reconcile(settled, margin)) = Holds(acc) + pnl
    BY <1>2, <1>4, <1>5
  <1>7. QED
    BY <1>6 DEF blocked, settled, pnl

\* A fill adds to a row the profit of the part it closes.
LEMMA NettedPnl ==
    ASSUME NEW row \in Row, NEW o \in Order, NEW price \in Nat
    PROVE  Netted(row, o, price).pnl = row.pnl + RealizedPnl(row, o, price)
  <1>1. row.qty \in Int /\ row.pnl \in Int /\ row.avg \in Int /\ o.qty \in Nat
    BY DEF Row, Order
  <1>2. row \in [qty : Int, avg : Int, margin : Int, pnl : Int, seen : BOOLEAN]
    BY DEF Row
  <1>3. ASSUME ~Opposes(row.qty, o.action)
        PROVE  RealizedPnl(row, o, price) = 0
    BY <1>1, <1>3 DEF RealizedPnl, ClosedQty
  <1>4. CASE row.qty = 0
    <2>1. ~Opposes(row.qty, o.action)
      BY <1>4 DEF Opposes
    <2>2. Netted(row, o, price) = Opened(row, o, price)
      BY <1>4, <2>1 DEF Netted
    <2>3. Opened(row, o, price).pnl = row.pnl
      BY <1>2 DEF Opened
    <2>4. QED
      BY <1>1, <1>3, <2>1, <2>2, <2>3
  <1>5. CASE row.qty # 0 /\ ~Opposes(row.qty, o.action)
    <2>1. Netted(row, o, price) = Increased(row, o, price)
      BY <1>5 DEF Netted
    <2>2. Increased(row, o, price).pnl = row.pnl
      BY <1>2 DEF Increased
    <2>3. QED
      BY <1>1, <1>3, <1>5, <2>1, <2>2
  <1>6. CASE row.qty # 0 /\ Opposes(row.qty, o.action)
    <2>1. \/ Netted(row, o, price) = Reduced(row, o, price)
          \/ Netted(row, o, price) = Reversed(row, o, price)
      <3>1. o.qty <= Abs(row.qty) \/ o.qty > Abs(row.qty)
        BY <1>1 DEF Abs
      <3>2. QED
        BY <1>6, <3>1 DEF Netted
    <2>2. /\ Reduced(row, o, price).pnl = row.pnl + RealizedPnl(row, o, price)
          /\ Reversed(row, o, price).pnl = row.pnl + RealizedPnl(row, o, price)
      BY <1>2 DEF Reduced, Reversed
    <2>3. QED
      BY <2>1, <2>2
  <1>7. QED
    BY <1>4, <1>5, <1>6

-----------------------------------------------------------------------------
\* g is the recursive function by which Folds adds up f over the subsets of S.
Adds(g, f, S) ==
    g = [s \in SUBSET S |-> IF s = {} THEN 0
                            ELSE f[CHOOSE x \in s : TRUE] + g[s \ {CHOOSE x \in s : TRUE}]]

Agree(f, h, S) == \A x \in S : f[x] = h[x]

\* A nonempty set of naturals has a least member.
LEMMA LeastNatural ==
    ASSUME NEW T, T \subseteq Nat, T # {}
    PROVE  \E m \in T : \A n \in T : m <= n
  <1>1. PICK m \in T : \A n \in T : ~(<<n, m>> \in OpToRel(<, Nat))
    BY NatLessThanWellFounded, WFMin
  <1>2. ASSUME NEW n \in T PROVE m <= n
    <2>1. n \in Nat /\ m \in Nat
      OBVIOUS
    <2>2. ~(n < m)
      BY <1>1, <2>1 DEF OpToRel
    <2>3. QED
      BY <2>1, <2>2
  <1>3. QED
    BY <1>2

\* Among sets of finite subsets, one is least in size.
LEMMA SmallestSet ==
    ASSUME NEW S, IsFiniteSet(S), NEW F, F \subseteq SUBSET S, F # {}
    PROVE  \E s \in F : \A t \in F : Cardinality(s) <= Cardinality(t)
  <1> DEFINE T == {Cardinality(s) : s \in F}
  <1>1. \A s \in F : Cardinality(s) \in Nat
    BY FS_Subset, FS_CardinalityType
  <1>2. T \subseteq Nat /\ T # {}
    BY <1>1
  <1>3. PICK m \in T : \A n \in T : m <= n
    <2> HIDE DEF T
    <2>1. QED
      BY <1>2, LeastNatural
  <1>4. QED
    BY <1>3

\* Taking a member out of a finite set leaves a set one smaller.
LEMMA OneFewer ==
    ASSUME NEW S, IsFiniteSet(S), NEW s \in SUBSET S, NEW x \in s
    PROVE  /\ s \ {x} \in SUBSET S
           /\ Cardinality(s) \in Nat
           /\ Cardinality(s \ {x}) = Cardinality(s) - 1
  BY FS_Subset, FS_CardinalityType, FS_RemoveElement

\* The recursive function of a fold exists for every finite set: it is built
\* for subsets of at most n members, for one n after the other.
LEMMA AddsExists ==
    ASSUME NEW S, IsFiniteSet(S), NEW f
    PROVE  \E g : Adds(g, f, S)
  <1> DEFINE Upto(n) == {s \in SUBSET S : Cardinality(s) <= n}
             Pick(s) == CHOOSE x \in s : TRUE
             Body(g, s) == IF s = {} THEN 0 ELSE f[Pick(s)] + g[s \ {Pick(s)}]
             Solves(g, n) == g = [s \in Upto(n) |-> Body(g, s)]
             Bad == {n \in Nat : ~ \E g : Solves(g, n)}
  <1>1. Upto(0) = {{}}
    <2>1. \A s \in SUBSET S : Cardinality(s) <= 0 <=> s = {}
      <3> TAKE s \in SUBSET S
      <3>1. IsFiniteSet(s) /\ Cardinality(s) \in Nat
        BY FS_Subset, FS_CardinalityType
      <3>2. QED
        BY <3>1, FS_EmptySet
    <2>2. QED
      BY <2>1
  <1>2. \E g : Solves(g, 0)
    <2> DEFINE g == [s \in Upto(0) |-> 0]
    <2>1. \A s \in Upto(0) : Body(g, s) = 0
      BY <1>1
    <2>2. Solves(g, 0)
      BY <2>1
    <2>3. QED
      BY <2>2
  <1>3. ASSUME NEW n \in Nat, NEW g, Solves(g, n) PROVE \E h : Solves(h, n + 1)
    <2> DEFINE h == [s \in Upto(n + 1) |-> Body(g, s)]
    <2>1. ASSUME NEW s \in Upto(n + 1) PROVE Body(g, s) = Body(h, s)
      <3>1. CASE s = {}
        BY <3>1
      <3>2. CASE s # {}
        <4> DEFINE t == s \ {Pick(s)}
        <4>1. Pick(s) \in s
          BY <3>2
        <4>2. t \in SUBSET S /\ Cardinality(t) = Cardinality(s) - 1 /\ Cardinality(s) \in Nat
          BY <4>1, OneFewer
        <4>3. t \in Upto(n) /\ t \in Upto(n + 1)
          BY <4>2
        <4> HIDE DEF t, Upto, Body
        <4>4. g[t] = Body(g, t)
          BY <1>3, <4>3
        <4>5. h[t] = Body(g, t)
          BY <4>3
        <4>6. QED
          BY <4>4, <4>5 DEF Body, t
      <3>3. QED
        BY <3>1, <3>2
    <2> HIDE DEF Upto, Body
    <2>2. h = [s \in Upto(n + 1) |-> Body(h, s)]
      BY <2>1
    <2>3. QED
      BY <2>2
  <1>4. Bad = {}
    <2> SUFFICES ASSUME Bad # {} PROVE FALSE
      OBVIOUS
    <2> HIDE DEF Solves
    <2>1. PICK m \in Bad : \A n \in Bad : m <= n
      BY LeastNatural
    <2>2. m # 0
      BY <1>2
    <2>3. m - 1 \in Nat /\ m = (m - 1) + 1 /\ m - 1 \notin Bad
      BY <2>1, <2>2
    <2>4. PICK g : Solves(g, m - 1)
      BY <2>3
    <2>5. \E h : Solves(h, (m - 1) + 1)
      BY <2>3, <2>4, <1>3
    <2>6. QED
      BY <2>3, <2>5
  <1>5. Cardinality(S) \in Nat /\ Upto(Cardinality(S)) = SUBSET S
    BY FS_Subset, FS_CardinalityType
  <1>6. PICK g : Solves(g, Cardinality(S))
    <2> HIDE DEF Solves
    <2>1. QED
      BY <1>4, <1>5
  <1>7. Adds(g, f, S)
    BY <1>5, <1>6 DEF Adds
  <1>8. QED
    BY <1>7

\* Two such functions agree wherever their summands do.
LEMMA AddsAgree ==
    ASSUME NEW S, NEW T, NEW U, U \subseteq S, U \subseteq T, IsFiniteSet(S),
           NEW f, NEW h, Agree(f, h, U),
           NEW g, Adds(g, f, S), NEW k, Adds(k, h, T)
    PROVE  g[U] = k[U]
  <1> DEFINE Pick(s) == CHOOSE x \in s : TRUE
             Bad == {s \in SUBSET U : g[s] # k[s]}
  <1>1. SUFFICES ASSUME Bad # {} PROVE FALSE
    OBVIOUS
  <1>2. IsFiniteSet(U) /\ Bad \subseteq SUBSET U
    BY FS_Subset
  <1>3. PICK s \in Bad : \A t \in Bad : Cardinality(s) <= Cardinality(t)
    <2> HIDE DEF Bad
    <2>1. QED
      BY <1>1, <1>2, SmallestSet
  <1>4. /\ g[s] = IF s = {} THEN 0 ELSE f[Pick(s)] + g[s \ {Pick(s)}]
        /\ k[s] = IF s = {} THEN 0 ELSE h[Pick(s)] + k[s \ {Pick(s)}]
    BY DEF Adds
  <1>5. s # {}
    BY <1>4
  <1>6. Pick(s) \in s
    BY <1>5
  <1>7. f[Pick(s)] = h[Pick(s)]
    BY <1>6 DEF Agree
  <1> DEFINE t == s \ {Pick(s)}
  <1>8. t \in SUBSET U /\ Cardinality(s) \in Nat /\ Cardinality(t) = Cardinality(s) - 1
    BY <1>2, <1>6, OneFewer
  <1>9. t \in Bad
    BY <1>4, <1>5, <1>7, <1>8
  <1>10. QED
    BY <1>3, <1>8, <1>9

\* Adding up integers gives integers.
LEMMA AddsType ==
    ASSUME NEW S, IsFiniteSet(S), NEW f, \A x \in S : f[x] \in Int, NEW g, Adds(g, f, S)
    PROVE  \A s \in SUBSET S : g[s] \in Int
  <1> DEFINE Pick(s) == CHOOSE x \in s : TRUE
             Bad == {s \in SUBSET S : g[s] \notin Int}
  <1>1. SUFFICES ASSUME Bad # {} PROVE FALSE
    OBVIOUS
  <1>2. PICK s \in Bad : \A t \in Bad : Cardinality(s) <= Cardinality(t)
    <2>1. Bad \subseteq SUBSET S
      OBVIOUS
    <2> HIDE DEF Bad
    <2>2. QED
      BY <1>1, <2>1, SmallestSet
  <1>3. g[s] = IF s = {} THEN 0 ELSE f[Pick(s)] + g[s \ {Pick(s)}]
    BY DEF Adds
  <1>4. s # {}
    BY <1>3
  <1>5. Pick(s) \in s
    BY <1>4
  <1> DEFINE t == s \ {Pick(s)}
  <1>6. t \in SUBSET S /\ Cardinality(s) \in Nat /\ Cardinality(t) = Cardinality(s) - 1
    BY <1>5, OneFewer
  <1>7. f[Pick(s)] \in Int
    BY <1>5
  <1>8. t \in Bad
    <2> HIDE DEF Pick
    <2>1. QED
      BY <1>3, <1>4, <1>6, <1>7
  <1>9. QED
    BY <1>2, <1>6, <1>8

\* Any member can be added last: the order of the additions does not matter.
LEMMA AddsRemove ==
    ASSUME NEW S, IsFiniteSet(S), NEW f, \A x \in S : f[x] \in Int, NEW g, Adds(g, f, S)
    PROVE  \A s \in SUBSET S : \A x \in s : g[s] = f[x] + g[s \ {x}]
  <1> DEFINE Pick(s) == CHOOSE x \in s : TRUE
             Bad == {s \in SUBSET S : \E x \in s : g[s] # f[x] + g[s \ {x}]}
  <1>1. SUFFICES ASSUME Bad # {} PROVE FALSE
    OBVIOUS
  <1>2. PICK s \in Bad : \A t \in Bad : Cardinality(s) <= Cardinality(t)
    <2>1. Bad \subseteq SUBSET S
      OBVIOUS
    <2> HIDE DEF Bad
    <2>2. QED
      BY <1>1, <2>1, SmallestSet
  <1>3. PICK x \in s : g[s] # f[x] + g[s \ {x}]
    OBVIOUS
  <1>4. \A t \in SUBSET S : t # {} => Pick(t) \in t /\ g[t] = f[Pick(t)] + g[t \ {Pick(t)}]
    BY DEF Adds
  <1> DEFINE a == Pick(s)
  <1>5. a \in s /\ g[s] = f[a] + g[s \ {a}]
    BY <1>4
  <1>6. a # x
    BY <1>3, <1>5
  <1> HIDE DEF a, Pick
  <1>7. x \in s \ {a} /\ a \in s \ {x} /\ (s \ {a}) \ {x} = (s \ {x}) \ {a}
    BY <1>5, <1>6
  <1>8. /\ s \ {a} \in SUBSET S /\ Cardinality(s \ {a}) = Cardinality(s) - 1
        /\ s \ {x} \in SUBSET S /\ Cardinality(s \ {x}) = Cardinality(s) - 1
        /\ Cardinality(s) \in Nat
    BY <1>5, OneFewer
  <1>9. s \ {a} \notin Bad /\ s \ {x} \notin Bad
    <2> HIDE DEF Bad
    <2>1. QED
      BY <1>2, <1>8
  <1>10. g[s \ {a}] = f[x] + g[(s \ {a}) \ {x}]
    BY <1>7, <1>8, <1>9
  <1>11. g[s \ {x}] = f[a] + g[(s \ {a}) \ {x}]
    BY <1>7, <1>8, <1>9
  <1>12. f[x] \in Int /\ f[a] \in Int /\ g[(s \ {a}) \ {x}] \in Int
    BY <1>5, AddsType
  <1>13. QED
    BY <1>3, <1>5, <1>10, <1>11, <1>12

\* The community module's sum is such a function's value.
LEMMA SumUnfold ==
    ASSUME NEW S, IsFiniteSet(S), NEW f
    PROVE  \E g : Adds(g, f, S) /\ SumFunctionOnSet(f, S) = g[S]
  <1> DEFINE iter == CHOOSE g : Adds(g, f, S)
  <1>1. Adds(iter, f, S)
    BY AddsExists, Zenon
  <1>2. SumFunctionOnSet(f, S) = iter[S]
    BY DEF SumFunctionOnSet, FoldFunctionOnSet, MapThenFoldSet, Adds
  <1>3. QED
    BY <1>1, <1>2

\* The sum over a finite set depends only on the summands of its members.
LEMMA SumAgree ==
    ASSUME NEW S, IsFiniteSet(S), NEW f, NEW h, \A x \in S : f[x] = h[x]
    PROVE  SumFunctionOnSet(f, S) = SumFunctionOnSet(h, S)
  <1>1. PICK g : Adds(g, f, S) /\ SumFunctionOnSet(f, S) = g[S]
    BY SumUnfold
  <1>2. PICK k : Adds(k, h, S) /\ SumFunctionOnSet(h, S) = k[S]
    BY SumUnfold
  <1>3. S \subseteq S /\ Agree(f, h, S)
    BY DEF Agree
  <1>4. g[S] = k[S]
    BY <1>1, <1>2, <1>3, AddsAgree
  <1>5. QED
    BY <1>1, <1>2, <1>4

\* A sum of integers is an integer, 0 over the empty set, and any member's
\* summand can be taken out of it.
LEMMA SumRemove ==
    ASSUME NEW S, IsFiniteSet(S), NEW f, \A x \in S : f[x] \in Int
    PROVE  /\ SumFunctionOnSet(f, S) \in Int
           /\ S = {} => SumFunctionOnSet(f, S) = 0
           /\ \A x \in S : SumFunctionOnSet(f, S) = f[x] + SumFunctionOnSet(f, S \ {x})
  <1>1. PICK g : Adds(g, f, S) /\ SumFunctionOnSet(f, S) = g[S]
    BY SumUnfold
  <1>2. SumFunctionOnSet(f, S) \in Int
    BY <1>1, AddsType
  <1>3. S = {} => SumFunctionOnSet(f, S) = 0
    BY <1>1 DEF Adds
  <1>4. ASSUME NEW x \in S
        PROVE  SumFunctionOnSet(f, S) = f[x] + SumFunctionOnSet(f, S \ {x})
    <2>1. IsFiniteSet(S \ {x})
      BY FS_RemoveElement
    <2>2. PICK k : Adds(k, f, S \ {x}) /\ SumFunctionOnSet(f, S \ {x}) = k[S \ {x}]
      BY <2>1, SumUnfold
    <2>3. g[S \ {x}] = k[S \ {x}]
      BY <1>1, <2>2, AddsAgree DEF Agree
    <2>4. g[S] = f[x] + g[S \ {x}]
      BY <1>1, AddsRemove
    <2>5. QED
      BY <1>1, <2>2, <2>3, <2>4
  <1>5. QED
    BY <1>2, <1>3, <1>4

\* Changing one summand changes the sum by as much.
LEMMA SumChange ==
    ASSUME NEW S, IsFiniteSet(S), NEW f, NEW h, \A x \in S : f[x] \in Int /\ h[x] \in Int,
           NEW o \in S, \A x \in S \ {o} : h[x] = f[x]
    PROVE  SumFunctionOnSet(h, S) = SumFunctionOnSet(f, S) - f[o] + h[o]
  <1>1. IsFiniteSet(S \ {o})
    BY FS_RemoveElement
  <1>2. SumFunctionOnSet(f, S \ {o}) = SumFunctionOnSet(h, S \ {o})
    BY <1>1, SumAgree
  <1>3. /\ SumFunctionOnSet(f, S) = f[o] + SumFunctionOnSet(f, S \ {o})
        /\ SumFunctionOnSet(h, S) = h[o] + SumFunctionOnSet(h, S \ {o})
        /\ SumFunctionOnSet(f, S) \in Int
    BY SumRemove
  <1>4. SumFunctionOnSet(f, S \ {o}) \in Int /\ f[o] \in Int /\ h[o] \in Int
    BY <1>1, SumRemove
  <1>5. QED
    BY <1>2, <1>3, <1>4

\* A sum of amounts that are not negative is not negative.
LEMMA SumNatural ==
    ASSUME NEW S, IsFiniteSet(S), NEW f, \A x \in S : f[x] \in Nat
    PROVE  SumFunctionOnSet(f, S) \in Nat
  <1> DEFINE Bad == {s \in SUBSET S : SumFunctionOnSet(f, s) \notin Nat}
  <1>1. SUFFICES ASSUME Bad # {} PROVE FALSE
    OBVIOUS
  <1>2. PICK s \in Bad : \A t \in Bad : Cardinality(s) <= Cardinality(t)
    <2>1. Bad \subseteq SUBSET S
      OBVIOUS
    <2> HIDE DEF Bad
    <2>2. QED
      BY <1>1, <2>1, SmallestSet
  <1>3. IsFiniteSet(s) /\ \A x \in s : f[x] \in Nat /\ f[x] \in Int
    BY FS_Subset
  <1>4. PICK x \in s : TRUE
    BY <1>3, SumRemove
  <1>5. s \ {x} \in SUBSET S /\ Cardinality(s) \in Nat /\ Cardinality(s \ {x}) = Cardinality(s) - 1
    BY OneFewer
  <1>6. s \ {x} \notin Bad
    <2> HIDE DEF Bad
    <2>1. QED
      BY <1>2, <1>5
  <1>7. SumFunctionOnSet(f, s) = f[x] + SumFunctionOnSet(f, s \ {x})
    BY <1>3, SumRemove
  <1>8. QED
    BY <1>3, <1>5, <1>6, <1>7

\* A sum of zeros is zero.
LEMMA SumZero ==
    ASSUME NEW S, IsFiniteSet(S), NEW f, \A x \in S : f[x] = 0
    PROVE  SumFunctionOnSet(f, S) = 0
  <1> DEFINE Bad == {s \in SUBSET S : SumFunctionOnSet(f, s) # 0}
  <1>1. SUFFICES ASSUME Bad # {} PROVE FALSE
    OBVIOUS
  <1>2. PICK s \in Bad : \A t \in Bad : Cardinality(s) <= Cardinality(t)
    <2>1. Bad \subseteq SUBSET S
      OBVIOUS
    <2> HIDE DEF Bad
    <2>2. QED
      BY <1>1, <2>1, SmallestSet
  <1>3. IsFiniteSet(s) /\ \A x \in s : f[x] = 0 /\ f[x] \in Int
    BY FS_Subset
  <1>4. PICK x \in s : TRUE
    BY <1>3, SumRemove
  <1>5. s \ {x} \in SUBSET S /\ Cardinality(s) \in Nat /\ Cardinality(s \ {x}) = Cardinality(s) - 1
    BY OneFewer
  <1>6. s \ {x} \notin Bad
    <2> HIDE DEF Bad
    <2>1. QED
      BY <1>2, <1>5
  <1>7. SumFunctionOnSet(f, s) = f[x] + SumFunctionOnSet(f, s \ {x})
    BY <1>3, SumRemove
  <1>8. QED
    BY <1>3, <1>5, <1>6, <1>7
=============================================================================
