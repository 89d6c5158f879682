-------------------------- MODULE SandboxOvernight --------------------------
(***************************************************************************)
(* The sandbox account of one user in one share from day to day: delivery  *)
(* (CNC) and intraday (MIS) positions, the T+1 settlement into holdings,   *)
(* the daily reset of today's profit, and the catch-up tasks of the next   *)
(* login for what was missed while the program was down                    *)
(* (sandbox/holdings_manager.py, catch_up_processor.py, squareoff_thread.py*)
(* and fund_manager.py).  Orders are market orders, placed and filled in   *)
(* one step: the life of a resting order is SandboxTrading's.              *)
(***************************************************************************)
EXTENDS SandboxNetting

CONSTANTS
    Quantities,   \* bound: the quantities the user asks for
    Quotes,       \* bound: the quotes the market shows
    MaxTrades,    \* bound: the trades of the user
    MaxNights,    \* bound: the midnights that pass
    MaxCuts       \* bound: the settlements that fail half way

ASSUME OvernightAssumption ==
    /\ Instrument = "equity"
    /\ Quantities \subseteq Nat \ {0}
    /\ Quotes \subseteq Quote
    /\ {MaxTrades, MaxNights, MaxCuts} \subseteq Nat

Carried == {"CNC", "MIS"}

VARIABLES
    pos,       \* SandboxPositions, by product
    early,     \* was the row created before today's midnight (created_at)?
    funds,     \* the SandboxFunds row
    today,     \* its today_realized_pnl
    touched,   \* was it written since the last session boundary (updated_at)?
    holding,   \* the SandboxHoldings row; no row is the quantity 0
    hour,      \* "day", and "night" from midnight to the session boundary
    due,       \* is the midnight settlement job still to run?
    login,     \* the user's session: "none", "open", or a stage of its catch-up tasks
    nights, cuts,
    history    \* what was traded: not in the program, and read by no action

job   == <<hour, due, login, nights, cuts>>
vars  == <<pos, early, funds, today, touched, holding, job, history>>

NoHolding == [qty |-> 0, avg |-> 0]

\* Of the trades: their number, the shares of delivery, the cash all of them cost,
\* the profit booked since the session boundary, and whether the clamp of the
\* catch-up has hidden a negative margin.
NoHistory == [trades |-> 0, shares |-> 0, paid |-> 0, booked |-> 0, clamped |-> FALSE]

Init ==
    /\ pos = [p \in Carried |-> NoRow]
    /\ early = [p \in Carried |-> FALSE]
    /\ funds = FreshAccount(0)
    /\ today = 0
    /\ touched = FALSE
    /\ holding = NoHolding
    /\ hour = "day"
    /\ due = FALSE
    /\ login = "open"
    /\ nights = 0
    /\ cuts = 0
    /\ history = NoHistory

-----------------------------------------------------------------------------
CarriedMargin(rows) == OpenMargin(rows["CNC"]) + OpenMargin(rows["MIS"])

\* A delivery sale is held against the long position and the holdings, an intraday
\* order at night against the position.
Admitted(p, action, qty) ==
    CASE p = "CNC" -> action = "SELL" =>
                          qty <= (IF pos[p].qty > 0 THEN pos[p].qty ELSE 0)
                                 + (IF holding.qty > 0 THEN holding.qty ELSE 0)
      [] p = "MIS" -> hour = "night" => Opposes(pos[p].qty, action)

\* place_order and the fill, as in SandboxTrading.  A row that is reused keeps its
\* created_at.  Without a session there are no quotes.
Trade(p, action, qty, quote) ==
    LET r     == [action |-> action, type |-> "MARKET", product |-> p, qty |-> qty,
                  price |-> 0, trigger |-> 0]
        order == Accepted(r, pos[p].qty, quote.ltp)
        price == MarketPrice(r, quote)
        rows  == [pos EXCEPT ![p] = Netted(@, order, price)]
        acc   == Settled(Block(funds, Taken(order)), pos[p], order, price)
        gain  == acc.realized - funds.realized
    IN  /\ login # "none"
        /\ history.trades < MaxTrades
        /\ Admitted(p, action, qty)
        /\ Taken(order) > 0 => CanBlock(funds, Taken(order))
        /\ pos' = rows
        /\ funds' = Reconcile(acc, CarriedMargin(rows))
        /\ today' = today + gain
        /\ touched' = (touched \/ funds' # funds)
        /\ history' = [history EXCEPT !.trades = @ + 1,
                                      !.shares = @ + (IF p = "CNC" THEN Signed(order) ELSE 0),
                                      !.paid   = @ + Signed(order) * price,
                                      !.booked = @ + gain]
        /\ UNCHANGED <<early, holding, job>>

-----------------------------------------------------------------------------
\* Mutant of Gathered: the holding is replaced.
GatheredAnew(row) == [qty |-> row.qty, avg |-> row.avg]

\* The holding after a settlement.  A sale with no holding leaves a negative one.
Gathered(row) ==
    LET qty == holding.qty + row.qty
        avg == IF row.qty > 0
               THEN RoundDiv(Abs(holding.qty) * holding.avg + row.qty * row.avg,
                             Abs(holding.qty) + row.qty)
               ELSE holding.avg
    IN  CASE holding.qty = 0              -> [qty |-> row.qty, avg |-> row.avg]
          [] holding.qty # 0 /\ qty = 0   -> NoHolding
          [] holding.qty # 0 /\ qty # 0   -> [qty |-> qty, avg |-> avg]

\* Mutant of Moved: the money of a purchase goes back to the cash.
MovedBack(row) ==
    IF row.qty < 0 /\ holding.qty # 0
    THEN [funds EXCEPT !.available = @ + Abs(row.qty) * row.avg]
    ELSE [funds EXCEPT !.used = @ - Abs(row.qty) * row.avg,
                       !.available = @ + Abs(row.qty) * row.avg]

\* transfer_margin_to_holdings: the money of a purchase leaves the account.
\* credit_sale_proceeds: a sale from the holdings is paid.
Moved(row) ==
    IF row.qty < 0 /\ holding.qty # 0
    THEN [funds EXCEPT !.available = @ + Abs(row.qty) * row.avg]
    ELSE [funds EXCEPT !.used = @ - Abs(row.qty) * row.avg]

\* Mutant of Removed: the next row inherits the date.
RemovedButDate(p) ==
    /\ pos' = [pos EXCEPT ![p] = NoRow]
    /\ UNCHANGED early

Removed(p) ==
    /\ pos' = [pos EXCEPT ![p] = NoRow]
    /\ early' = [early EXCEPT ![p] = FALSE]

Removable == early["CNC"] /\ pos["CNC"].qty = 0
Settleable == early["CNC"] /\ pos["CNC"].qty # 0

\* process_t1_settlement, for the rows of earlier days.
Settle ==
    \/ /\ ~early["CNC"]
       /\ UNCHANGED <<pos, early, funds, touched, holding, cuts>>
    \/ /\ Removable
       /\ Removed("CNC")
       /\ UNCHANGED <<funds, touched, holding, cuts>>
    \/ /\ Settleable
       /\ Removed("CNC")
       /\ holding' = Gathered(pos["CNC"])
       /\ funds' = Moved(pos["CNC"])
       /\ touched' = TRUE
       /\ UNCHANGED cuts

\* The transfer fails and takes the holding back with it; its answer is not read,
\* and the position is removed all the same.
SettleUnpaid ==
    /\ Settleable
    /\ cuts < MaxCuts
    /\ cuts' = cuts + 1
    /\ Removed("CNC")
    /\ UNCHANGED <<funds, touched, holding>>

\* The holding and the account are committed together, the removal of the position
\* after them: when the process stops in between, the position is still there.
SettleCut ==
    /\ Settleable
    /\ cuts < MaxCuts
    /\ cuts' = cuts + 1
    /\ holding' = Gathered(pos["CNC"])
    /\ funds' = Moved(pos["CNC"])
    /\ touched' = TRUE
    /\ UNCHANGED <<pos, early>>

SettlementJob ==
    /\ due
    /\ due' = FALSE
    /\ Settle \/ SettleUnpaid
    /\ UNCHANGED <<today, hour, login, nights, history>>

\* The process stops in a settlement, and starts again in the same session.
Crash ==
    /\ due \/ login = "t1"
    /\ SettleCut
    /\ due' = FALSE
    /\ login' = IF login = "none" THEN "none" ELSE "open"
    /\ UNCHANGED <<today, hour, nights, history>>

-----------------------------------------------------------------------------
\* Midnight passes: every row is now of an earlier day.  The settlement job runs
\* when the program does.
Midnight ==
    /\ hour = "day"
    /\ nights < MaxNights
    /\ hour' = "night"
    /\ nights' = nights + 1
    /\ early' = [p \in Carried |-> pos[p].seen]
    /\ due' = TRUE
    /\ UNCHANGED <<pos, funds, today, touched, holding, login, cuts, history>>

\* The session boundary passes, and with it the user's session; reset_daily_pnl
\* runs when the program does.
SessionBoundary ==
    /\ hour = "night"
    /\ login \in {"none", "open"}
    /\ hour' = "day"
    /\ due' = FALSE
    /\ login' = "none"
    /\ \/ today' = 0 /\ touched' = TRUE
       \/ touched' = FALSE /\ UNCHANGED today
    /\ history' = [history EXCEPT !.booked = 0]
    /\ UNCHANGED <<pos, early, funds, holding, nights, cuts>>

Login ==
    /\ login \in {"none", "open"}
    /\ login' = "mis"
    /\ UNCHANGED <<pos, early, funds, today, touched, holding, hour, due, nights, cuts, history>>

\* catch_up_mis_squareoff: an intraday row of an earlier day is closed at its last
\* price; the used margin is not let below zero.
CloseStale(price) ==
    LET row  == pos["MIS"]
        pnl  == (price - row.avg) * row.qty
        used == funds.used - row.margin
    IN  /\ early["MIS"] /\ row.qty # 0
        /\ pos' = [pos EXCEPT !["MIS"] = [row EXCEPT !.qty = 0, !.margin = 0, !.pnl = @ + pnl]]
        /\ funds' = [funds EXCEPT !.available = @ + row.margin + pnl,
                                  !.used      = IF used < 0 THEN 0 ELSE used,
                                  !.realized  = @ + pnl]
        /\ touched' = TRUE
        /\ history' = [history EXCEPT !.paid = @ - row.qty * price,
                                      !.clamped = @ \/ used < 0]

CatchUpMis ==
    /\ login = "mis"
    /\ login' = "t1"
    /\ \/ \E price \in {quote.ltp : quote \in Quotes} : CloseStale(price)
       \/ /\ early["MIS"] => pos["MIS"].qty = 0
          /\ UNCHANGED <<pos, funds, touched, history>>
    /\ UNCHANGED <<early, today, holding, hour, due, nights, cuts>>

CatchUpSettlement ==
    /\ login = "t1"
    /\ login' = "reset"
    /\ Settle \/ SettleUnpaid
    /\ UNCHANGED <<today, hour, due, nights, history>>

\* Mutant of CatchUpReset: the account is reset whenever it was written.
CatchUpResetAlways ==
    /\ login = "reset"
    /\ login' = "open"
    /\ today' = 0
    /\ touched' = TRUE
    /\ UNCHANGED <<pos, early, funds, holding, hour, due, nights, cuts, history>>

\* catch_up_daily_pnl_reset: an account last written before the boundary.
CatchUpReset ==
    /\ login = "reset"
    /\ login' = "open"
    /\ \/ /\ ~touched /\ today # 0
          /\ today' = 0
          /\ touched' = TRUE
       \/ /\ touched \/ today = 0
          /\ UNCHANGED <<today, touched>>
    /\ UNCHANGED <<pos, early, funds, holding, hour, due, nights, cuts, history>>

Next ==
    \/ \E p \in Carried, action \in Action, qty \in Quantities, quote \in Quotes :
           Trade(p, action, qty, quote)
    \/ Midnight
    \/ SettlementJob
    \/ SessionBoundary
    \/ Login
    \/ CatchUpMis
    \/ CatchUpSettlement
    \/ CatchUpReset
    \/ Crash

Spec == Init /\ [][Next]_vars
-----------------------------------------------------------------------------
TypeOK ==
    /\ pos \in [Carried -> Row]
    /\ early \in [Carried -> BOOLEAN]
    /\ \A p \in Carried : early[p] \/ pos[p].qty # 0 => pos[p].seen
    /\ funds \in Account
    /\ today \in Int
    /\ touched \in BOOLEAN /\ due \in BOOLEAN
    /\ holding \in [qty : Int, avg : Int]
    /\ hour \in {"day", "night"}
    /\ login \in {"none", "mis", "t1", "reset", "open"}
    /\ nights \in 0 .. MaxNights
    /\ cuts \in 0 .. MaxCuts
    /\ history \in [trades : Nat, shares : Int, paid : Int, booked : Int, clamped : BOOLEAN]

\* No share is lost or made from day to day: the delivery position and the holding
\* are together what was bought less what was sold, wherever the settlement job,
\* the catch-up of a login and the trades of the user fall (holdings_manager.py
\* process_t1_settlement), unless a settlement fails half way.
SharesFollowTrades ==
    cuts = 0 => pos["CNC"].qty + holding.qty = history.shares

\* The money does too: cash and margin are the starting capital less what the
\* trades have cost, with the open positions at cost; settling a purchase moves its
\* cost out of the account, settling a sale brings its proceeds in
\* (fund_manager.py transfer_margin_to_holdings, credit_sale_proceeds).
CashFollowsTrades ==
    cuts = 0 /\ ~history.clamped =>
        funds.available + funds.used =
            StartingCapital - history.paid
            + pos["CNC"].qty * pos["CNC"].avg + pos["MIS"].qty * pos["MIS"].avg

\* The catch-up of the day's profit throws nothing away that was booked since the
\* session boundary (catch_up_processor.py catch_up_daily_pnl_reset).
CatchUpKeepsToday ==
    [][login = "reset" /\ login' = "open" => today' \in {today, history'.booked}]_vars
=============================================================================
