--------------------------- MODULE SandboxMoney ---------------------------
(***************************************************************************)
(* The virtual cash account of one sandbox user (sandbox/fund_manager.py,  *)
(* database/sandbox_db.py SandboxFunds): how margin is computed, blocked,  *)
(* released and reconciled.  Every operator takes an account and returns   *)
(* the account the code commits.  Money is an integer number of paise; a   *)
(* division rounds once to a paisa, where the code rounds on each of the   *)
(* DECIMAL(15,2) columns it stores.                                        *)
(***************************************************************************)
EXTENDS Integers

CONSTANTS
    StartingCapital,  \* sandbox_config "starting_capital"
    Leverage,         \* Leverage[product][action], the sandbox_config leverages
    Instrument        \* what the symbol is: decides products and margin rules

Action     == {"BUY", "SELL"}
Product    == {"CNC", "MIS", "NRML"}
Derivative == {"future", "option"}

ASSUME MoneyAssumption ==
    /\ StartingCapital \in Nat
    /\ Leverage \in [Product -> [Action -> Nat \ {0}]]
    /\ Instrument \in {"equity"} \cup Derivative

Abs(n)       == IF n < 0 THEN -n ELSE n
Lesser(m, n) == IF m < n THEN m ELSE n

\* a / b rounded to the nearest paisa, for b > 0.
RoundDiv(a, b) == (2 * a + b) \div (2 * b)

-----------------------------------------------------------------------------
Account == [available : Int, used : Int, realized : Int, resets : Nat]

\* initialize_funds, and the account _reset_funds writes for the k-th reset.
FreshAccount(k) ==
    [available |-> StartingCapital, used |-> 0, realized |-> 0, resets |-> k]

MarginRequired(product, action, qty, price) ==
    RoundDiv(qty * price, Leverage[product][action])

\* SELL needs no margin only for owned shares of the cash segment.
NeedsMargin(product, action) ==
    \/ action = "BUY"
    \/ Instrument \in Derivative
    \/ product \in {"MIS", "NRML"}

CanBlock(acc, amount) == acc.available >= amount

Block(acc, amount) ==
    [acc EXCEPT !.available = @ - amount, !.used = @ + amount]

\* Mutant of Release: the profit is recorded and not paid.
ReleaseWithoutProfit(acc, amount, pnl) ==
    [acc EXCEPT !.used = @ - amount, !.available = @ + amount, !.realized = @ + pnl]

Release(acc, amount, pnl) ==
    [acc EXCEPT !.used      = @ - amount,
                !.available = @ + amount + pnl,
                !.realized  = @ + pnl]

\* validate_margin_consistency and, on any discrepancy, reconcile_margin: the
\* account follows the margin of the open positions.
Reconcile(acc, positionMargin) ==
    [acc EXCEPT !.available = @ + (acc.used - positionMargin),
                !.used      = positionMargin]
=============================================================================
