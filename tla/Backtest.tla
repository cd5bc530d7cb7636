------------------------------ MODULE Backtest ------------------------------
(***************************************************************************)
(* BacktestEngine.run() (backtest/engine.py) over the bars of one asset,   *)
(* with FixedFractionSizer (portfolio/sizing.py), any strategy and any     *)
(* prices.  A bar is two steps: Execute, where the order of the previous   *)
(* bar meets the risk manager and the open, and Decide, where the strategy *)
(* sees the close and the sizer turns its signal into the next order.      *)
(* Both callers of the engine size with max_asset_allocation.  Average     *)
(* prices and the realized result are left out: sales may be partial, and  *)
(* their quotients are not integers (PaperPortfolio has whole sales).      *)
(***************************************************************************)
EXTENDS RiskManager

CONSTANTS
    Prices,   \* the prices an open or a close can have
    Cash,     \* initial_cash, in price units
    MaxBars   \* bound: bars of the dataset

ASSUME BacktestAssumption ==
    Prices \subseteq Nat \ {0} /\ Cash \in Nat \ {0} /\ MaxBars \in Nat

VARIABLES
    phase,    \* "execute", "decide", or "failed" after an AccountingError
    bars,     \* bars begun
    close,    \* prices[bar.asset]
    cash, qty,
    side,     \* of the pending order, "NONE" without one
    lots,     \* its quantity
    peak,     \* the peak run() keeps
    gate,     \* circuit_state of the risk manager
    tripped   \* auxiliary: an evaluation saw a drawdown at the limit

account == <<cash, qty>>
vars    == <<phase, bars, close, account, side, lots, peak, gate, tripped>>

\* account.mark()
Equity(c) == cash + Notional(qty, c)

Init ==
    /\ phase = "execute" /\ bars = 0
    /\ close \in Prices
    /\ cash = Cash * 10000 /\ qty = 0
    /\ side = "NONE" /\ lots = 0
    /\ peak = cash
    /\ gate = "CLOSED" /\ tripped = "no"

-----------------------------------------------------------------------------
Order == [side |-> side, qty |-> lots]

PeakAfter(c) == IF Equity(c) > peak THEN Equity(c) ELSE peak

\* The drawdown of the account marked at price c reaches max_drawdown.
InDrawdown(c) == 100 * (PeakAfter(c) - Equity(c)) >= MaxDrawdown * PeakAfter(c)

\* The account is valued at the close of the bar whose open executes.
Context(o, c) ==
    [price |-> o, cash |-> cash, equity |-> Equity(c),
     value |-> Notional(qty, c), exposure |-> Notional(qty, c),
     position |-> qty, rate |-> Slip + Fee,
     alarm |-> IF InDrawdown(c) THEN "yes" ELSE "no"]

\* execute() and apply_fill() of q lots at the open o.
Fill(q, o) ==
    \/ /\ q = 0
       /\ phase' = "decide"
       /\ UNCHANGED account
    \/ /\ q > 0 /\ side = "BUY" /\ BuyCost(q, o) <= cash
       /\ phase' = "decide"
       /\ cash' = cash - BuyCost(q, o)
       /\ qty' = qty + q
    \/ /\ q > 0 /\ side = "BUY" /\ BuyCost(q, o) > cash
       /\ phase' = "failed"
       /\ UNCHANGED account
    \/ /\ q > 0 /\ side = "SELL"
       /\ phase' = "decide"
       /\ cash' = cash + SellGain(q, o)
       /\ qty' = qty - q

NoOrder ==
    /\ side = "NONE"
    /\ phase' = "decide"
    /\ UNCHANGED <<account, peak, gate, tripped>>

Evaluated(o, c) ==
    /\ side # "NONE"
    /\ peak' = PeakAfter(c)
    /\ gate' = GateAfter(Context(o, c), gate)
    /\ tripped' = IF InDrawdown(c) THEN "yes" ELSE tripped
    /\ \E q \in 0..lots :
          Approves(Order, Context(o, c), gate, q) /\ Fill(q, o)

\* A bar that opens at o and closes at c.
Execute(o, c) ==
    /\ phase = "execute"
    /\ bars < MaxBars
    /\ bars' = bars + 1
    /\ close' = c
    /\ NoOrder \/ Evaluated(o, c)
    /\ UNCHANGED <<side, lots>>

-----------------------------------------------------------------------------
(* FixedFractionSizer.size() *)

IsTarget(t) ==
    /\ 100 * Notional(t, close) <= MaxAsset * Equity(close)
    /\ 100 * Notional(t + 1, close) > MaxAsset * Equity(close)

Rebalance(t) ==
    \/ /\ t > qty
       /\ side' = "BUY" /\ lots' = t - qty
    \/ /\ t < qty
       /\ side' = "SELL" /\ lots' = qty - t
    \/ /\ t = qty
       /\ side' = "NONE" /\ lots' = 0

Hold == side' = "NONE" /\ lots' = 0

Decide ==
    /\ phase = "decide"
    /\ phase' = "execute"
    /\ \/ Hold                                                       \* HOLD
       \/ \E t \in 0..(Equity(close) \div 10000) :                   \* LONG
             IsTarget(t) /\ Rebalance(t)
       \/ Rebalance(0)                                               \* FLAT
    /\ UNCHANGED <<bars, close, account, peak, gate, tripped>>

Next == (\E o, c \in Prices : Execute(o, c)) \/ Decide

Spec == Init /\ [][Next]_vars

-----------------------------------------------------------------------------
\* Among the types: a pending sale never exceeds the holding.
TypeOK ==
    /\ phase \in {"execute", "decide", "failed"}
    /\ bars \in 0..MaxBars
    /\ close \in Prices
    /\ cash \in Nat /\ qty \in Nat
    /\ side \in {"BUY", "SELL", "NONE"}
    /\ lots \in Nat
    /\ side # "NONE" => lots > 0
    /\ phase = "execute" /\ side = "SELL" => lots <= qty
    /\ peak \in Nat \ {0}
    /\ gate \in {"OPEN", "CLOSED"}
    /\ tripped \in {"yes", "no"}

\* A purchase the risk manager approved never overdraws the account, although
\* costs are estimated by a sum and charged as a product, and the equity that
\* limits the purchase is that of a later price.
ApprovedIsPayable == phase # "failed"

\* Once an evaluation has seen a drawdown at the limit nothing is ever bought
\* again, however far the account recovers.
TripIsFinal == [][tripped = "yes" => qty' <= qty]_vars

\* A pending sale is refused only in a bar that closes in drawdown: neither an
\* open circuit nor its size ever stops it.
SaleExecutes ==
    phase = "execute" /\ phase' # phase /\ side = "SELL" /\ ~InDrawdown(close')
        => qty' = qty - lots

ExitsOnlyWaitForDrawdown == [][SaleExecutes]_vars

-----------------------------------------------------------------------------
(* What the documentation says and the code does not do *)

\* engine.py: "Structural no-look-ahead boundary"; ARCHITECTURE.md: orders
\* execute "from the next bar, eliminating a same-close decision/fill
\* assumption": what executes at an open does not depend on the close.
Approved(o, c, q) == Approves(Order, Context(o, c), gate, q)

NoLookAhead ==
    phase = "execute" /\ side # "NONE" =>
        \A o, c, d \in Prices : \A q \in 0..lots :
            Approved(o, c, q) <=> Approved(o, d, q)
=============================================================================
