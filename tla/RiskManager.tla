---------------------------- MODULE RiskManager ----------------------------
(***************************************************************************)
(* The decision of risk/manager.py (IndependentRiskManager.evaluate) and   *)
(* the prices and fees of execution/simulator.py (ExecutionSimulator), as  *)
(* operators for the programs that use them: PaperPortfolio and Backtest.  *)
(*                                                                         *)
(* Data.  Money is counted in units of 1/10000 of a price unit and rates   *)
(* are percentages, so that every amount below is an exact integer.        *)
(* Orders are market orders; quantities are whole lots and a limit of the  *)
(* code, an exact quotient there, allows the lots that fit under it.       *)
(* Prices are positive (Bar), so INVALID_PRICE never arises.               *)
(***************************************************************************)
EXTENDS Integers

CONSTANTS
    MaxAsset,      \* max_asset_allocation, in percent of equity
    MaxExposure,   \* max_portfolio_exposure, in percent of equity
    MaxNotional,   \* max_order_notional
    MaxDrawdown,   \* max_drawdown, in percent of the peak
    Slip,          \* half the spread and the slippage, in percent of the open
    Fee            \* taker fee, in percent of the traded notional

ASSUME RiskAssumption == /\ MaxAsset \in 1..100 /\ MaxExposure \in 1..100
                         /\ MaxNotional \in Nat /\ MaxDrawdown \in 1..100
                         /\ Slip \in 0..99 /\ Fee \in 0..99

\* What the code never checks: an order within the asset limit can be paid
\* with its costs.  True of the shipped configuration by a wide margin.
ASSUME CostAssumption == MaxAsset * (100 + Slip) * (100 + Fee) <= 1000000

\* q lots at price p
Notional(q, p) == q * p * 10000

\* execute() and apply_fill(): what a purchase costs and a sale brings.
BuyCost(q, p)   == q * p * (100 + Slip) * (100 + Fee)
SellGain(q, p)  == q * p * (100 - Slip) * (100 - Fee)

-----------------------------------------------------------------------------
(* RiskContext: price, cash, equity, value (of the asset), exposure,         *)
(* position, rate (estimated_cost_rate) and alarm, "yes" when daily loss,    *)
(* drawdown or the age of the data is past its limit.                        *)

\* Mutant: a drawdown or stale data rejects the order but leaves no trace.
MutGateForgotten(c, gate) == gate

\* _open_circuit(); nothing in the program closes the circuit again.
GateAfter(c, gate) == IF c.alarm = "yes" THEN "OPEN" ELSE gate

\* Mutant: only a part of the holding can be sold while trading is blocked.
MutReductionPartial(o, c) == o.side = "SELL" /\ o.qty < c.position

Reduction(o, c) == o.side = "SELL" /\ o.qty <= c.position

\* The reasons that reject an order whatever its size.
Rejected(o, c, gate) ==
    \/ c.alarm = "yes"
    \/ GateAfter(c, gate) = "OPEN" /\ ~Reduction(o, c)
    \/ o.side = "SELL" /\ o.qty > c.position

\* Mutants: the asset limit forgets what is already held; the limits on the
\* asset and the portfolio are not consulted.
MutFitsHeldForgotten(q, c) ==
    LET n == Notional(q, c.price)
    IN  /\ n <= MaxNotional
        /\ 100 * n <= MaxAsset * c.equity
        /\ 100 * (c.exposure + n) <= MaxExposure * c.equity
        /\ n * (100 + c.rate) <= 100 * c.cash
MutFitsCashOnly(q, c) == Notional(q, c.price) * (100 + c.rate) <= 100 * c.cash

\* The limits a purchase is cut down to.
Fits(q, c) ==
    LET n == Notional(q, c.price)
    IN  /\ n <= MaxNotional
        /\ 100 * (c.value + n) <= MaxAsset * c.equity
        /\ 100 * (c.exposure + n) <= MaxExposure * c.equity
        /\ n * (100 + c.rate) <= 100 * c.cash

\* evaluate() approves q lots of o; 0 is a rejection.
Approves(o, c, gate, q) ==
    IF Rejected(o, c, gate) THEN q = 0
    ELSE IF o.side = "SELL" THEN q = o.qty
    ELSE /\ q \in 0..o.qty
         /\ q = 0 \/ Fits(q, c)
         /\ \A r \in (q + 1)..o.qty : ~Fits(r, c)
=============================================================================
