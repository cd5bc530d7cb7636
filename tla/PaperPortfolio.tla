--------------------------- MODULE PaperPortfolio ---------------------------
(***************************************************************************)
(* The money of the paper engine: PortfolioAccount (portfolio/             *)
(* accounting.py) under the orders that process() sizes and the risk       *)
(* context that _execute_pending() builds, while the process lives.  A     *)
(* candle of an asset is two steps, its open (the waiting order executes)  *)
(* and its close (the next order is decided), with any price in between    *)
(* and any order of the assets.  Crashes are the subject of PaperEngine.   *)
(* A sale always sells the whole holding (SalesCovered there).             *)
(***************************************************************************)
EXTENDS RiskManager, FiniteSets, Functions

CONSTANTS
    Assets,
    Prices,      \* the prices an asset can have
    Cash,        \* initial_cash, in price units
    MaxCandles,  \* bound: candles processed
    None

ASSUME PortfolioAssumption ==
    /\ IsFiniteSet(Assets)
    /\ Prices \subseteq Nat \ {0}
    /\ Cash \in Nat \ {0}
    /\ MaxCandles \in Nat
    /\ None \notin Assets
    /\ "dead" \notin Assets \cup {None}

VARIABLES
    at,       \* the asset whose candle is between open and close; "dead" when
              \* apply_fill() refused a fill
    price,    \* the latest price of each asset
    cash, qty,
    cost,     \* quantity * average_entry_price
    realized, \* realized_pnl
    pending,  \* per asset, the order that waits: side and quantity, or None
    gate,     \* OPEN when kill switch or circuit blocks
    candles,  \* auxiliary: candles begun
    peak      \* auxiliary: the highest equity so far

account == <<cash, qty, cost, realized>>
vars    == <<at, price, account, pending, gate, candles, peak>>

Total(f) == SumFunction(f)

\* The worth of the account with every asset at its latest price.
Equity == cash + Total([a \in Assets |-> Notional(qty[a], price[a])])

Init ==
    /\ at = None
    /\ price \in [Assets -> Prices]
    /\ cash = Cash * 10000
    /\ qty = [a \in Assets |-> 0] /\ cost = [a \in Assets |-> 0] /\ realized = 0
    /\ pending = [a \in Assets |-> None]
    /\ gate = "CLOSED"
    /\ candles = 0
    /\ peak = cash

KillSwitch ==
    /\ gate = "CLOSED"
    /\ gate' = "OPEN"
    /\ UNCHANGED <<at, price, account, pending, candles, peak>>

\* _execute_pending(): only the asset of the candle is marked.
Context(a, p) ==
    [price |-> p, cash |-> cash, equity |-> cash + Notional(qty[a], p),
     value |-> Notional(qty[a], p), exposure |-> Notional(qty[a], p),
     position |-> qty[a], rate |-> 0, alarm |-> "no"]

\* apply_fill(), BUY
Buy(a, q, p) ==
    IF BuyCost(q, p) > cash
    THEN at' = "dead" /\ UNCHANGED account
    ELSE /\ at' = a
         /\ cash' = cash - BuyCost(q, p)
         /\ qty' = [qty EXCEPT ![a] = @ + q]
         /\ cost' = [cost EXCEPT ![a] = @ + BuyCost(q, p)]
         /\ UNCHANGED realized

\* Mutant: the fee of a sale is taken from the cash but not from the result.
MutProfitGross(a, q, p) == q * p * (100 - Slip) * 100 - cost[a]

Profit(a, q, p) == SellGain(q, p) - cost[a]

\* apply_fill(), SELL of the whole holding
Sell(a, q, p) ==
    /\ at' = a
    /\ cash' = cash + SellGain(q, p)
    /\ qty' = [qty EXCEPT ![a] = @ - q]
    /\ cost' = [cost EXCEPT ![a] = 0]
    /\ realized' = realized + Profit(a, q, p)

\* Mutant: the order is read but not removed.
MutPeeked(a) == pending

\* pending.pop()
Popped(a) == [pending EXCEPT ![a] = None]

Open(a, p) ==
    LET o == pending[a]
    IN  /\ at = None
        /\ candles < MaxCandles
        /\ candles' = candles + 1
        /\ price' = [price EXCEPT ![a] = p]
        /\ pending' = Popped(a)
        /\ \/ /\ o = None
              /\ at' = a
              /\ UNCHANGED <<account, gate>>
           \/ /\ o # None
              /\ gate' = GateAfter(Context(a, p), gate)
              /\ \E q \in 0..o.qty :
                    /\ Approves(o, Context(a, p), gate, q)
                    /\ \/ q = 0 /\ at' = a /\ UNCHANGED account
                       \/ q > 0 /\ o.side = "BUY" /\ Buy(a, q, p)
                       \/ q > 0 /\ o.side = "SELL" /\ Sell(a, q, p)
        /\ UNCHANGED peak

\* process(): a purchase is sized with the free cash and the close.
Affordable(q, p) == 100 * Notional(q, p) <= MaxAsset * cash

Close(p) ==
    /\ at \in Assets
    /\ at' = None
    /\ price' = [price EXCEPT ![at] = p]
    /\ \/ \E q \in 1..(cash \div 10000) :
             /\ Affordable(q, p) /\ ~Affordable(q + 1, p)
             /\ pending' = [pending EXCEPT ![at] = [side |-> "BUY", qty |-> q]]
       \/ /\ qty[at] > 0
          /\ pending' = [pending EXCEPT ![at] = [side |-> "SELL", qty |-> qty[at]]]
       \/ UNCHANGED pending
    /\ UNCHANGED <<account, gate, candles>>
    /\ peak' = IF Equity' > peak THEN Equity' ELSE peak

Next == \/ \E a \in Assets, p \in Prices : Open(a, p)
        \/ \E p \in Prices : Close(p)
        \/ KillSwitch

Spec == Init /\ [][Next]_vars

-----------------------------------------------------------------------------
PendingOrder == [side : {"BUY", "SELL"}, qty : Nat \ {0}]

\* Cash and holdings are never negative, and every waiting sale is the whole
\* holding it will meet.
AccountOK ==
    /\ at \in Assets \cup {None, "dead"}
    /\ price \in [Assets -> Prices]
    /\ cash \in Nat
    /\ qty \in [Assets -> Nat]
    /\ cost \in [Assets -> Nat]
    /\ realized \in Int
    /\ pending \in [Assets -> PendingOrder \cup {None}]
    /\ \A a \in Assets : pending[a] # None /\ pending[a].side = "SELL"
                            => pending[a].qty = qty[a]
    /\ gate \in {"OPEN", "CLOSED"}
    /\ candles \in 0..MaxCandles

TypeOK == AccountOK /\ peak \in Nat

\* What the account is worth at cost is the initial cash and the realized
\* result: the identity behind every equity snapshot
\* (equity = initial cash + realized_pnl + unrealized_pnl).
Conservation == cash + Total(cost) = Cash * 10000 + realized

\* apply_fill() never refuses a purchase that the risk manager approved.
ApprovedIsPayable == at # "dead"

Bought(a) == qty'[a] > qty[a]

\* After a purchase the holding, at the price of the purchase, is within
\* max_asset_allocation of the whole account as it was before the purchase and
\* its costs, although the risk manager sees only a part of it.
AllocationKept ==
    \A a \in Assets : Bought(a) =>
        100 * Notional(qty'[a], price'[a])
            <= MaxAsset * (cash + Total([b \in Assets |-> Notional(qty[b], price'[b])]))

AllocationCapped == [][AllocationKept]_vars

-----------------------------------------------------------------------------
(* What the documentation says and the code does not do *)

\* FORWARD_EXPERIMENT_V1.md: "maximum portfolio exposure: 60%; ... drawdown:
\* 15%": no purchase leaves the account above that exposure, and none is made
\* in a deeper drawdown.
LimitsKept ==
    LET equity == cash + Total([b \in Assets |-> Notional(qty[b], price'[b])])
    IN  \A a \in Assets : Bought(a) =>
            /\ 100 * Total([b \in Assets |-> Notional(qty'[b], price'[b])])
                  <= MaxExposure * equity
            /\ 100 * (peak - equity) < MaxDrawdown * peak

FrozenLimits == [][LimitsKept]_vars
=============================================================================
