---------------------------- MODULE PaperReport ----------------------------
(***************************************************************************)
(* The reports on the account of PaperPortfolio (paper/forward.py).  The   *)
(* daemon journals fills and, when it closes a candle, an equity point,    *)
(* and saves its state.  daily_snapshot(), in the daemon or in a command   *)
(* of the operator beside it, prints the saved state and what              *)
(* economic_metrics() works out of the journal with a cost basis of its    *)
(* own.  events() sorts by time and identifier, so fills of two assets may *)
(* change places; the trades of one asset keep their order.                *)
(***************************************************************************)
EXTENDS PaperPortfolio, SequencesExt

VARIABLES
    fills,   \* journal: fill, in the order of the journal
    point,   \* journal: the latest equity_snapshot, or None
    state,   \* the saved account, or None
    report   \* the account that a report in progress has read, or None

reportVars == <<fills, point, state, report>>

\* mark(): the price of one asset is known; the others are worth nothing and
\* have neither gained nor lost.
Mark(a, p) ==
    [asset |-> a, value |-> Notional(qty[a], p), equity |-> cash + Notional(qty[a], p),
     realized |-> realized, unrealized |-> Notional(qty[a], p) - cost[a]]

\* Mutant: the saved equity values the asset of the candle only.
MutSnapshot ==
    [qty |-> qty, cost |-> cost, cash |-> cash, realized |-> realized,
     equity |-> cash + Notional(qty[at], price'[at])]

\* _persist_state(), with _latest_equity()
Snapshot ==
    [qty |-> qty, cost |-> cost, cash |-> cash, realized |-> realized, equity |-> Equity']

InitReport ==
    /\ Init
    /\ fills = <<>> /\ point = None /\ state = None /\ report = None

\* The fill of the waiting order, journaled before apply_fill().
Filled(a, p) ==
    LET o == pending[a]
        q == CHOOSE n \in 0..o.qty : Approves(o, Context(a, p), gate, n)
    IN  IF o = None THEN <<>>
        ELSE IF q = 0 THEN <<>>
        ELSE <<[asset |-> a, side |-> o.side, qty |-> q, price |-> p]>>

OpenCandle(a, p) ==
    /\ Open(a, p)
    /\ fills' = fills \o Filled(a, p)
    /\ UNCHANGED <<point, state, report>>

CloseCandle(p) ==
    /\ Close(p)
    /\ point' = Mark(at, p)
    /\ state' = Snapshot
    /\ UNCHANGED <<fills, report>>

KillByHand ==
    /\ KillSwitch
    /\ UNCHANGED reportVars

\* daily_snapshot() reads the state, then the journal; the daemon may go on
\* in between.
ReadState ==
    /\ report = None /\ state # None
    /\ report' = state
    /\ UNCHANGED <<vars, fills, point, state>>

WriteReport ==
    /\ report # None
    /\ report' = None
    /\ UNCHANGED <<vars, fills, point, state>>

NextReport ==
    \/ \E a \in Assets, p \in Prices : OpenCandle(a, p)
    \/ \E p \in Prices : CloseCandle(p)
    \/ KillByHand
    \/ ReadState
    \/ WriteReport

ReportSpec == InitReport /\ [][NextReport]_<<vars, reportVars>>

-----------------------------------------------------------------------------
(* economic_metrics() *)

NoTrades == [qty |-> [a \in Assets |-> 0], cost |-> [a \in Assets |-> 0], pnl |-> 0]

\* Mutant: what is sold is costed at the price of the sale.
MutTraded(b, f) ==
    IF f.side = "BUY"
    THEN [b EXCEPT !.qty[f.asset] = @ + f.qty, !.cost[f.asset] = @ + BuyCost(f.qty, f.price)]
    ELSE [b EXCEPT !.qty[f.asset] = @ - f.qty, !.cost[f.asset] = @ - SellGain(f.qty, f.price)]

\* One fill: a purchase with its fee joins the basis, a sale takes its share
\* of it; a sale without a position is passed over.
Traded(b, f) ==
    LET held == b.qty[f.asset]
        sold == IF f.qty < held THEN f.qty ELSE held
        part == (b.cost[f.asset] * sold) \div held
    IN  IF f.side = "BUY"
        THEN [b EXCEPT !.qty[f.asset]  = @ + f.qty,
                       !.cost[f.asset] = @ + BuyCost(f.qty, f.price)]
        ELSE IF held = 0 THEN b
        ELSE [b EXCEPT !.qty[f.asset]  = @ - sold,
                       !.cost[f.asset] = @ - part,
                       !.pnl = @ + SellGain(sold, f.price) - part]

Trades(s) == FoldLeft(Traded, NoTrades, s)

\* reconcile_accounting(): the reasons for UNSAFE.
Inconsistent(s) ==
    \/ s.cash < 0
    \/ \E a \in Assets : s.qty[a] < 0
    \/ s.equity # s.cash + Total([a \in Assets |-> Notional(s.qty[a], price[a])])

Agrees(s, b) == s.qty = b.qty /\ s.cost = b.cost /\ s.realized = b.pnl

-----------------------------------------------------------------------------
(* Properties *)

\* The account of a report is the one its trades add up to, apart from fills
\* newer than the state it has read: two computations of the cost basis agree,
\* and a report made while the daemon works is late but never wrong.
ReportIsPast ==
    \A s \in {state, report} \ {None} :
        \E n \in 0..Len(fills) : Agrees(s, Trades(SubSeq(fills, 1, n)))

\* Between candles the state is the account of all journaled fills and passes
\* its reconciliation; the equity point of the last candle leaves out what the
\* other assets are worth but not what they have gained, so it is short of the
\* state and does not add up by exactly their worth and their cost.
PointIsPartial ==
    LET others == Assets \ {point.asset}
        OfOthers(f) == SumFunctionOnSet(f, others)
        worth == [a \in Assets |-> Notional(qty[a], price[a])]
    IN  at = None /\ state # None =>
            /\ Agrees(state, Trades(fills)) /\ ~Inconsistent(state)
            /\ state.equity - point.equity = OfOthers(worth)
            /\ Cash * 10000 + point.realized + point.unrealized - point.equity = OfOthers(cost)
=============================================================================
