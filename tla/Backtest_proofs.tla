-------------------------- MODULE Backtest_proofs --------------------------
(***************************************************************************)
(* What a backtest keeps for any strategy, prices, number of bars, limits  *)
(* and costs: its order can be paid or sold, and a drawdown ends purchases *)
(* for good.  IInv adds to the types that a seen drawdown is an open gate. *)
(***************************************************************************)
EXTENDS Backtest, RiskManager_proofs

USE RiskAssumption, BacktestAssumption DEF RiskAssumption, BacktestAssumption

TripOpens == tripped = "yes" => gate = "OPEN"

IInv == TypeOK /\ ApprovedIsPayable /\ TripOpens

\* The equity of the account, at any price, is a natural number.
LEMMA EquityNat ==
    ASSUME TypeOK, NEW c \in Prices
    PROVE  Notional(qty, c) \in Nat /\ Equity(c) \in Nat
<1>1. qty \in Nat /\ cash \in Nat /\ c \in Nat
  BY DEF TypeOK
<1>2. Notional(qty, c) \in Nat
  BY <1>1, Amounts
<1>. QED
  BY <1>1, <1>2 DEF Equity

\* No approved purchase of the pending order is refused.
LEMMA ApprovedPurchase ==
    ASSUME TypeOK, NEW o \in Prices, NEW c \in Prices, NEW q \in Nat,
           q > 0, side = "BUY", Approves(Order, Context(o, c), gate, q)
    PROVE  BuyCost(q, o) <= cash
<1>. DEFINE x == Context(o, c)
<1>1. /\ x.cash = cash /\ x.price = o
      /\ x.value = Notional(qty, c)
      /\ x.equity = x.cash + x.value
  BY DEF Context, Equity
<1>2. Order.side = "BUY"
  BY DEF Order
<1>3. Fits(q, x)
  BY <1>2 DEF Approves
<1>4. x.cash \in Nat /\ x.value \in Nat /\ x.price \in Nat
  BY <1>1, EquityNat DEF TypeOK
<1>. HIDE DEF x
<1>5. BuyCost(q, x.price) <= x.cash
  BY <1>1, <1>3, <1>4, FitsIsPayable
<1>. QED
  BY <1>1, <1>5

\* A pending sale is approved whole, or rejected because of the drawdown.
LEMMA ApprovedSale ==
    ASSUME TypeOK, phase = "execute", NEW o \in Prices, NEW c \in Prices,
           NEW q \in 0..lots, side = "SELL",
           Approves(Order, Context(o, c), gate, q)
    PROVE  q = lots \/ (q = 0 /\ InDrawdown(c))
<1>1. /\ Order.side = "SELL" /\ Order.qty = lots
      /\ Context(o, c).position = qty
      /\ Context(o, c).alarm = IF InDrawdown(c) THEN "yes" ELSE "no"
  BY DEF Order, Context
<1>2. lots <= qty
  BY DEF TypeOK
<1>3. Rejected(Order, Context(o, c), gate) => InDrawdown(c)
  BY <1>1, <1>2 DEF Rejected, Reduction, TypeOK
<1>. QED
  BY <1>1, <1>3 DEF Approves

\* The order of the bar meets the market: invariant, no purchase after a
\* drawdown, and no sale refused without one.
LEMMA ExecuteStep ==
    ASSUME IInv, NEW o \in Prices, NEW c \in Prices, Execute(o, c)
    PROVE  /\ IInv'
           /\ tripped = "yes" => qty' <= qty
           /\ side = "SELL" /\ ~InDrawdown(c) => qty' = qty - lots
<1>. USE DEF IInv, TypeOK, ApprovedIsPayable, TripOpens
<1>1. /\ phase = "execute" /\ bars' \in 0..MaxBars /\ close' = c
      /\ UNCHANGED <<side, lots>>
  BY DEF Execute
<1>2. CASE NoOrder
  BY <1>1, <1>2 DEF NoOrder, account
<1>3. CASE Evaluated(o, c)
  <2>1. side \in {"BUY", "SELL"} /\ lots \in Nat /\ lots > 0
    BY <1>3 DEF Evaluated
  <2>2. peak' \in Nat \ {0}
    BY <1>3, EquityNat DEF Evaluated, PeakAfter
  <2>3. gate' \in {"OPEN", "CLOSED"} /\ tripped' \in {"yes", "no"}
        /\ gate' = GateAfter(Context(o, c), gate)
    BY <1>3 DEF Evaluated, GateAfter
  <2>4. TripOpens'
    BY <1>3, <2>3 DEF Evaluated, GateAfter, Context
  <2>5. PICK q \in 0..lots :
           Approves(Order, Context(o, c), gate, q) /\ Fill(q, o)
    BY <1>3 DEF Evaluated
  <2>6. q \in Nat /\ BuyCost(q, o) \in Nat /\ SellGain(q, o) \in Nat
    BY <2>1, <2>5, Amounts
  <2>7. CASE q = 0
    <3>1. phase' = "decide" /\ cash' = cash /\ qty' = qty
      BY <2>5, <2>7 DEF Fill, account
    <3>2. side = "SELL" => InDrawdown(c)
      BY <1>1, <2>1, <2>5, <2>7, ApprovedSale
    <3>. QED
      BY <1>1, <2>1, <2>2, <2>3, <2>4, <3>1, <3>2
  <2>8. CASE q > 0 /\ side = "BUY"
    <3>1. BuyCost(q, o) <= cash
      BY <2>5, <2>6, <2>8, ApprovedPurchase
    <3>2. /\ phase' = "decide"
          /\ cash' = cash - BuyCost(q, o)
          /\ qty' = qty + q
      BY <2>5, <2>6, <2>8, <3>1 DEF Fill
    <3>3. gate # "OPEN"
      BY <2>5, <2>8 DEF Approves, Rejected, Reduction, GateAfter, Order
    <3>. QED
      BY <1>1, <2>1, <2>2, <2>3, <2>4, <2>6, <2>8, <3>1, <3>2, <3>3
  <2>9. CASE q > 0 /\ side = "SELL"
    <3>1. q = lots
      BY <1>1, <2>5, <2>9, ApprovedSale
    <3>2. /\ phase' = "decide"
          /\ cash' = cash + SellGain(q, o)
          /\ qty' = qty - q
      BY <2>5, <2>9 DEF Fill
    <3>. QED
      BY <1>1, <2>1, <2>2, <2>3, <2>4, <2>6, <2>9, <3>1, <3>2
  <2>. QED
    BY <2>1, <2>6, <2>7, <2>8, <2>9
<1>. QED
  BY <1>2, <1>3 DEF Execute

LEMMA DecideStep == ASSUME IInv, Decide PROVE IInv' /\ UNCHANGED qty
<1>. USE DEF IInv, TypeOK, ApprovedIsPayable, TripOpens
<1>1. /\ phase = "decide" /\ phase' = "execute"
      /\ UNCHANGED <<bars, close, cash, qty, peak, gate, tripped>>
  BY DEF Decide, account
<1>2. CASE Hold
  BY <1>1, <1>2 DEF Hold
<1>3. ASSUME NEW t \in Nat, Rebalance(t)
      PROVE  IInv'
  BY <1>1, <1>3 DEF Rebalance
<1>4. Equity(close) \in Nat
  BY EquityNat
<1>. QED
  BY <1>1, <1>2, <1>3, <1>4 DEF Decide

LEMMA InitInv == Init => IInv
  BY DEF Init, IInv, TypeOK, ApprovedIsPayable, TripOpens

LEMMA StepInv == IInv /\ [Next]_vars => IInv'
<1>. SUFFICES ASSUME IInv, [Next]_vars PROVE IInv'
  OBVIOUS
<1>1. CASE UNCHANGED vars
  BY <1>1 DEF vars, account, IInv, TypeOK, ApprovedIsPayable, TripOpens
<1>. QED
  BY <1>1, ExecuteStep, DecideStep DEF Next

LEMMA Invariance == Spec => []IInv
  BY InitInv, StepInv, PTL DEF Spec

-----------------------------------------------------------------------------
\* Cash and holding stay natural numbers, a pending sale is covered.
THEOREM TypeCorrect == Spec => []TypeOK
  BY Invariance, PTL DEF IInv

\* apply_fill() never refuses what the risk manager approved.
THEOREM Payable == Spec => []ApprovedIsPayable
  BY Invariance, PTL DEF IInv

\* After a drawdown at the limit nothing is bought.
THEOREM TripFinal == Spec => TripIsFinal
<1>1. ASSUME IInv, [Next]_vars
      PROVE  [tripped = "yes" => qty' <= qty]_vars
  <2>1. CASE UNCHANGED vars
    BY <2>1
  <2>2. CASE Decide
    BY <1>1, <2>2, DecideStep DEF IInv, TypeOK
  <2>3. CASE \E o, c \in Prices : Execute(o, c)
    BY <1>1, <2>3, ExecuteStep
  <2>. QED
    BY <1>1, <2>1, <2>2, <2>3 DEF Next
<1>. QED
  BY <1>1, Invariance, PTL DEF Spec, TripIsFinal

\* A pending sale executes whole unless the bar closes in drawdown.
THEOREM Exits == Spec => ExitsOnlyWaitForDrawdown
<1>1. ASSUME IInv, [Next]_vars
      PROVE  [SaleExecutes]_vars
  <2>1. CASE UNCHANGED vars
    BY <2>1
  <2>2. CASE Decide
    BY <2>2 DEF Decide, SaleExecutes
  <2>3. CASE \E o, c \in Prices : Execute(o, c)
    <3>1. PICK o \in Prices, c \in Prices : Execute(o, c)
      BY <2>3
    <3>2. close' = c
      BY <3>1 DEF Execute
    <3>. QED
      BY <1>1, <3>1, <3>2, ExecuteStep DEF SaleExecutes
  <2>. QED
    BY <1>1, <2>1, <2>2, <2>3 DEF Next
<1>. QED
  BY <1>1, Invariance, PTL DEF Spec, ExitsOnlyWaitForDrawdown
=============================================================================
