------------------------- MODULE RiskManager_proofs -------------------------
(***************************************************************************)
(* That the risk manager has one answer to every order, and what an order  *)
(* it approves costs, for both programs that execute one.  A purchase      *)
(* within max_asset_allocation of an account whose equity is its cash and  *)
(* the value of the asset is worth at most that share of the free cash,    *)
(* and by CostAssumption the share grown by the costs is at most the       *)
(* whole.                                                                  *)
(***************************************************************************)
EXTENDS RiskManager, FiniteSetTheorems, WellFoundedInduction, TLAPS

-----------------------------------------------------------------------------
(* The decision *)

Minimal(T, C) == T \in C /\ \A U \in C : U \subseteq T => U = T

\* Among some subsets of a finite set one has no other below it.
LEMMA MinimalSubset ==
    ASSUME NEW S, NEW C, IsFiniteSet(S), C # {}, C \subseteq SUBSET S
    PROVE  \E T : Minimal(T, C)
<1>1. FiniteSubsetsOf(S) = SUBSET S
  BY FS_FiniteSubsetsOfFinite
<1>2. \E T \in C : \A U \in C : ~(<<U, T>> \in StrictSubsetOrdering(S))
  BY <1>1, FS_StrictSubsetOrderingWellFounded, WFMin
<1>. QED
  BY <1>2 DEF StrictSubsetOrdering, Minimal

\* A set of naturals up to n that is not empty has a largest element.
LEMMA Largest ==
    ASSUME NEW n \in Nat, NEW S \in SUBSET (0..n), S # {}
    PROVE  \E x \in S : \A y \in S : y <= x
<1>. DEFINE Beyond(x, T) == \A y : y \in T <=> y \in S /\ x < y
            C == {T \in SUBSET S : \E x \in S : Beyond(x, T)}
<1>1. IsFiniteSet(S)
  BY FS_Interval, FS_Subset, n \in Int, 0 \in Int
<1>2. \A x : Beyond(x, {y \in S : x < y})
  OBVIOUS
<1>3. \A x \in S : {y \in S : x < y} \in C
  BY <1>2
<1>4. C # {} /\ C \subseteq SUBSET S
  BY <1>3
<1>5. PICK T : Minimal(T, C)
  <2>. HIDE DEF C
  <2>. QED
    BY <1>1, <1>4, MinimalSubset
<1>6. PICK x \in S : Beyond(x, T)
  BY <1>5 DEF Minimal
<1>7. ASSUME NEW y \in S PROVE y <= x
  <2>. SUFFICES ASSUME x < y PROVE FALSE
    OBVIOUS
  <2>. DEFINE U == {z \in S : y < z}
  <2>1. U \in C /\ y \in T /\ y \notin U
    BY <1>3, <1>6
  <2>2. \A z \in U : z \in T
    BY <1>6
  <2>3. U \subseteq T
    BY <2>2
  <2>. HIDE DEF C, U
  <2>. QED
    BY <1>5, <2>1, <2>3 DEF Minimal
<1>. QED
  BY <1>7

LEMMA OneAnswer ==
    ASSUME NEW o, NEW c, NEW g, o.qty \in Nat,
           NEW q \in 0..o.qty, Approves(o, c, g, q),
           NEW r \in 0..o.qty, Approves(o, c, g, r)
    PROVE  q = r
<1>1. CASE Rejected(o, c, g) \/ o.side = "SELL"
  BY <1>1 DEF Approves
<1>2. CASE ~Rejected(o, c, g) /\ o.side # "SELL"
  <2>1. /\ q = 0 \/ Fits(q, c)
        /\ r = 0 \/ Fits(r, c)
        /\ \A m \in (q + 1)..o.qty : ~Fits(m, c)
        /\ \A m \in (r + 1)..o.qty : ~Fits(m, c)
    BY <1>2 DEF Approves
  <2>2. q \in Nat /\ r \in Nat /\ q <= o.qty /\ r <= o.qty
    OBVIOUS
  <2>3. CASE q < r
    <3>1. r \in (q + 1)..o.qty /\ r # 0
      BY <2>2, <2>3
    <3>. QED
      BY <2>1, <3>1
  <2>4. CASE r < q
    <3>1. q \in (r + 1)..o.qty /\ q # 0
      BY <2>2, <2>4
    <3>. QED
      BY <2>1, <3>1
  <2>. QED
    BY <2>2, <2>3, <2>4
<1>. QED
  BY <1>1, <1>2

\* evaluate() answers every order in every context, and in one way: what the
\* limits leave of a purchase is the most that fits all of them, though the
\* code cuts it down to one after the other.
THEOREM OneDecision ==
    ASSUME NEW o, NEW c, NEW g, o.qty \in Nat
    PROVE  \E q \in 0..o.qty :
              /\ Approves(o, c, g, q)
              /\ \A r \in 0..o.qty : Approves(o, c, g, r) => r = q
<1>1. CASE Rejected(o, c, g)
  <2>1. Approves(o, c, g, 0) /\ 0 \in 0..o.qty
    BY <1>1 DEF Approves
  <2>. QED
    BY <2>1, OneAnswer
<1>2. CASE ~Rejected(o, c, g) /\ o.side = "SELL"
  <2>1. Approves(o, c, g, o.qty) /\ o.qty \in 0..o.qty
    BY <1>2 DEF Approves
  <2>. QED
    BY <2>1, OneAnswer
<1>3. CASE ~Rejected(o, c, g) /\ o.side # "SELL"
  <2>. DEFINE S == {q \in 0..o.qty : q = 0 \/ Fits(q, c)}
  <2>1. S \in SUBSET (0..o.qty) /\ 0 \in S
    OBVIOUS
  <2>2. PICK x \in S : \A y \in S : y <= x
    BY <2>1, Largest
  <2>3. x \in 0..o.qty /\ (x = 0 \/ Fits(x, c))
    OBVIOUS
  <2>4. ASSUME NEW m \in (x + 1)..o.qty, Fits(m, c) PROVE FALSE
    <3>1. m \in S
      BY <2>3, <2>4
    <3>. QED
      BY <2>2, <2>3, <3>1
  <2>5. Approves(o, c, g, x)
    BY <1>3, <2>3, <2>4 DEF Approves
  <2>. QED
    BY <2>3, <2>5, OneAnswer
<1>. QED
  BY <1>1, <1>2, <1>3

-----------------------------------------------------------------------------
(* Costs *)

USE RiskAssumption, CostAssumption DEF RiskAssumption, CostAssumption

\* The product of natural numbers is monotone.
LEMMA ProductMonotone ==
    ASSUME NEW x \in Nat, NEW y \in Nat, NEW k \in Nat, x <= y
    PROVE  x * k \in Nat /\ x * k <= y * k
  OBVIOUS

\* If a share of s hundredths with costs of k / 10000 is at most the whole,
\* an amount x within that share of c costs at most c.
LEMMA ShareIsPayable ==
    ASSUME NEW x \in Nat, NEW s \in Nat \ {0}, NEW k \in Nat, NEW c \in Nat,
           s * k <= 1000000, x * 1000000 <= s * c
    PROVE  x * k <= c
<1>1. x * (s * k) <= x * 1000000
  BY ProductMonotone, s * k \in Nat
<1>2. x * (s * k) = s * (x * k)
  OBVIOUS
<1>3. s * (x * k) <= s * c
  BY <1>1, <1>2
<1>4. x * k \in Nat /\ s * (x * k) \in Nat /\ s * c \in Nat
  OBVIOUS
<1>5. SUFFICES ASSUME x * k >= c + 1 PROVE FALSE
  BY <1>4
<1>6. s * (c + 1) <= s * (x * k)
  BY <1>4, <1>5, ProductMonotone
<1>7. s * (c + 1) = s * c + s
  OBVIOUS
<1>. QED
  BY <1>3, <1>4, <1>6, <1>7

\* Values, costs and gains are natural numbers.
LEMMA Amounts ==
    ASSUME NEW q \in Nat, NEW p \in Nat
    PROVE  /\ Notional(q, p) \in Nat
           /\ BuyCost(q, p) \in Nat
           /\ SellGain(q, p) \in Nat
<1>1. q * p \in Nat
  OBVIOUS
<1>2. 100 + Slip \in Nat /\ 100 + Fee \in Nat /\ 100 - Slip \in Nat /\ 100 - Fee \in Nat
  OBVIOUS
<1>3. /\ q * p * (100 + Slip) \in Nat
      /\ q * p * (100 - Slip) \in Nat
  BY <1>1, <1>2
<1>. QED
  BY <1>1, <1>2, <1>3 DEF Notional, BuyCost, SellGain

\* What a purchase within the limits costs, the account can pay: at the price
\* c.price, whatever price the holding is valued at.
LEMMA FitsIsPayable ==
    ASSUME NEW c, c.cash \in Nat, c.value \in Nat, c.equity = c.cash + c.value,
           c.price \in Nat, NEW q \in Nat, Fits(q, c)
    PROVE  BuyCost(q, c.price) <= c.cash
<1>. DEFINE x == q * c.price  v == c.value  k == (100 + Slip) * (100 + Fee)
<1>1. x \in Nat /\ v \in Nat /\ k \in Nat /\ c.cash \in Nat
  OBVIOUS
<1>2. 100 * (v + x * 10000) <= MaxAsset * (c.cash + v)
  BY DEF Fits, Notional
<1>3. MaxAsset * v <= 100 * v
  BY <1>1
<1>4. MaxAsset * (c.cash + v) = MaxAsset * c.cash + MaxAsset * v
  BY <1>1
<1>5. MaxAsset * c.cash \in Nat /\ MaxAsset * v \in Nat
  BY <1>1
<1>. HIDE DEF x, v
<1>6. x * 1000000 <= MaxAsset * c.cash
  BY <1>1, <1>2, <1>3, <1>4, <1>5
<1>7. MaxAsset * k = MaxAsset * (100 + Slip) * (100 + Fee)
  OBVIOUS
<1>. HIDE DEF k
<1>8. MaxAsset * k <= 1000000
  BY <1>7
<1>9. MaxAsset \in Nat \ {0}
  OBVIOUS
<1>10. x * k <= c.cash
  BY <1>1, <1>6, <1>8, <1>9, ShareIsPayable
<1>11. BuyCost(q, c.price) = x * (100 + Slip) * (100 + Fee)
  BY DEF BuyCost, x
<1>12. x * (100 + Slip) * (100 + Fee) = x * k
  BY <1>1 DEF k
<1>. QED
  BY <1>10, <1>11, <1>12
=============================================================================
