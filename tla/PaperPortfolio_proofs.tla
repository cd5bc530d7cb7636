----------------------- MODULE PaperPortfolio_proofs -----------------------
(***************************************************************************)
(* The money of PaperPortfolio and the reports of PaperReport, for any     *)
(* assets, prices, cash and limits that satisfy CostAssumption (the lemmas *)
(* of RiskManager_proofs), while any number of orders wait.                *)
(*                                                                         *)
(* Sums over the assets and the trades of a journal are folds, which the   *)
(* library defines by a table over all subsets.  What the fold of a larger *)
(* set has is shown from a smallest set for which it fails: the subsets of *)
(* a finite set are well founded.                                          *)
(***************************************************************************)
EXTENDS PaperReport, RiskManager_proofs, FiniteSetTheorems, SequenceTheorems

-----------------------------------------------------------------------------
(* Folds, and sums *)

\* A fold takes the elements of a set one by one: a sum in any order, the
\* trades of a sequence from the last index down.
Picked(k, s)         == IF k = "sum" THEN CHOOSE x \in s : TRUE ELSE Max(s)
Start(k)             == IF k = "sum" THEN 0 ELSE NoTrades
Combined(k, f, x, v) == IF k = "sum" THEN f[x] + v ELSE Traded(v, f[x])

\* g is the table of what the fold has on the subsets of T.
Table(k, f, T, g) ==
    g = [s \in SUBSET T |-> IF s = {} THEN Start(k)
                            ELSE Combined(k, f, Picked(k, s), g[s \ {Picked(k, s)}])]

Pickable(k, S) == \A s \in SUBSET S : s # {} => Picked(k, s) \in s

\* The two instances as the library writes them.
SumTable(f, T, g) ==
    g = [s \in SUBSET T |-> IF s = {} THEN 0
            ELSE f[CHOOSE x \in s : TRUE] + g[s \ {CHOOSE x \in s : TRUE}]]
TradeTable(f, T, g) ==
    g = [s \in SUBSET T |-> IF s = {} THEN NoTrades
            ELSE Traded(g[s \ {Max(s)}], f[Max(s)])]

LEMMA SumIsTable ==
    ASSUME NEW f, NEW S
    PROVE  SumFunctionOnSet(f, S) = (CHOOSE g : SumTable(f, S, g))[S]
  BY DEF SumFunctionOnSet, FoldFunctionOnSet, MapThenFoldSet, SumTable

LEMMA TradesIsTable ==
    ASSUME NEW f
    PROVE  Trades(f) = (CHOOSE g : TradeTable(f, DOMAIN f, g))[DOMAIN f]
  BY DEF Trades, FoldLeft, MapThenFoldSet, TradeTable

LEMMA Tables ==
    ASSUME NEW f, NEW T, NEW g
    PROVE  /\ SumTable(f, T, g) <=> Table("sum", f, T, g)
           /\ TradeTable(f, T, g) <=> Table("trades", f, T, g)
  BY DEF SumTable, TradeTable, Table, Start, Combined, Picked

\* The entry of a subset in its table.
LEMMA TableAt ==
    ASSUME NEW k, NEW f, NEW T, NEW g, Table(k, f, T, g), NEW s \in SUBSET T
    PROVE  g[s] = IF s = {} THEN Start(k)
                  ELSE Combined(k, f, Picked(k, s), g[s \ {Picked(k, s)}])
  BY DEF Table

\* Two tables agree where both are defined and the values are the same.
LEMMA TablesAgree ==
    ASSUME NEW k, NEW f, NEW e, NEW S, NEW T, NEW U, NEW g, NEW h,
           IsFiniteSet(S), Pickable(k, S), T \subseteq S, U \subseteq S,
           \A x : x \in T /\ x \in U => f[x] = e[x],
           Table(k, f, T, g), Table(k, e, U, h)
    PROVE  \A s \in SUBSET S : s \subseteq T /\ s \subseteq U => g[s] = h[s]
<1>. DEFINE C == {s \in SUBSET S : s \subseteq T /\ s \subseteq U /\ g[s] # h[s]}
<1>. SUFFICES ASSUME C # {} PROVE FALSE
  OBVIOUS
<1>1. PICK s \in C : \A u \in C : u \subseteq s => u = s
  <2>1. C \in SUBSET SUBSET S
    OBVIOUS
  <2>. HIDE DEF C
  <2>. QED
    BY <2>1, MinimalSubset DEF Minimal
<1>. DEFINE p == Picked(k, s)
            r == s \ {p}
<1>2. s # {} => p \in s /\ f[p] = e[p]
  BY <1>1 DEF Pickable
<1>3. g[s] = IF s = {} THEN Start(k) ELSE Combined(k, f, p, g[r])
  BY <1>1 DEF Table
<1>4. h[s] = IF s = {} THEN Start(k) ELSE Combined(k, e, p, h[r])
  BY <1>1 DEF Table
<1>5. s # {} => g[r] = h[r]
  <2>. HIDE DEF p
  <2>1. s # {} => r \in SUBSET S /\ r \subseteq T /\ r \subseteq U /\ r \subseteq s /\ r # s
    BY <1>1, <1>2
  <2>. QED
    BY <1>1, <2>1
<1>6. g[s] # h[s]
  BY <1>1
<1>. HIDE DEF p, r
<1>7. Combined(k, f, p, g[r]) = Combined(k, e, p, h[r]) \/ s = {}
  BY <1>2, <1>5 DEF Combined
<1>. QED
  BY <1>3, <1>4, <1>6, <1>7

\* Every finite set has its table.
LEMMA TableExists ==
    ASSUME NEW k, NEW f, NEW S, IsFiniteSet(S), Pickable(k, S)
    PROVE  \A T \in SUBSET S : \E g : Table(k, f, T, g)
<1>. DEFINE C == {T \in SUBSET S : ~\E g : Table(k, f, T, g)}
<1>. SUFFICES ASSUME C # {} PROVE FALSE
  OBVIOUS
<1>1. PICK T \in C : \A U \in C : U \subseteq T => U = T
  <2>1. C \in SUBSET SUBSET S
    OBVIOUS
  <2>. HIDE DEF C
  <2>. QED
    BY <2>1, MinimalSubset DEF Minimal
<1>. DEFINE table(U) == CHOOSE g : Table(k, f, U, g)
            value(U) == table(U)[U]
            g == [s \in SUBSET T |-> IF s = {} THEN Start(k)
                     ELSE Combined(k, f, Picked(k, s), value(s \ {Picked(k, s)}))]
<1>2. ASSUME NEW U \in SUBSET T, U # T
      PROVE  Table(k, f, U, table(U))
  <2>1. \E h : Table(k, f, U, h)
    BY <1>1, <1>2
  <2>. QED
    BY <2>1
<1>3. ASSUME NEW U \in SUBSET T, U # T
      PROVE  g[U] = value(U)
  <2>. DEFINE p == Picked(k, U)
              r == U \ {p}
  <2>1. value(U) = IF U = {} THEN Start(k) ELSE Combined(k, f, p, table(U)[r])
    <3>1. Table(k, f, U, table(U)) /\ U \in SUBSET U
      BY <1>2, <1>3
    <3>. HIDE DEF table
    <3>. QED
      BY <3>1, TableAt
  <2>2. U # {} => table(U)[r] = value(r)
    <3>. SUFFICES ASSUME U # {} PROVE table(U)[r] = table(r)[r]
      OBVIOUS
    <3>1. p \in U
      BY <1>1, <1>3 DEF Pickable
    <3>. HIDE DEF p
    <3>2. r \in SUBSET S /\ U \in SUBSET S /\ r \in SUBSET T /\ r # T /\ r \subseteq U
      BY <1>1, <1>3, <3>1
    <3>3. Table(k, f, U, table(U)) /\ Table(k, f, r, table(r))
      BY <1>2, <1>3, <3>2
    <3>. HIDE DEF table, r
    <3>. QED
      BY <3>2, <3>3, TablesAgree
  <2>3. g[U] = IF U = {} THEN Start(k) ELSE Combined(k, f, p, value(r))
    BY <1>3
  <2>. QED
    BY <2>1, <2>2, <2>3
<1>4. \A s \in SUBSET T : s # {} => g[s \ {Picked(k, s)}] = value(s \ {Picked(k, s)})
  <2>1. ASSUME NEW s \in SUBSET T, s # {}
        PROVE  s \ {Picked(k, s)} \in SUBSET T /\ s \ {Picked(k, s)} # T
    BY <1>1, <2>1 DEF Pickable
  <2>. HIDE DEF g, value
  <2>. QED
    BY <1>3, <2>1
<1>5. Table(k, f, T, g)
  <2>. DEFINE rest(s) == s \ {Picked(k, s)}
              withValue(s) == IF s = {} THEN Start(k)
                              ELSE Combined(k, f, Picked(k, s), value(rest(s)))
              withTable(s) == IF s = {} THEN Start(k)
                              ELSE Combined(k, f, Picked(k, s), g[rest(s)])
  <2>1. \A s \in SUBSET T : withValue(s) = withTable(s)
    <3>. HIDE DEF value, g
    <3>. QED
      BY <1>4
  <2>2. g = [s \in SUBSET T |-> withTable(s)]
    <3>1. g = [s \in SUBSET T |-> withValue(s)]
      OBVIOUS
    <3>. HIDE DEF withValue, withTable, g
    <3>. QED
      BY <2>1, <3>1
  <2>. QED
    BY <2>2 DEF Table
<1>. QED
  BY <1>1, <1>5

\* What a fold has in the end.
Folded(k, f, S) == (CHOOSE g : Table(k, f, S, g))[S]

\* Nothing for no elements, otherwise the element picked and the fold of the
\* others.
LEMMA FoldPicked ==
    ASSUME NEW k, NEW f, NEW S, IsFiniteSet(S), Pickable(k, S)
    PROVE  Folded(k, f, S) = IF S = {} THEN Start(k)
              ELSE Combined(k, f, Picked(k, S), Folded(k, f, S \ {Picked(k, S)}))
<1>. DEFINE table(U) == CHOOSE g : Table(k, f, U, g)
            r == S \ {Picked(k, S)}
<1>1. r \in SUBSET S /\ S \in SUBSET S
  OBVIOUS
<1>2. Table(k, f, S, table(S)) /\ Table(k, f, r, table(r))
  BY <1>1, TableExists
<1>3. Folded(k, f, S) = table(S)[S] /\ Folded(k, f, r) = table(r)[r]
  BY DEF Folded
<1>. HIDE DEF table
<1>4. table(S)[S] = IF S = {} THEN Start(k) ELSE Combined(k, f, Picked(k, S), table(S)[r])
  BY <1>1, <1>2 DEF Table
<1>5. table(S)[r] = table(r)[r]
  <2>. DEFINE g == table(S)
              h == table(r)
              all == S
  <2>1. Table(k, f, all, g) /\ Table(k, f, r, h) /\ all \in SUBSET S /\ r \subseteq all
    BY <1>2
  <2>. HIDE DEF g, h, r, all
  <2>2. \A s \in SUBSET S : s \subseteq all /\ s \subseteq r => g[s] = h[s]
    BY <1>1, <2>1, TablesAgree
  <2>. QED
    BY <1>1, <2>1, <2>2 DEF g, h
<1>. QED
  BY <1>3, <1>4, <1>5

\* Only the values on the set count.
LEMMA FoldSame ==
    ASSUME NEW k, NEW f, NEW e, NEW S, IsFiniteSet(S), Pickable(k, S),
           \A x \in S : f[x] = e[x]
    PROVE  Folded(k, f, S) = Folded(k, e, S)
<1>. DEFINE table(d) == CHOOSE g : Table(k, d, S, g)
            g == table(f)
            h == table(e)
            all == S
<1>1. Table(k, f, all, g) /\ Table(k, e, all, h) /\ all \in SUBSET S
  BY TableExists
<1>2. Folded(k, f, S) = g[all] /\ Folded(k, e, S) = h[all]
  BY DEF Folded
<1>. HIDE DEF g, h, all
<1>3. \A s \in SUBSET S : s \subseteq all /\ s \subseteq all => g[s] = h[s]
  <2>1. \A x : x \in all /\ x \in all => f[x] = e[x]
    BY DEF all
  <2>. QED
    BY <1>1, <2>1, TablesAgree
<1>. QED
  BY <1>1, <1>2, <1>3

\* Sums and trades are such folds.
LEMMA SumPickable == \A S : Pickable("sum", S)
  BY DEF Pickable, Picked

LEMMA SumIsFolded ==
    ASSUME NEW f, NEW S, IsFiniteSet(S)
    PROVE  SumFunctionOnSet(f, S) = Folded("sum", f, S)
<1>. DEFINE g == CHOOSE g : SumTable(f, S, g)
            h == CHOOSE h : Table("sum", f, S, h)
            all == S
<1>1. Table("sum", f, all, g) /\ Table("sum", f, all, h) /\ all \in SUBSET S
  <2>1. \E t : Table("sum", f, S, t)
    <3>1. S \in SUBSET S
      OBVIOUS
    <3>. QED
      BY <3>1, TableExists, SumPickable
  <2>2. \E t : SumTable(f, S, t)
    BY <2>1, Tables
  <2>3. Table("sum", f, S, h)
    BY <2>1
  <2>4. SumTable(f, S, g)
    BY <2>2
  <2>. HIDE DEF g, h
  <2>. QED
    BY <2>3, <2>4, Tables
<1>2. SumFunctionOnSet(f, S) = g[all] /\ Folded("sum", f, S) = h[all]
  BY SumIsTable DEF Folded
<1>. HIDE DEF g, h, all
<1>3. \A s \in SUBSET S : s \subseteq all /\ s \subseteq all => g[s] = h[s]
  BY <1>1, SumPickable, TablesAgree
<1>. QED
  BY <1>1, <1>2, <1>3

LEMMA PickedIn == \A s : s # {} => Picked("sum", s) \in s
  BY DEF Picked

LEMMA SumPicked ==
    ASSUME NEW f, NEW S, IsFiniteSet(S)
    PROVE  SumFunctionOnSet(f, S) = IF S = {} THEN 0
              ELSE f[Picked("sum", S)] + SumFunctionOnSet(f, S \ {Picked("sum", S)})
<1>. DEFINE r == S \ {Picked("sum", S)}
<1>1. IsFiniteSet(r)
  BY FS_Subset
<1>2. SumFunctionOnSet(f, S) = Folded("sum", f, S)
      /\ SumFunctionOnSet(f, r) = Folded("sum", f, r)
  BY <1>1, SumIsFolded
<1>. QED
  BY <1>2, FoldPicked, SumPickable DEF Start, Combined

LEMMA SumEmpty == \A f : SumFunctionOnSet(f, {}) = 0
  BY SumPicked, FS_EmptySet

\* The sum of integers is one, of natural numbers too.
LEMMA SumType ==
    ASSUME NEW f, NEW S, IsFiniteSet(S), NEW N \in {Nat, Int}, \A x \in S : f[x] \in N
    PROVE  SumFunctionOnSet(f, S) \in N
<1>. DEFINE C == {T \in SUBSET S : SumFunctionOnSet(f, T) \notin N}
<1>. SUFFICES ASSUME C # {} PROVE FALSE
  OBVIOUS
<1>1. PICK T \in C : \A U \in C : U \subseteq T => U = T
  <2>1. C \in SUBSET SUBSET S
    OBVIOUS
  <2>. HIDE DEF C
  <2>. QED
    BY <2>1, MinimalSubset DEF Minimal
<1>. DEFINE r == T \ {Picked("sum", T)}
<1>2. /\ IsFiniteSet(T)
      /\ SumFunctionOnSet(f, T) = IF T = {} THEN 0
                                   ELSE f[Picked("sum", T)] + SumFunctionOnSet(f, r)
  BY <1>1, FS_Subset, SumPicked
<1>3. T # {} => SumFunctionOnSet(f, r) \in N /\ f[Picked("sum", T)] \in N
  BY <1>1, PickedIn
<1>. QED
  BY <1>1, <1>2, <1>3

\* The order in which the elements are taken is of no consequence.
LEMMA SumSplit ==
    ASSUME NEW f, NEW S, IsFiniteSet(S), \A x \in S : f[x] \in Int, NEW y \in S
    PROVE  SumFunctionOnSet(f, S) = f[y] + SumFunctionOnSet(f, S \ {y})
<1>. DEFINE C == {T \in SUBSET S : \E x \in T :
                     SumFunctionOnSet(f, T) # f[x] + SumFunctionOnSet(f, T \ {x})}
<1>. SUFFICES ASSUME C # {} PROVE FALSE
  OBVIOUS
<1>1. PICK T \in C : \A U \in C : U \subseteq T => U = T
  <2>1. C \in SUBSET SUBSET S
    OBVIOUS
  <2>. HIDE DEF C
  <2>. QED
    BY <2>1, MinimalSubset DEF Minimal
<1>2. PICK x \in T : SumFunctionOnSet(f, T) # f[x] + SumFunctionOnSet(f, T \ {x})
  BY <1>1
<1>. DEFINE p == Picked("sum", T)
<1>3. p \in T /\ T \in SUBSET S
  BY <1>1, <1>2, PickedIn
<1>4. SumFunctionOnSet(f, T) = f[p] + SumFunctionOnSet(f, T \ {p})
  BY <1>2, <1>3, FS_Subset, SumPicked
<1>. HIDE DEF p
<1>5. x # p
  BY <1>2, <1>4
<1>6. \A U \in SUBSET T, z \in T :
         U # T /\ z \in U => SumFunctionOnSet(f, U) = f[z] + SumFunctionOnSet(f, U \ {z})
  BY <1>1
<1>7. SumFunctionOnSet(f, T \ {p}) = f[x] + SumFunctionOnSet(f, (T \ {p}) \ {x})
  BY <1>3, <1>5, <1>6
<1>8. SumFunctionOnSet(f, T \ {x}) = f[p] + SumFunctionOnSet(f, (T \ {x}) \ {p})
  BY <1>3, <1>5, <1>6
<1>9. (T \ {p}) \ {x} = (T \ {x}) \ {p}
  OBVIOUS
<1>10. f[x] \in Int /\ f[p] \in Int /\ SumFunctionOnSet(f, (T \ {x}) \ {p}) \in Int
  <2>1. (T \ {x}) \ {p} \in SUBSET S /\ Int \in {Nat, Int}
    BY <1>3
  <2>2. IsFiniteSet((T \ {x}) \ {p})
    BY <2>1, FS_Subset
  <2>. QED
    BY <1>3, <2>1, <2>2, SumType
<1>. DEFINE w == SumFunctionOnSet(f, (T \ {x}) \ {p})
<1>11. SumFunctionOnSet(f, T \ {p}) = f[x] + w
       /\ SumFunctionOnSet(f, T \ {x}) = f[p] + w /\ w \in Int
  BY <1>7, <1>8, <1>9, <1>10
<1>. HIDE DEF w
<1>. QED
  BY <1>2, <1>4, <1>10, <1>11

\* Larger numbers have a larger sum.
LEMMA SumMonotone ==
    ASSUME NEW f, NEW g, NEW S, IsFiniteSet(S),
           \A x \in S : f[x] \in Int /\ g[x] \in Int /\ f[x] <= g[x]
    PROVE  SumFunctionOnSet(f, S) <= SumFunctionOnSet(g, S)
<1>. DEFINE C == {T \in SUBSET S : ~(SumFunctionOnSet(f, T) <= SumFunctionOnSet(g, T))}
<1>. SUFFICES ASSUME C # {} PROVE FALSE
  OBVIOUS
<1>1. PICK T \in C : \A U \in C : U \subseteq T => U = T
  <2>1. C \in SUBSET SUBSET S
    OBVIOUS
  <2>. HIDE DEF C
  <2>. QED
    BY <2>1, MinimalSubset DEF Minimal
<1>. DEFINE p == Picked("sum", T)
            r == T \ {p}
<1>2. /\ T \in SUBSET S /\ IsFiniteSet(T)
      /\ SumFunctionOnSet(f, T) = IF T = {} THEN 0 ELSE f[p] + SumFunctionOnSet(f, r)
      /\ SumFunctionOnSet(g, T) = IF T = {} THEN 0 ELSE g[p] + SumFunctionOnSet(g, r)
  BY <1>1, FS_Subset, SumPicked
<1>3. T # {} => p \in T /\ r \in SUBSET S /\ r \subseteq T /\ r # T
  BY <1>2, PickedIn
<1>. HIDE DEF p, r
<1>4. T # {} => SumFunctionOnSet(f, r) <= SumFunctionOnSet(g, r)
  BY <1>1, <1>3
<1>5. T # {} => SumFunctionOnSet(f, r) \in Int /\ SumFunctionOnSet(g, r) \in Int
  <2>1. T # {} => IsFiniteSet(r) /\ \A x \in r : f[x] \in Int /\ g[x] \in Int
    BY <1>3, FS_Subset
  <2>. QED
    BY <2>1, SumType
<1>. QED
  BY <1>1, <1>2, <1>3, <1>4, <1>5

\* Only the values on the set count.
LEMMA SumSame ==
    ASSUME NEW f, NEW g, NEW S, IsFiniteSet(S), \A x \in S : f[x] \in Int /\ f[x] = g[x]
    PROVE  SumFunctionOnSet(f, S) = SumFunctionOnSet(g, S)
<1>1. SumFunctionOnSet(f, S) <= SumFunctionOnSet(g, S)
      /\ SumFunctionOnSet(g, S) <= SumFunctionOnSet(f, S)
  BY SumMonotone
<1>2. SumFunctionOnSet(f, S) \in Int /\ SumFunctionOnSet(g, S) \in Int
  BY SumType
<1>. QED
  BY <1>1, <1>2

\* A change at one element changes the sum by as much.
LEMMA SumChange ==
    ASSUME NEW S, NEW f, NEW g, NEW x,
           IsFiniteSet(S), f \in [S -> Int], g \in [S -> Int], x \in S,
           \A y \in S \ {x} : g[y] = f[y]
    PROVE  SumFunctionOnSet(g, S) = SumFunctionOnSet(f, S) - f[x] + g[x]
<1>. DEFINE r == S \ {x}
<1>1. /\ \A y \in r : f[y] \in Int /\ g[y] = f[y]
      /\ \A y \in S : g[y] \in Int /\ f[y] \in Int
  OBVIOUS
<1>2. IsFiniteSet(r) /\ r \in SUBSET S
  BY FS_Subset
<1>3. SumFunctionOnSet(f, S) = f[x] + SumFunctionOnSet(f, r)
  BY SumSplit
<1>4. SumFunctionOnSet(g, S) = g[x] + SumFunctionOnSet(g, r)
  BY <1>1, SumSplit
<1>5. SumFunctionOnSet(f, r) = SumFunctionOnSet(g, r) /\ SumFunctionOnSet(f, r) \in Int
  BY <1>1, <1>2, SumSame, SumType
<1>. QED
  BY <1>1, <1>3, <1>4, <1>5

\* A term of a sum of natural numbers is at most the sum.
LEMMA SumHasTerm ==
    ASSUME NEW f, NEW S, IsFiniteSet(S), \A x \in S : f[x] \in Nat, NEW y \in S
    PROVE  f[y] <= SumFunctionOnSet(f, S)
<1>1. IsFiniteSet(S \ {y}) /\ \A x \in S : f[x] \in Int
  BY FS_Subset
<1>2. SumFunctionOnSet(f, S \ {y}) \in Nat
  BY <1>1, SumType
<1>3. SumFunctionOnSet(f, S) = f[y] + SumFunctionOnSet(f, S \ {y})
  BY <1>1, SumSplit
<1>. QED
  BY <1>2, <1>3

\* Nothing adds up to nothing.
LEMMA SumOfZeros ==
    ASSUME NEW f, NEW S, IsFiniteSet(S), \A x \in S : f[x] = 0
    PROVE  SumFunctionOnSet(f, S) = 0
<1>. DEFINE C == {T \in SUBSET S : SumFunctionOnSet(f, T) # 0}
<1>. SUFFICES ASSUME C # {} PROVE FALSE
  OBVIOUS
<1>1. PICK T \in C : \A U \in C : U \subseteq T => U = T
  <2>1. C \in SUBSET SUBSET S
    OBVIOUS
  <2>. HIDE DEF C
  <2>. QED
    BY <2>1, MinimalSubset DEF Minimal
<1>. DEFINE r == T \ {Picked("sum", T)}
<1>2. /\ IsFiniteSet(T)
      /\ SumFunctionOnSet(f, T) = IF T = {} THEN 0
                                   ELSE f[Picked("sum", T)] + SumFunctionOnSet(f, r)
  BY <1>1, FS_Subset, SumPicked
<1>3. T # {} => SumFunctionOnSet(f, r) = 0 /\ f[Picked("sum", T)] = 0
  BY <1>1, PickedIn
<1>. QED
  BY <1>1, <1>2, <1>3

-----------------------------------------------------------------------------
(* Trades *)

\* The largest of some indices.
LEMMA MaxOfIndices ==
    ASSUME NEW n \in Nat, NEW s \in SUBSET (1..n), s # {}
    PROVE  Max(s) \in s /\ \A y \in s : Max(s) >= y
<1>. DEFINE C == {T \in SUBSET (1..n) : T # {} /\ ~\E x \in T : \A y \in T : x >= y}
<1>1. C = {}
  <2>. SUFFICES ASSUME C # {} PROVE FALSE
    OBVIOUS
  <2>1. PICK T \in C : \A U \in C : U \subseteq T => U = T
    <3>. DEFINE I == 1..n
    <3>1. C \in SUBSET SUBSET I /\ IsFiniteSet(I)
      BY FS_Interval
    <3>. HIDE DEF C, I
    <3>. QED
      BY <3>1, MinimalSubset DEF Minimal
  <2>2. PICK x \in T : TRUE
    BY <2>1
  <2>. DEFINE r == T \ {x}
  <2>3. r # {}
    <3>. SUFFICES ASSUME r = {} PROVE FALSE
      OBVIOUS
    <3>1. \A y \in T : x >= y
      BY <2>1
    <3>. QED
      BY <2>1, <3>1
  <2>4. PICK z \in r : \A y \in r : z >= y
    <3>1. r \in SUBSET (1..n) /\ r \subseteq T /\ r # T
      BY <2>1, <2>2
    <3>. HIDE DEF r
    <3>2. r \notin C
      BY <2>1, <3>1
    <3>. QED
      BY <2>3, <3>1, <3>2
  <2>5. x \in Int /\ z \in Int /\ \A y \in T : y \in Int
    BY <2>1, <2>4
  <2>6. CASE z >= x
    <3>1. \A y \in T : z >= y
      BY <2>4, <2>6
    <3>. QED
      BY <2>1, <2>4, <3>1
  <2>7. CASE x > z
    <3>1. \A y \in T : x >= y
      BY <2>4, <2>5, <2>7
    <3>. QED
      BY <2>1, <3>1
  <2>. QED
    BY <2>5, <2>6, <2>7
<1>2. \E x \in s : \A y \in s : x >= y
  BY <1>1
<1>. QED
  BY <1>2 DEF Max

LEMMA TradesPickable ==
    ASSUME NEW n \in Nat
    PROVE  Pickable("trades", 1..n) /\ IsFiniteSet(1..n)
<1>1. IsFiniteSet(1..n)
  BY FS_Interval
<1>2. \A s \in SUBSET (1..n) : s # {} => Max(s) \in s
  BY MaxOfIndices
<1>. QED
  BY <1>1, <1>2 DEF Pickable, Picked

LEMMA TradesIsFolded ==
    ASSUME NEW X, NEW f \in Seq(X)
    PROVE  Trades(f) = Folded("trades", f, 1..Len(f))
<1>. DEFINE S == 1..Len(f)
            g == CHOOSE g : TradeTable(f, S, g)
            h == CHOOSE h : Table("trades", f, S, h)
<1>1. Pickable("trades", S) /\ IsFiniteSet(S) /\ S = DOMAIN f
  BY TradesPickable
<1>2. Table("trades", f, S, g) /\ Table("trades", f, S, h)
  <2>1. \E t : Table("trades", f, S, t)
    <3>. HIDE DEF S
    <3>1. S \in SUBSET S
      OBVIOUS
    <3>. QED
      BY <1>1, <3>1, TableExists
  <2>2. \E t : TradeTable(f, S, t)
    BY <2>1, Tables
  <2>3. Table("trades", f, S, h)
    BY <2>1
  <2>4. TradeTable(f, S, g)
    BY <2>2
  <2>. HIDE DEF g, h
  <2>. QED
    BY <2>3, <2>4, Tables
<1>3. Trades(f) = g[S] /\ Folded("trades", f, S) = h[S]
  BY <1>1, TradesIsTable DEF Folded
<1>. HIDE DEF g, h, S
<1>4. \A s \in SUBSET S : s \subseteq S /\ s \subseteq S => g[s] = h[s]
  BY <1>1, <1>2, TablesAgree
<1>. QED
  BY <1>3, <1>4 DEF S

\* What economic_metrics() does with one more fill.
LEMMA TradesAppend ==
    ASSUME NEW X, NEW s \in Seq(X), NEW x \in X
    PROVE  Trades(Append(s, x)) = Traded(Trades(s), x)
<1>. DEFINE n == Len(s)
            e == Append(s, x)
<1>1. n \in Nat /\ e \in Seq(X) /\ Len(e) = n + 1 /\ e[n + 1] = x
      /\ \A i \in 1..n : e[i] = s[i]
  OBVIOUS
<1>. HIDE DEF n, e
<1>2. Max(1..(n + 1)) = n + 1
  <2>1. /\ 1..(n + 1) # {} /\ n + 1 \in Nat /\ n + 1 \in 1..(n + 1)
        /\ 1..(n + 1) \in SUBSET (1..(n + 1))
    BY <1>1
  <2>2. Max(1..(n + 1)) \in 1..(n + 1) /\ \A y \in 1..(n + 1) : Max(1..(n + 1)) >= y
    BY <2>1, MaxOfIndices
  <2>. QED
    BY <2>1, <2>2
<1>3. Trades(e) = Folded("trades", e, 1..(n + 1))
  BY <1>1, TradesIsFolded
<1>4. Trades(s) = Folded("trades", s, 1..n)
  BY TradesIsFolded DEF n
<1>5. Folded("trades", e, 1..n) = Folded("trades", s, 1..n)
  BY <1>1, TradesPickable, FoldSame
<1>6. Folded("trades", e, 1..(n + 1))
         = Combined("trades", e, n + 1, Folded("trades", e, 1..n))
  <2>1. Pickable("trades", 1..(n + 1)) /\ IsFiniteSet(1..(n + 1))
    BY <1>1, TradesPickable
  <2>. DEFINE I == 1..(n + 1)
  <2>2. I # {} /\ I \ {n + 1} = 1..n
    <3>1. n + 1 \in I
      BY <1>1
    <3>2. \A i : i \in I \ {n + 1} <=> i \in 1..n
      BY <1>1
    <3>. HIDE DEF I
    <3>. QED
      BY <3>1, <3>2
  <2>3. Picked("trades", I) = n + 1
    BY <1>2 DEF Picked
  <2>. HIDE DEF I
  <2>4. Folded("trades", e, I) = Combined("trades", e, n + 1, Folded("trades", e, 1..n))
    <3>1. Pickable("trades", I) /\ IsFiniteSet(I)
      BY <2>1 DEF I
    <3>2. Folded("trades", e, I) = Combined("trades", e, Picked("trades", I),
                                       Folded("trades", e, I \ {Picked("trades", I)}))
      BY <2>2, <3>1, FoldPicked
    <3>. QED
      BY <2>2, <2>3, <3>2
  <2>. QED
    BY <2>4 DEF I
<1>. QED
  BY <1>1, <1>3, <1>4, <1>5, <1>6 DEF Combined, e

LEMMA TradesOfNone == Trades(<<>>) = NoTrades
<1>1. <<>> \in Seq({}) /\ Len(<<>>) = 0 /\ 1..0 = {} /\ 0 \in Nat
  OBVIOUS
<1>. QED
  BY <1>1, TradesIsFolded, TradesPickable, FoldPicked DEF Start

-----------------------------------------------------------------------------
(* The account *)

USE RiskAssumption, PortfolioAssumption DEF RiskAssumption, PortfolioAssumption

IInv == AccountOK /\ ApprovedIsPayable

LEMMA InitInv == Init => IInv
  BY DEF Init, IInv, AccountOK, ApprovedIsPayable

LEMMA OpenStep ==
    ASSUME IInv, NEW a \in Assets, NEW p \in Prices, Open(a, p)
    PROVE  IInv'
<1>. USE DEF IInv, AccountOK, ApprovedIsPayable
<1>. DEFINE o == pending[a]
<1>1. /\ candles' \in 0..MaxCandles /\ price' \in [Assets -> Prices]
      /\ pending' = [pending EXCEPT ![a] = None]
      /\ p \in Nat
  BY DEF Open, Popped
<1>2. CASE o = None
  BY <1>1, <1>2 DEF Open, account
<1>3. CASE o # None
  <2>1. gate' \in {"OPEN", "CLOSED"}
    BY <1>3 DEF Open, GateAfter
  <2>2. o \in PendingOrder
    BY <1>3
  <2>3. PICK q \in 0..o.qty :
           /\ Approves(o, Context(a, p), gate, q)
           /\ \/ q = 0 /\ at' = a /\ UNCHANGED account
              \/ q > 0 /\ o.side = "BUY" /\ Buy(a, q, p)
              \/ q > 0 /\ o.side = "SELL" /\ Sell(a, q, p)
    BY <1>3 DEF Open
  <2>4. q \in Nat /\ BuyCost(q, p) \in Nat /\ SellGain(q, p) \in Nat
    BY <1>1, <2>2, <2>3, Amounts DEF PendingOrder
  <2>5. CASE q = 0 /\ at' = a /\ UNCHANGED account
    BY <1>1, <2>1, <2>5 DEF account
  <2>6. CASE q > 0 /\ o.side = "BUY" /\ Buy(a, q, p)
    <3>1. Fits(q, Context(a, p))
      BY <2>3, <2>6 DEF Approves
    <3>2. BuyCost(q, p) <= cash
      <4>. DEFINE c == Context(a, p)
      <4>1. /\ c.cash = cash /\ c.price = p
            /\ c.value = Notional(qty[a], p)
            /\ c.equity = c.cash + c.value
        BY DEF Context
      <4>2. c.value \in Nat
        BY <1>1, <4>1, Amounts
      <4>. HIDE DEF c
      <4>3. BuyCost(q, c.price) <= c.cash
        BY <1>1, <2>4, <3>1, <4>1, <4>2, FitsIsPayable DEF c
      <4>. QED
        BY <4>1, <4>3
    <3>3. /\ at' = a
          /\ cash' \in Nat
          /\ qty' = [qty EXCEPT ![a] = @ + q]
          /\ cost' \in [Assets -> Nat]
          /\ realized' = realized
      BY <2>4, <2>6, <3>2 DEF Buy
    <3>. QED
      BY <1>1, <2>1, <2>4, <3>3
  <2>7. CASE q > 0 /\ o.side = "SELL" /\ Sell(a, q, p)
    <3>1. q = o.qty /\ o.qty = qty[a]
      BY <1>3, <2>3, <2>7 DEF Approves
    <3>2. /\ at' = a
          /\ cash' \in Nat
          /\ qty' = [qty EXCEPT ![a] = @ - q]
          /\ cost' \in [Assets -> Nat]
          /\ realized' \in Int
      BY <2>4, <2>7 DEF Sell, Profit
    <3>. QED
      BY <1>1, <2>1, <2>4, <3>1, <3>2
  <2>. QED
    BY <2>3, <2>5, <2>6, <2>7
<1>. QED
  BY <1>2, <1>3

LEMMA StepInv == IInv /\ [Next]_vars => IInv'
<1>. SUFFICES ASSUME IInv, [Next]_vars PROVE IInv'
  OBVIOUS
<1>1. CASE \E a \in Assets, p \in Prices : Open(a, p)
  BY <1>1, OpenStep
<1>2. ASSUME NEW p \in Prices, Close(p)
      PROVE  IInv'
  <2>. USE DEF IInv, AccountOK, ApprovedIsPayable
  <2>1. at \in Assets /\ at' = None /\ price' \in [Assets -> Prices]
        /\ UNCHANGED <<cash, qty, cost, realized, gate, candles>>
    BY <1>2 DEF Close, account
  <2>2. CASE UNCHANGED pending
    BY <2>1, <2>2
  <2>3. ASSUME NEW q \in 1..(cash \div 10000),
               pending' = [pending EXCEPT ![at] = [side |-> "BUY", qty |-> q]]
        PROVE  IInv'
    <3>1. [side |-> "BUY", qty |-> q] \in PendingOrder
      BY DEF PendingOrder
    <3>. QED
      BY <2>1, <2>3, <3>1
  <2>4. CASE /\ qty[at] > 0
             /\ pending' = [pending EXCEPT ![at] = [side |-> "SELL", qty |-> qty[at]]]
    <3>1. [side |-> "SELL", qty |-> qty[at]] \in PendingOrder
      BY <2>1, <2>4 DEF PendingOrder
    <3>. QED
      BY <2>1, <2>4, <3>1
  <2>. QED
    BY <1>2, <2>2, <2>3, <2>4 DEF Close
<1>3. CASE KillSwitch
  BY <1>3 DEF KillSwitch, IInv, AccountOK, ApprovedIsPayable, account
<1>4. CASE UNCHANGED vars
  BY <1>4 DEF vars, account, IInv, AccountOK, ApprovedIsPayable
<1>. QED
  BY <1>1, <1>2, <1>3, <1>4 DEF Next

LEMMA Invariance == Spec => []IInv
  BY InitInv, StepInv, PTL DEF Spec

-----------------------------------------------------------------------------
\* apply_fill() never refuses what the risk manager approved.
THEOREM Payable == Spec => []ApprovedIsPayable
  BY Invariance, PTL DEF IInv

\* Cash and holdings stay natural numbers and a waiting sale is the holding.
THEOREM AccountCorrect == Spec => []AccountOK
  BY Invariance, PTL DEF IInv

-----------------------------------------------------------------------------
(* What adds up over the assets *)

LEMMA TotalIsSum ==
    ASSUME NEW N, NEW f \in [Assets -> N]
    PROVE  Total(f) = SumFunctionOnSet(f, Assets)
<1>1. Total(f) = SumFunctionOnSet(f, DOMAIN f)
  BY DEF Total, SumFunction
<1>2. DOMAIN f = Assets
  OBVIOUS
<1>. QED
  BY <1>1, <1>2

\* The worth of holdings is a natural number, at least that of one of them.
LEMMA WorthIs ==
    ASSUME NEW h \in [Assets -> Nat], NEW p \in [Assets -> Prices]
    PROVE  LET worth == [a \in Assets |-> Notional(h[a], p[a])]
           IN  /\ worth \in [Assets -> Nat]
               /\ Total(worth) = SumFunctionOnSet(worth, Assets)
               /\ Total(worth) \in Nat
               /\ \A a \in Assets : worth[a] <= Total(worth)
<1>. DEFINE worth == [a \in Assets |-> Notional(h[a], p[a])]
<1>1. worth \in [Assets -> Nat]
  <2>1. \A a \in Assets : h[a] \in Nat /\ p[a] \in Nat
    OBVIOUS
  <2>. QED
    BY <2>1, Amounts
<1>. HIDE DEF worth
<1>2. Total(worth) = SumFunctionOnSet(worth, Assets)
  BY <1>1, TotalIsSum
<1>3. SumFunctionOnSet(worth, Assets) \in Nat
  BY <1>1, SumType
<1>4. \A a \in Assets : worth[a] <= SumFunctionOnSet(worth, Assets)
  BY <1>1, SumHasTerm
<1>5. /\ worth \in [Assets -> Nat]
      /\ Total(worth) = SumFunctionOnSet(worth, Assets)
      /\ Total(worth) \in Nat
      /\ \A a \in Assets : worth[a] <= Total(worth)
  BY <1>1, <1>2, <1>3, <1>4
<1>. QED
  BY <1>5 DEF worth

LEMMA CostChange ==
    ASSUME cost \in [Assets -> Nat], NEW a \in Assets, NEW v \in Nat
    PROVE  /\ Total(cost) \in Int
           /\ Total([cost EXCEPT ![a] = v]) = Total(cost) - cost[a] + v
<1>. DEFINE g == [cost EXCEPT ![a] = v]
<1>1. cost \in [Assets -> Int] /\ g \in [Assets -> Nat]
  OBVIOUS
<1>. HIDE DEF g
<1>2. Total(cost) = SumFunctionOnSet(cost, Assets) /\ Total(g) = SumFunctionOnSet(g, Assets)
  BY <1>1, TotalIsSum
<1>3. SumFunctionOnSet(cost, Assets) \in Int
  BY <1>1, SumType
<1>4. SumFunctionOnSet(g, Assets) = SumFunctionOnSet(cost, Assets) - cost[a] + v
  <2>1. g \in [Assets -> Int] /\ g[a] = v /\ \A b \in Assets \ {a} : g[b] = cost[b]
    BY DEF g
  <2>. QED
    BY <1>1, <2>1, SumChange
<1>. QED
  BY <1>2, <1>3, <1>4 DEF g

-----------------------------------------------------------------------------
(* Conservation, the peak, and the share of an asset *)

\* The four ways a candle can open.
LEMMA OpenCases ==
    ASSUME IInv, NEW a \in Assets, NEW p \in Prices, Open(a, p)
    PROVE  /\ price' = [price EXCEPT ![a] = p]
           /\ peak' = peak
           /\ at' = a
           /\ \/ UNCHANGED account
              \/ \E q \in Nat \ {0} :
                    /\ pending[a] # None /\ pending[a].side = "BUY"
                    /\ Fits(q, Context(a, p))
                    /\ BuyCost(q, p) \in Nat
                    /\ Buy(a, q, p) /\ cash' = cash - BuyCost(q, p)
              \/ \E q \in Nat \ {0} :
                    /\ pending[a] # None /\ pending[a].side = "SELL"
                    /\ q = qty[a]
                    /\ SellGain(q, p) \in Nat
                    /\ Sell(a, q, p)
<1>. DEFINE o == pending[a]
<1>1. IInv' /\ at' # "dead" /\ p \in Nat
  BY OpenStep DEF IInv, ApprovedIsPayable
<1>2. price' = [price EXCEPT ![a] = p] /\ peak' = peak
  BY DEF Open
<1>3. CASE o = None
  BY <1>2, <1>3 DEF Open
<1>4. CASE o # None
  <2>1. PICK q \in 0..o.qty :
           /\ Approves(o, Context(a, p), gate, q)
           /\ \/ q = 0 /\ at' = a /\ UNCHANGED account
              \/ q > 0 /\ o.side = "BUY" /\ Buy(a, q, p)
              \/ q > 0 /\ o.side = "SELL" /\ Sell(a, q, p)
    BY <1>4 DEF Open
  <2>2. q \in Nat /\ BuyCost(q, p) \in Nat /\ SellGain(q, p) \in Nat
    <3>1. o \in PendingOrder
      BY <1>4 DEF IInv, AccountOK
    <3>. QED
      BY <1>1, <2>1, <3>1, Amounts DEF PendingOrder
  <2>3. CASE q = 0 /\ at' = a /\ UNCHANGED account
    BY <1>2, <2>3
  <2>4. CASE q > 0 /\ o.side = "BUY" /\ Buy(a, q, p)
    <3>1. Fits(q, Context(a, p)) /\ q \in Nat \ {0}
      BY <2>1, <2>2, <2>4 DEF Approves
    <3>2. at' = a /\ cash' = cash - BuyCost(q, p)
      BY <1>1, <2>4 DEF Buy
    <3>. QED
      BY <1>2, <1>4, <2>2, <2>4, <3>1, <3>2
  <2>5. CASE q > 0 /\ o.side = "SELL" /\ Sell(a, q, p)
    <3>1. q = qty[a] /\ q \in Nat \ {0}
      BY <1>4, <2>1, <2>2, <2>5 DEF Approves, IInv, AccountOK
    <3>2. at' = a
      BY <2>5 DEF Sell
    <3>. QED
      BY <1>2, <1>4, <2>2, <2>5, <3>1, <3>2
  <2>. QED
    BY <2>1, <2>3, <2>4, <2>5
<1>. QED
  BY <1>3, <1>4

LEMMA InitConserved == Init => Conservation /\ peak \in Nat
<1>. SUFFICES ASSUME Init PROVE Conservation /\ peak \in Nat
  OBVIOUS
<1>1. cost \in [Assets -> Nat] /\ \A a \in Assets : cost[a] = 0
  BY DEF Init
<1>2. Total(cost) = 0
  BY <1>1, TotalIsSum, SumOfZeros
<1>. QED
  BY <1>2 DEF Init, Conservation

LEMMA OpenConserved ==
    ASSUME IInv, Conservation, NEW a \in Assets, NEW p \in Prices, Open(a, p)
    PROVE  Conservation'
<1>1. cash \in Nat /\ cost \in [Assets -> Nat] /\ realized \in Int
  BY DEF IInv, AccountOK
<1>2. Total(cost) \in Int /\ cash + Total(cost) = Cash * 10000 + realized
  BY <1>1, CostChange DEF Conservation
<1>3. CASE UNCHANGED account
  BY <1>3 DEF account, Conservation
<1>4. ASSUME NEW q \in Nat \ {0}, BuyCost(q, p) \in Nat,
             Buy(a, q, p), cash' = cash - BuyCost(q, p), at' = a
      PROVE  Conservation'
  <2>. DEFINE v == cost[a] + BuyCost(q, p)
  <2>1. cost' = [cost EXCEPT ![a] = v] /\ realized' = realized /\ v \in Nat
    <3>1. a # "dead"
      OBVIOUS
    <3>. QED
      BY <1>1, <1>4, <3>1 DEF Buy
  <2>2. Total(cost') = Total(cost) - cost[a] + v
    BY <1>1, <2>1, CostChange
  <2>. QED
    BY <1>1, <1>2, <1>4, <2>1, <2>2 DEF Conservation
<1>5. ASSUME NEW q \in Nat \ {0}, SellGain(q, p) \in Nat, Sell(a, q, p)
      PROVE  Conservation'
  <2>1. Total(cost') = Total(cost) - cost[a] + 0
    BY <1>1, <1>5, CostChange DEF Sell
  <2>2. cash' = cash + SellGain(q, p) /\ realized' = realized + (SellGain(q, p) - cost[a])
    BY <1>5 DEF Sell, Profit
  <2>. QED
    BY <1>1, <1>2, <1>5, <2>1, <2>2 DEF Conservation
<1>. QED
  BY <1>3, <1>4, <1>5, OpenCases

LEMMA PeakStep ==
    ASSUME IInv, IInv', peak \in Nat, [Next]_vars
    PROVE  peak' \in Nat
<1>1. ASSUME NEW p \in Prices, Close(p)
      PROVE  peak' \in Nat
  <2>1. qty' \in [Assets -> Nat] /\ price' \in [Assets -> Prices] /\ cash' \in Nat
    BY DEF IInv, AccountOK
  <2>2. Total([a \in Assets |-> Notional(qty'[a], price'[a])]) \in Nat
    BY <2>1, WorthIs
  <2>3. Equity' \in Nat
    BY <2>1, <2>2 DEF Equity
  <2>. QED
    BY <1>1, <2>3 DEF Close
<1>2. CASE UNCHANGED peak
  BY <1>2
<1>3. (\E p \in Prices : Close(p)) \/ UNCHANGED peak
  BY DEF Next, Open, KillSwitch, vars
<1>. QED
  BY <1>1, <1>2, <1>3

LEMMA ConservedStep ==
    ASSUME IInv, Conservation, [Next]_vars
    PROVE  Conservation'
<1>1. ASSUME NEW a \in Assets, NEW p \in Prices, Open(a, p)
      PROVE  Conservation'
  BY <1>1, OpenConserved
<1>2. CASE UNCHANGED account
  BY <1>2 DEF account, Conservation
<1>3. (\E a \in Assets, p \in Prices : Open(a, p)) \/ UNCHANGED account
  BY DEF Next, Close, KillSwitch, vars
<1>. QED
  BY <1>1, <1>2, <1>3

\* The type invariant with the auxiliary peak.
THEOREM TypeCorrect == Spec => []TypeOK
<1>1. Init => peak \in Nat
  BY InitConserved
<1>2. IInv /\ IInv' /\ peak \in Nat /\ [Next]_vars => (peak \in Nat)'
  BY PeakStep
<1>. QED
  BY <1>1, <1>2, Invariance, PTL DEF Spec, IInv, TypeOK

\* No money is lost or made: what the account is worth at cost is the initial
\* cash and the realized result, after any purchases, sales and rejections of
\* any assets.
THEOREM Conserved == Spec => []Conservation
<1>1. Init => Conservation
  BY InitConserved
<1>2. IInv /\ Conservation /\ [Next]_vars => Conservation'
  BY ConservedStep
<1>. QED
  BY <1>1, <1>2, Invariance, PTL DEF Spec

\* A purchase leaves the asset within its share of the whole account, although
\* the risk manager values the other assets at nothing.
LEMMA PurchaseWithinShare == IInv /\ [Next]_vars => [AllocationKept]_vars
<1>. SUFFICES ASSUME IInv, Next, NEW a \in Assets, Bought(a)
              PROVE  100 * Notional(qty'[a], price'[a])
                        <= MaxAsset * (cash + Total([b \in Assets |->
                                                        Notional(qty[b], price'[b])]))
  BY DEF AllocationKept
<1>1. cash \in Nat /\ qty \in [Assets -> Nat] /\ price \in [Assets -> Prices]
  BY DEF IInv, AccountOK
<1>2. PICK b \in Assets, p \in Prices : Open(b, p)
  <2>1. qty' # qty
    BY <1>1 DEF Bought
  <2>. QED
    BY <2>1 DEF Next, Close, KillSwitch, account
<1>3. PICK q \in Nat \ {0} : Fits(q, Context(b, p)) /\ Buy(b, q, p) /\ at' = b
  <2>1. CASE UNCHANGED account
    BY <1>1, <2>1 DEF account, Bought
  <2>2. ASSUME NEW q \in Nat, q = qty[b], Sell(b, q, p)
        PROVE  FALSE
    <3>1. qty' = [qty EXCEPT ![b] = @ - q]
      BY <2>2 DEF Sell
    <3>. QED
      BY <1>1, <2>2, <3>1 DEF Bought
  <2>. QED
    BY <1>2, <2>1, <2>2, OpenCases
<1>4. price' = [price EXCEPT ![b] = p] /\ p \in Nat
  BY <1>2, OpenCases
<1>5. qty' = [qty EXCEPT ![b] = @ + q]
  <2>1. b # "dead"
    OBVIOUS
  <2>. QED
    BY <1>3, <2>1 DEF Buy
<1>6. a = b
  BY <1>1, <1>5 DEF Bought
<1>. DEFINE worth == [c \in Assets |-> Notional(qty[c], price'[c])]
            total == Total(worth)
            had   == Notional(qty[a], p)
            more  == Notional(q, p)
<1>7. had <= total /\ total \in Nat
  <2>1. price' \in [Assets -> Prices] /\ worth[a] = had
    BY <1>1, <1>4, <1>6
  <2>2. total \in Nat /\ worth[a] <= total
    BY <1>1, <2>1, WorthIs
  <2>. QED
    BY <2>1, <2>2
<1>8. 100 * (had + more) <= MaxAsset * (cash + had)
  BY <1>3, <1>6 DEF Fits, Context
<1>9. Notional(qty'[a], price'[a]) = had + more
  <2>1. qty'[a] = qty[a] + q /\ price'[a] = p /\ qty[a] \in Nat
    BY <1>1, <1>4, <1>5, <1>6
  <2>2. (qty[a] + q) * p = qty[a] * p + q * p
    BY <1>4, <2>1
  <2>3. qty[a] * p \in Nat /\ q * p \in Nat
    BY <1>4, <2>1
  <2>. QED
    BY <2>1, <2>2, <2>3 DEF Notional
<1>10. had \in Nat /\ more \in Nat
  BY <1>1, <1>4, Amounts
<1>11. MaxAsset * (cash + had) <= MaxAsset * (cash + total)
  <2>. HIDE DEF had, total
  <2>1. cash + had <= cash + total
        /\ cash + had \in Nat /\ cash + total \in Nat /\ MaxAsset \in Nat
    BY <1>1, <1>7, <1>10
  <2>2. (cash + had) * MaxAsset <= (cash + total) * MaxAsset
    BY <2>1, ProductMonotone
  <2>. QED
    BY <2>1, <2>2
<1>12. MaxAsset * (cash + had) \in Nat /\ MaxAsset * (cash + total) \in Nat
  <2>. HIDE DEF had, total
  <2>. QED
    BY <1>1, <1>7, <1>10
<1>. HIDE DEF had, more, total
<1>13. 100 * (had + more) <= MaxAsset * (cash + total)
  BY <1>8, <1>10, <1>11, <1>12
<1>. QED
  BY <1>9, <1>13 DEF total

\* No purchase leaves more than its share of the account, as it was before the
\* purchase and at the prices of that moment, in one asset.
THEOREM ShareKept == Spec => AllocationCapped
  BY Invariance, PurchaseWithinShare, PTL DEF Spec, AllocationCapped

-----------------------------------------------------------------------------
(* Reports *)

Fill == [asset : Assets, side : {"BUY", "SELL"}, qty : Nat \ {0}, price : Prices]

\* The account is the one that the trades of the journal add up to.
Journaled == Trades(fills) = [qty |-> qty, cost |-> cost, pnl |-> realized]

\* Between candles the state is the account and the point its share of the
\* asset of the last candle.
Current ==
    at = None /\ state # None =>
        /\ state = [qty |-> qty, cost |-> cost, cash |-> cash, realized |-> realized,
                    equity |-> Equity]
        /\ \E x \in Assets : point = Mark(x, price[x])

ReportInv == fills \in Seq(Fill) /\ Journaled /\ ReportIsPast /\ Current

\* The daemon with its reports is the portfolio: what holds of one holds of
\* the other.
THEOREM ReportsChangeNothing == ReportSpec => Spec
<1>1. InitReport => Init
  BY DEF InitReport
<1>2. [NextReport]_<<vars, reportVars>> => [Next]_vars
  BY DEF NextReport, OpenCandle, CloseCandle, KillByHand, ReadState, WriteReport, Next
<1>. QED
  BY <1>1, <1>2, PTL DEF ReportSpec, Spec

LEMMA InitReportInv == InitReport => ReportInv
<1>. SUFFICES ASSUME InitReport PROVE ReportInv
  OBVIOUS
<1>1. fills = <<>> /\ state = None /\ report = None
  BY DEF InitReport
<1>2. fills \in Seq(Fill)
  BY <1>1
<1>3. Trades(fills) = NoTrades
  BY <1>1, TradesOfNone
<1>4. Journaled
  BY <1>3 DEF InitReport, Init, Journaled, NoTrades
<1>. QED
  BY <1>1, <1>2, <1>4 DEF ReportInv, ReportIsPast, Current

\* A sale of the whole holding takes the whole cost.
LEMMA WholePart ==
    ASSUME NEW x \in Nat, NEW y \in Nat \ {0}
    PROVE  (x * y) \div y = x
  OBVIOUS

\* What opening a candle journals: nothing, or the one fill that it applies.
LEMMA OpenJournals ==
    ASSUME IInv, NEW a \in Assets, NEW p \in Prices, Open(a, p)
    PROVE  \/ Filled(a, p) = <<>> /\ UNCHANGED account
           \/ \E q \in Nat \ {0} :
                 /\ Filled(a, p) = <<[asset |-> a, side |-> "BUY", qty |-> q, price |-> p]>>
                 /\ qty' = [qty EXCEPT ![a] = @ + q]
                 /\ cost' = [cost EXCEPT ![a] = @ + BuyCost(q, p)]
                 /\ realized' = realized
           \/ /\ Filled(a, p)
                    = <<[asset |-> a, side |-> "SELL", qty |-> qty[a], price |-> p]>>
              /\ qty[a] # 0
              /\ qty' = [qty EXCEPT ![a] = @ - qty[a]]
              /\ cost' = [cost EXCEPT ![a] = 0]
              /\ realized' = realized + SellGain(qty[a], p) - cost[a]
<1>. DEFINE o == pending[a]
            n == CHOOSE m \in 0..o.qty : Approves(o, Context(a, p), gate, m)
<1>1. CASE o = None
  BY <1>1 DEF Open, Filled
<1>2. CASE o # None
  <2>1. PICK q \in 0..o.qty :
           /\ Approves(o, Context(a, p), gate, q)
           /\ \/ q = 0 /\ at' = a /\ UNCHANGED account
              \/ q > 0 /\ o.side = "BUY" /\ Buy(a, q, p)
              \/ q > 0 /\ o.side = "SELL" /\ Sell(a, q, p)
    BY <1>2 DEF Open
  <2>2. o \in PendingOrder
    BY <1>2 DEF IInv, AccountOK
  <2>3. n = q
    <3>1. n \in 0..o.qty /\ Approves(o, Context(a, p), gate, n)
      BY <2>1
    <3>. HIDE DEF o, n
    <3>. QED
      BY <2>1, <2>2, <3>1, OneAnswer DEF PendingOrder
  <2>4. Filled(a, p) = IF q = 0 THEN <<>>
                       ELSE <<[asset |-> a, side |-> o.side, qty |-> q, price |-> p]>>
    <3>1. Filled(a, p) = IF o = None THEN <<>>
                         ELSE IF n = 0 THEN <<>>
                         ELSE <<[asset |-> a, side |-> o.side, qty |-> n, price |-> p]>>
      BY DEF Filled
    <3>. HIDE DEF o, n
    <3>. QED
      BY <1>2, <2>3, <3>1
  <2>5. q \in Nat
    BY <2>1, <2>2 DEF PendingOrder
  <2>. HIDE DEF n
  <2>6. CASE q = 0 /\ at' = a /\ UNCHANGED account
    BY <2>4, <2>6
  <2>7. CASE q > 0 /\ o.side = "BUY" /\ Buy(a, q, p)
    <3>1. at' # "dead"
      BY OpenStep DEF IInv, ApprovedIsPayable
    <3>2. /\ qty' = [qty EXCEPT ![a] = @ + q]
          /\ cost' = [cost EXCEPT ![a] = @ + BuyCost(q, p)]
          /\ realized' = realized
      BY <2>7, <3>1 DEF Buy
    <3>3. q \in Nat \ {0}
      BY <2>5, <2>7
    <3>4. Filled(a, p) = <<[asset |-> a, side |-> "BUY", qty |-> q, price |-> p]>>
      BY <2>4, <2>7, <3>3
    <3>. QED
      BY <3>2, <3>3, <3>4
  <2>8. CASE q > 0 /\ o.side = "SELL" /\ Sell(a, q, p)
    <3>1. q = qty[a]
      BY <1>2, <2>1, <2>8 DEF Approves, IInv, AccountOK
    <3>2. /\ qty' = [qty EXCEPT ![a] = @ - qty[a]]
          /\ cost' = [cost EXCEPT ![a] = 0]
      BY <2>8, <3>1 DEF Sell
    <3>3. realized' = realized + SellGain(qty[a], p) - cost[a]
      <4>1. realized \in Int /\ cost[a] \in Int /\ SellGain(qty[a], p) \in Int
        <5>1. realized \in Int /\ cost[a] \in Nat /\ qty[a] \in Nat /\ p \in Nat
          BY DEF IInv, AccountOK
        <5>. QED
          BY <5>1, Amounts
      <4>2. realized' = realized + (SellGain(qty[a], p) - cost[a])
        BY <2>8, <3>1 DEF Sell, Profit
      <4>. QED
        BY <4>1, <4>2
    <3>4. Filled(a, p) = <<[asset |-> a, side |-> "SELL", qty |-> qty[a], price |-> p]>>
      BY <2>4, <2>5, <2>8, <3>1
    <3>5. qty[a] # 0
      BY <2>5, <2>8, <3>1
    <3>. QED
      BY <3>2, <3>3, <3>4, <3>5
  <2>. QED
    BY <2>1, <2>6, <2>7, <2>8
<1>. QED
  BY <1>1, <1>2

\* The journal grows at its end.
LEMMA PrefixesStay ==
    ASSUME NEW s \in Seq(Fill), NEW f \in Fill
    PROVE  /\ s \o <<f>> = Append(s, f) /\ Append(s, f) \in Seq(Fill)
           /\ Len(Append(s, f)) = Len(s) + 1 /\ Len(s) \in Nat
           /\ \A n \in 0..Len(s) : SubSeq(Append(s, f), 1, n) = SubSeq(s, 1, n)
<1>1. s \o <<f>> = Append(s, f) /\ Append(s, f) \in Seq(Fill)
      /\ Len(Append(s, f)) = Len(s) + 1 /\ Len(s) \in Nat
  OBVIOUS
<1>2. ASSUME NEW n \in 0..Len(s)
      PROVE  SubSeq(Append(s, f), 1, n) = SubSeq(s, 1, n)
  <2>1. SubSeq(Append(s, f), 1, n) = [i \in 1..n |-> Append(s, f)[i]]
        /\ SubSeq(s, 1, n) = [i \in 1..n |-> s[i]]
    OBVIOUS
  <2>2. \A i \in 1..n : Append(s, f)[i] = s[i]
    BY <1>1
  <2>. QED
    BY <2>1, <2>2
<1>. QED
  BY <1>1, <1>2

LEMMA OpenReport ==
    ASSUME IInv, fills \in Seq(Fill), Journaled,
           NEW a \in Assets, NEW p \in Prices, OpenCandle(a, p)
    PROVE  /\ fills' \in Seq(Fill)
           /\ Journaled'
           /\ Len(fills) \in Nat /\ Len(fills') \in Nat /\ Len(fills) <= Len(fills')
           /\ \A n \in 0..Len(fills) : SubSeq(fills', 1, n) = SubSeq(fills, 1, n)
<1>1. Open(a, p) /\ fills' = fills \o Filled(a, p)
  BY DEF OpenCandle
<1>2. qty \in [Assets -> Nat] /\ cost \in [Assets -> Nat] /\ realized \in Int /\ p \in Nat
  BY DEF IInv, AccountOK
<1>3. CASE Filled(a, p) = <<>> /\ UNCHANGED account
  <2>1. fills' = fills /\ Len(fills) \in Nat
    BY <1>1, <1>3
  <2>2. Journaled'
    BY <1>3, <2>1 DEF Journaled, account
  <2>. QED
    BY <2>1, <2>2
<1>4. ASSUME NEW f \in Fill, Filled(a, p) = <<f>>,
             Traded(Trades(fills), f) = [qty |-> qty', cost |-> cost', pnl |-> realized']
      PROVE  /\ fills' \in Seq(Fill)
             /\ Journaled'
             /\ Len(fills) \in Nat /\ Len(fills') \in Nat /\ Len(fills) <= Len(fills')
             /\ \A n \in 0..Len(fills) : SubSeq(fills', 1, n) = SubSeq(fills, 1, n)
  <2>1. /\ fills' = Append(fills, f) /\ fills' \in Seq(Fill)
        /\ Len(fills') = Len(fills) + 1 /\ Len(fills) \in Nat
        /\ \A n \in 0..Len(fills) : SubSeq(fills', 1, n) = SubSeq(fills, 1, n)
    BY <1>1, <1>4, PrefixesStay
  <2>2. Trades(fills') = [qty |-> qty', cost |-> cost', pnl |-> realized']
    <3>1. Trades(Append(fills, f)) = Traded(Trades(fills), f)
      BY TradesAppend
    <3>. QED
      BY <1>4, <2>1, <3>1
  <2>. QED
    BY <2>1, <2>2 DEF Journaled
<1>5. ASSUME NEW q \in Nat \ {0},
             Filled(a, p) = <<[asset |-> a, side |-> "BUY", qty |-> q, price |-> p]>>,
             qty' = [qty EXCEPT ![a] = @ + q],
             cost' = [cost EXCEPT ![a] = @ + BuyCost(q, p)],
             realized' = realized
      PROVE  \E f \in Fill : /\ Filled(a, p) = <<f>>
                             /\ Traded(Trades(fills), f)
                                   = [qty |-> qty', cost |-> cost', pnl |-> realized']
  <2>. DEFINE f == [asset |-> a, side |-> "BUY", qty |-> q, price |-> p]
  <2>1. f \in Fill
    BY DEF Fill
  <2>2. Traded([qty |-> qty, cost |-> cost, pnl |-> realized], f)
           = [qty |-> [qty EXCEPT ![a] = @ + q],
              cost |-> [cost EXCEPT ![a] = @ + BuyCost(q, p)], pnl |-> realized]
    BY <1>2 DEF Traded
  <2>3. Traded(Trades(fills), f) = [qty |-> qty', cost |-> cost', pnl |-> realized']
    <3>. HIDE DEF f
    <3>. QED
      BY <1>5, <2>2 DEF Journaled
  <2>. QED
    BY <1>5, <2>1, <2>3
<1>6. ASSUME Filled(a, p) = <<[asset |-> a, side |-> "SELL", qty |-> qty[a], price |-> p]>>,
             qty[a] # 0,
             qty' = [qty EXCEPT ![a] = @ - qty[a]],
             cost' = [cost EXCEPT ![a] = 0],
             realized' = realized + SellGain(qty[a], p) - cost[a]
      PROVE  \E f \in Fill : /\ Filled(a, p) = <<f>>
                             /\ Traded(Trades(fills), f)
                                   = [qty |-> qty', cost |-> cost', pnl |-> realized']
  <2>. DEFINE f == [asset |-> a, side |-> "SELL", qty |-> qty[a], price |-> p]
  <2>1. f \in Fill
    BY <1>2, <1>6 DEF Fill
  <2>2. (cost[a] * qty[a]) \div qty[a] = cost[a]
    BY <1>2, <1>6, WholePart
  <2>3. Traded([qty |-> qty, cost |-> cost, pnl |-> realized], f)
           = [qty |-> [qty EXCEPT ![a] = @ - qty[a]],
              cost |-> [cost EXCEPT ![a] = @ - cost[a]],
              pnl |-> realized + SellGain(qty[a], p) - cost[a]]
    BY <1>2, <1>6, <2>2 DEF Traded
  <2>4. Traded(Trades(fills), f) = [qty |-> qty', cost |-> cost', pnl |-> realized']
    <3>1. [cost EXCEPT ![a] = @ - cost[a]] = cost'
      <4>1. cost[a] - cost[a] = 0
        BY <1>2
      <4>. QED
        BY <1>2, <1>6, <4>1
    <3>. HIDE DEF f
    <3>. QED
      BY <1>6, <2>3, <3>1 DEF Journaled
  <2>. QED
    BY <1>6, <2>1, <2>4
<1>7. \/ Filled(a, p) = <<>> /\ UNCHANGED account
      \/ \E f \in Fill : /\ Filled(a, p) = <<f>>
                         /\ Traded(Trades(fills), f)
                               = [qty |-> qty', cost |-> cost', pnl |-> realized']
  BY <1>1, <1>5, <1>6, OpenJournals
<1>. QED
  BY <1>3, <1>4, <1>7

\* A report that agreed with the journal still does when the journal grows.
LEMMA PastStays ==
    ASSUME NEW s, NEW j, NEW k, Len(j) \in Nat, Len(k) \in Nat, Len(j) <= Len(k),
           \A n \in 0..Len(j) : SubSeq(k, 1, n) = SubSeq(j, 1, n),
           \E n \in 0..Len(j) : Agrees(s, Trades(SubSeq(j, 1, n)))
    PROVE  \E n \in 0..Len(k) : Agrees(s, Trades(SubSeq(k, 1, n)))
<1>1. PICK n \in 0..Len(j) : Agrees(s, Trades(SubSeq(j, 1, n)))
  OBVIOUS
<1>2. n \in 0..Len(k) /\ SubSeq(k, 1, n) = SubSeq(j, 1, n)
  OBVIOUS
<1>. QED
  BY <1>1, <1>2

LEMMA StepReportInv ==
    ASSUME IInv, IInv', ReportInv, [NextReport]_<<vars, reportVars>>
    PROVE  ReportInv'
<1>1. ASSUME NEW a \in Assets, NEW p \in Prices, OpenCandle(a, p)
      PROVE  ReportInv'
  <2>1. /\ fills' \in Seq(Fill) /\ Journaled'
        /\ Len(fills) \in Nat /\ Len(fills') \in Nat /\ Len(fills) <= Len(fills')
        /\ \A n \in 0..Len(fills) : SubSeq(fills', 1, n) = SubSeq(fills, 1, n)
    BY <1>1, OpenReport DEF ReportInv
  <2>2. state' = state /\ report' = report
    BY <1>1 DEF OpenCandle
  <2>3. ReportIsPast'
    <3>. SUFFICES ASSUME NEW s \in {state, report} \ {None}
                  PROVE  \E n \in 0..Len(fills') : Agrees(s, Trades(SubSeq(fills', 1, n)))
      BY <2>2 DEF ReportIsPast
    <3>1. \E n \in 0..Len(fills) : Agrees(s, Trades(SubSeq(fills, 1, n)))
      BY DEF ReportInv, ReportIsPast
    <3>. QED
      BY <2>1, <3>1, PastStays
  <2>4. at' # None
    <3>1. at' = a
      BY <1>1, OpenCases DEF OpenCandle
    <3>. QED
      BY <3>1
  <2>. QED
    BY <2>1, <2>3, <2>4 DEF ReportInv, Current
<1>2. ASSUME NEW p \in Prices, CloseCandle(p)
      PROVE  ReportInv'
  <2>1. /\ at \in Assets /\ at' = None /\ UNCHANGED account
        /\ price' = [price EXCEPT ![at] = p]
        /\ point' = Mark(at, p) /\ state' = Snapshot
        /\ fills' = fills /\ report' = report
    BY <1>2 DEF CloseCandle, Close
  <2>2. price \in [Assets -> Prices] /\ price'[at] = p
    BY <2>1 DEF IInv, AccountOK
  <2>3. Journaled'
    BY <2>1 DEF ReportInv, Journaled, account
  <2>4. Agrees(state', Trades(SubSeq(fills, 1, Len(fills)))) /\ Len(fills) \in 0..Len(fills)
    <3>1. SubSeq(fills, 1, Len(fills)) = fills /\ Len(fills) \in Nat
      BY DEF ReportInv
    <3>2. Agrees(state', Trades(fills))
      BY <2>1 DEF ReportInv, Journaled, Agrees, Snapshot
    <3>3. Len(fills) \in 0..Len(fills)
      BY <3>1
    <3>. QED
      BY <3>1, <3>2, <3>3
  <2>5. ReportIsPast'
    <3>1. ASSUME NEW s \in {state', report} \ {None}
          PROVE  \E n \in 0..Len(fills) : Agrees(s, Trades(SubSeq(fills, 1, n)))
      <4>1. CASE s = state'
        BY <2>4, <4>1
      <4>2. CASE s = report
        BY <3>1, <4>2 DEF ReportInv, ReportIsPast
      <4>. QED
        BY <3>1, <4>1, <4>2
    <3>. QED
      BY <2>1, <3>1 DEF ReportIsPast
  <2>6. Current'
    <3>1. state' = [qty |-> qty', cost |-> cost', cash |-> cash', realized |-> realized',
                    equity |-> Equity']
      BY <2>1 DEF Snapshot, account
    <3>2. \E x \in Assets : point' = [asset |-> x, value |-> Notional(qty'[x], price'[x]),
                               equity |-> cash' + Notional(qty'[x], price'[x]),
                               realized |-> realized',
                               unrealized |-> Notional(qty'[x], price'[x]) - cost'[x]]
      BY <2>1, <2>2 DEF Mark, account
    <3>. QED
      BY <3>1, <3>2 DEF Current, Mark
  <2>. QED
    BY <2>1, <2>3, <2>5, <2>6 DEF ReportInv
<1>3. CASE UNCHANGED <<at, price, account, fills, point, state>>
         /\ report' \in {None, state, report}
  BY <1>3 DEF account, ReportInv, Journaled, ReportIsPast, Current, Equity, Mark
<1>4. \/ \E a \in Assets, p \in Prices : OpenCandle(a, p)
      \/ \E p \in Prices : CloseCandle(p)
      \/ UNCHANGED <<at, price, account, fills, point, state>>
         /\ report' \in {None, state, report}
  BY DEF NextReport, KillByHand, KillSwitch, ReadState, WriteReport, vars, reportVars
<1>. QED
  BY <1>1, <1>2, <1>3, <1>4

LEMMA ReportInvariance == ReportSpec => []ReportInv
<1>1. IInv /\ IInv' /\ ReportInv /\ [NextReport]_<<vars, reportVars>> => ReportInv'
  BY StepReportInv
<1>. QED
  BY <1>1, InitReportInv, ReportsChangeNothing, Invariance, PTL DEF ReportSpec

\* A report never shows an account that the journal does not add up to: two
\* computations of the cost basis agree, whatever the daemon did between the
\* two reads.
THEOREM ReportsPast == ReportSpec => []ReportIsPast
  BY ReportInvariance, PTL DEF ReportInv

\* Between candles the state reconciles and the equity point is short of it by
\* what the other assets are worth.
LEMMA PointFromState == IInv /\ Conservation /\ ReportInv => PointIsPartial
<1>. DEFINE worth == [a \in Assets |-> Notional(qty[a], price[a])]
<1>. SUFFICES ASSUME IInv, Conservation, ReportInv, at = None, state # None
              PROVE  PointIsPartial
  BY DEF PointIsPartial
<1>1. PICK x \in Assets : point = Mark(x, price[x])
  BY DEF ReportInv, Current
<1>2. /\ point.asset = x /\ point.equity = cash + worth[x]
      /\ point.realized = realized /\ point.unrealized = worth[x] - cost[x]
  BY <1>1 DEF Mark
<1>3. state = [qty |-> qty, cost |-> cost, cash |-> cash, realized |-> realized,
               equity |-> Equity]
  BY DEF ReportInv, Current
<1>4. Agrees(state, Trades(fills))
  BY <1>3 DEF ReportInv, Journaled, Agrees
<1>5. /\ cash \in Nat /\ qty \in [Assets -> Nat] /\ cost \in [Assets -> Nat]
      /\ realized \in Int /\ price \in [Assets -> Prices]
  BY DEF IInv, AccountOK
<1>6. /\ worth \in [Assets -> Nat] /\ Total(worth) = SumFunctionOnSet(worth, Assets)
      /\ Total(worth) \in Nat
  BY <1>5, WorthIs
<1>7. Equity = cash + Total(worth)
  BY DEF Equity
<1>8. ~Inconsistent(state)
  <2>1. /\ state.cash = cash /\ state.qty = qty
        /\ state.equity = cash + Total([a \in Assets |-> Notional(state.qty[a], price[a])])
    BY <1>3, <1>7
  <2>. QED
    BY <1>5, <2>1 DEF Inconsistent
<1>. HIDE DEF worth
<1>9. SumFunctionOnSet(worth, Assets) = worth[x] + SumFunctionOnSet(worth, Assets \ {x})
      /\ SumFunctionOnSet(cost, Assets) = cost[x] + SumFunctionOnSet(cost, Assets \ {x})
  <2>1. \A y \in Assets : worth[y] \in Int /\ cost[y] \in Int
    BY <1>5, <1>6
  <2>. QED
    BY <2>1, SumSplit
<1>10. Total(cost) = SumFunctionOnSet(cost, Assets)
  BY <1>5, TotalIsSum
<1>11. IsFiniteSet(Assets \ {x})
  BY FS_Subset
<1>12. SumFunctionOnSet(worth, Assets \ {x}) \in Nat
       /\ SumFunctionOnSet(cost, Assets \ {x}) \in Nat
  <2>1. \A y \in Assets \ {x} : worth[y] \in Nat /\ cost[y] \in Nat
    BY <1>5, <1>6
  <2>. QED
    BY <1>11, <2>1, SumType
<1>13. state.equity - point.equity = SumFunctionOnSet(worth, Assets \ {x})
  <2>1. state.equity = cash + Total(worth) /\ worth[x] \in Nat
    BY <1>3, <1>6, <1>7
  <2>. QED
    BY <1>2, <1>5, <1>6, <1>9, <1>12, <2>1
<1>14. Cash * 10000 + point.realized + point.unrealized - point.equity
         = SumFunctionOnSet(cost, Assets \ {x})
  <2>1. cash + Total(cost) = Cash * 10000 + realized
    BY DEF Conservation
  <2>2. worth[x] \in Nat /\ cost[x] \in Nat
    BY <1>5, <1>6
  <2>. QED
    BY <1>2, <1>5, <1>9, <1>10, <1>12, <2>1, <2>2
<1>15. /\ state.equity - point.equity = SumFunctionOnSet(worth, Assets \ {point.asset})
       /\ Cash * 10000 + point.realized + point.unrealized - point.equity
              = SumFunctionOnSet(cost, Assets \ {point.asset})
  BY <1>2, <1>13, <1>14
<1>. QED
  BY <1>4, <1>8, <1>15 DEF PointIsPartial, worth

\* Between candles the saved state is the account of all journaled fills and
\* reconciles; the equity point beside it lacks exactly the other assets.
THEOREM PointsPartial == ReportSpec => []PointIsPartial
  BY ReportInvariance, ReportsChangeNothing, Invariance, Conserved, PointFromState, PTL
=============================================================================
