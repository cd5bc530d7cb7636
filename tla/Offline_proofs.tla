--------------------------- MODULE Offline_proofs ---------------------------
(***************************************************************************)
(* What the research commands keep for every dataset, every set of candles *)
(* with complete features, every horizon, embargo, fold size and step, and *)
(* what a fetch keeps for every history, page size and number of failures. *)
(*                                                                         *)
(* Rows are counted and labels reach over candles: the bridge between the  *)
(* two is PositionGap, that rows so many positions apart are at least as   *)
(* many candles apart.  A page is a run of the history without a hole; the *)
(* invariant of a fetch says how far the rows it has joined reach.         *)
(***************************************************************************)
EXTENDS Offline, FiniteSetTheorems, SequenceTheorems, TLAPS

Dataset(rows) == rows \subseteq Nat /\ IsFiniteSet(rows)

LEMMA PositionNat ==
    ASSUME NEW rows, Dataset(rows), NEW b \in Nat
    PROVE  /\ IsFiniteSet({r \in rows : r < b})
           /\ Position(rows, b) \in Nat /\ Position(rows, b) <= Cardinality(rows)
<1>1. {r \in rows : r < b} \subseteq rows
  OBVIOUS
<1>2. /\ IsFiniteSet({r \in rows : r < b})
      /\ Cardinality({r \in rows : r < b}) <= Cardinality(rows)
  BY <1>1, FS_Subset DEF Dataset
<1>. QED
  BY <1>2, FS_CardinalityType DEF Position

\* A row is not before itself.
LEMMA PositionBelow ==
    ASSUME NEW rows, Dataset(rows), NEW b \in rows
    PROVE  Position(rows, b) < Cardinality(rows)
<1>. DEFINE A == {r \in rows : r < b}
<1>1. A \subseteq rows /\ A # rows
  BY DEF Dataset
<1>2. Cardinality(A) < Cardinality(rows)
  BY <1>1, FS_Subset, FS_CardinalityType DEF Dataset
<1>. QED
  BY <1>2 DEF Position

\* An earlier row has an earlier position.
LEMMA PositionRises ==
    ASSUME NEW rows, Dataset(rows), NEW t \in rows, NEW s \in rows, t < s
    PROVE  Position(rows, t) < Position(rows, s)
<1>. DEFINE A == {r \in rows : r < t}
            C == {r \in rows : r < s}
<1>1. t \in Nat /\ s \in Nat /\ \A r \in rows : r \in Nat
  BY DEF Dataset
<1>2. A \in SUBSET C
  <2>1. \A r \in rows : r < t => r < s
    BY <1>1
  <2>. QED
    BY <2>1
<1>3. t \in C /\ t \notin A
  BY <1>1
<1>4. IsFiniteSet(C) /\ Position(rows, s) = Cardinality(C) /\ Position(rows, t) = Cardinality(A)
  BY <1>1, PositionNat DEF Position
<1>. HIDE DEF A, C
<1>5. Cardinality(A) < Cardinality(C)
  BY <1>2, <1>3, <1>4, FS_Subset, FS_CardinalityType
<1>. QED
  BY <1>4, <1>5

\* Rows that are h positions and one apart are more than h candles apart.
LEMMA PositionGap ==
    ASSUME NEW rows, Dataset(rows), NEW t \in rows, NEW s \in rows, NEW h \in Nat,
           Position(rows, t) + h < Position(rows, s)
    PROVE  t + h < s
<1>. DEFINE A == {r \in rows : r < t}
            B == {r \in rows : t <= r /\ r < s}
            C == {r \in rows : r < s}
<1>1. /\ t \in Nat /\ s \in Nat
      /\ \A r \in rows : r \in Nat
  BY DEF Dataset
<1>2. /\ IsFiniteSet(A) /\ IsFiniteSet(C)
      /\ Cardinality(A) \in Nat /\ Cardinality(C) \in Nat
      /\ Cardinality(A) + h < Cardinality(C)
  <2>1. IsFiniteSet(A) /\ Position(rows, t) = Cardinality(A) /\ Cardinality(A) \in Nat
    BY <1>1, PositionNat DEF Position
  <2>2. IsFiniteSet(C) /\ Position(rows, s) = Cardinality(C) /\ Cardinality(C) \in Nat
    BY <1>1, PositionNat DEF Position
  <2>. QED
    BY <2>1, <2>2
<1>3. t < s
  <2>1. SUFFICES ASSUME s <= t
                 PROVE  FALSE
    BY <1>1
  <2>2. \A r \in rows : r < s => r < t
    BY <1>1, <2>1
  <2>3. C \in SUBSET A
    BY <2>2
  <2>4. Cardinality(C) <= Cardinality(A)
    BY <1>2, <2>3, FS_Subset
  <2>. QED
    BY <1>2, <2>4
<1>4. \A r \in rows : t <= r /\ r < s => r \in t .. (s - 1)
  BY <1>1
<1>5. B \in SUBSET (t .. (s - 1))
  BY <1>4
<1>6. IsFiniteSet(t .. (s - 1)) /\ Cardinality(t .. (s - 1)) = s - t
  <2>1. t \in Int /\ s - 1 \in Int /\ ~(t > s - 1) /\ (s - 1) - t + 1 = s - t
    BY <1>1, <1>3
  <2>. QED
    BY <2>1, FS_Interval
<1>7. IsFiniteSet(B) /\ Cardinality(B) \in Nat /\ Cardinality(B) <= s - t
  BY <1>5, <1>6, FS_Subset, FS_CardinalityType
<1>8. \A r \in rows : r < s <=> (r < t \/ (t <= r /\ r < s))
  BY <1>1, <1>3
<1>9. C = A \cup B
  <2>1. \A x : x \in C <=> x \in A \/ x \in B
    BY <1>8
  <2>. HIDE DEF A, B, C
  <2>. QED
    BY <2>1
<1>10. Cardinality(C) <= Cardinality(A) + Cardinality(B)
  <2>1. A \cap B \in SUBSET A
    OBVIOUS
  <2>2. IsFiniteSet(A \cap B) /\ Cardinality(A \cap B) \in Nat
    BY <1>2, <2>1, FS_Subset, FS_CardinalityType
  <2>3. Cardinality(A \cup B) = Cardinality(A) + Cardinality(B) - Cardinality(A \cap B)
    BY <1>2, <1>7, FS_Union
  <2>. HIDE DEF A, B, C
  <2>. QED
    BY <1>2, <1>7, <1>9, <2>2, <2>3
<1>. QED
  BY <1>1, <1>2, <1>7, <1>10

-----------------------------------------------------------------------------
(* Splits *)

\* The seal lies within the rows.
LEMMA SealNat ==
    ASSUME NEW n \in Nat
    PROVE  SealAt(n) \in Nat /\ SealAt(n) <= n
<1>. DEFINE q == 100 - HoldoutPercent
<1>1. q \in 0..100
  BY ResearchAssumption DEF ResearchAssumption
<1>2. n * q \in Nat /\ n * q <= 100 * n
  BY <1>1
<1>3. (n * q) \div 100 \in Nat /\ (n * q) \div 100 <= n
  BY <1>2
<1>. QED
  BY <1>3 DEF SealAt

LEMMA HoldoutPosition ==
    ASSUME NEW rows, Dataset(rows), NEW r \in Holdout(rows)
    PROVE  /\ r \in rows
           /\ Position(rows, r) \in Nat
           /\ SealAt(Cardinality(rows)) <= Position(rows, r)
           /\ Position(rows, r) < Cardinality(rows)
<1>1. r \in rows /\ r \notin Slice(rows, 0, SealAt(Cardinality(rows)))
  BY DEF Holdout, Development
<1>2. Position(rows, r) \in Nat /\ Position(rows, r) < Cardinality(rows)
  BY <1>1, PositionNat, PositionBelow DEF Dataset
<1>3. Cardinality(rows) \in Nat /\ SealAt(Cardinality(rows)) \in Nat
  BY FS_CardinalityType, SealNat DEF Dataset
<1>. QED
  BY <1>1, <1>2, <1>3 DEF Slice

\* A fold whose validation begins a horizon after its training is purged.
LEMMA FoldPurged ==
    ASSUME NEW rows, Dataset(rows), NEW trained \in Int, NEW from \in Int, NEW to \in Int,
           NEW h \in Nat, trained + h <= from,
           NEW t \in Fold(rows, trained, from, to).train,
           NEW s \in Fold(rows, trained, from, to).scored
    PROVE  t + h < s
<1>1. /\ t \in rows /\ Position(rows, t) < trained
      /\ s \in rows /\ from <= Position(rows, s)
  BY DEF Fold, Slice
<1>2. Position(rows, t) \in Nat /\ Position(rows, s) \in Nat
  BY <1>1, PositionNat DEF Dataset
<1>. QED
  BY <1>1, <1>2, PositionGap

\* A fold that ends at the seal keeps its rows in front of the holdout.
LEMMA FoldInside ==
    ASSUME NEW rows, Dataset(rows), NEW trained \in Int, NEW from \in Int, NEW to \in Int,
           trained <= from, from <= to, to <= SealAt(Cardinality(rows)),
           NEW f, f = Fold(rows, trained, from, to), NEW b \in f.train \cup f.scored
    PROVE  /\ b \in rows /\ Position(rows, b) \in Nat
           /\ Position(rows, b) < SealAt(Cardinality(rows))
<1>1. b \in rows /\ (Position(rows, b) < to \/ Position(rows, b) < trained)
  <2>1. CASE b \in f.train
    BY <2>1 DEF Fold, Slice
  <2>2. CASE b \in f.scored
    BY <2>2 DEF Fold, Slice
  <2>. QED
    BY <2>1, <2>2
<1>2. Position(rows, b) \in Nat
  BY <1>1, PositionNat DEF Dataset
<1>3. SealAt(Cardinality(rows)) \in Nat
  BY FS_CardinalityType, SealNat DEF Dataset
<1>. QED
  BY <1>1, <1>2, <1>3

LEMMA FoldSealed ==
    ASSUME NEW rows, Dataset(rows), NEW trained \in Int, NEW from \in Int, NEW to \in Int,
           trained <= from, from <= to, to <= SealAt(Cardinality(rows)),
           NEW f, f = Fold(rows, trained, from, to),
           NEW b \in f.train \cup f.scored, NEW r \in Holdout(rows)
    PROVE  b < r
<1>1. SealAt(Cardinality(rows)) \in Nat
  BY FS_CardinalityType, SealNat DEF Dataset
<1>2. /\ b \in rows /\ Position(rows, b) \in Nat
      /\ Position(rows, b) < SealAt(Cardinality(rows))
  BY FoldInside
<1>3. b \in rows /\ Position(rows, b) + 0 < Position(rows, r)
  BY <1>1, <1>2, HoldoutPosition
<1>4. b + 0 < r
  BY <1>3, HoldoutPosition, PositionGap
<1>. QED
  BY <1>3, <1>4, HoldoutPosition DEF Dataset

\* The rows of the holdout that the labels of the rows B reach.
Reached(rows, h, B) == {r \in Holdout(rows) : \E b \in B : r <= b + h}

\* Labels of development rows reach no further than h positions past the seal,
\* and no two rows have the same position.
LEMMA ReachBound ==
    ASSUME NEW rows, Dataset(rows), NEW h \in Nat, NEW B,
           \A b \in B : /\ b \in rows /\ Position(rows, b) \in Nat
                        /\ Position(rows, b) < SealAt(Cardinality(rows))
    PROVE  Cardinality(Reached(rows, h, B)) <= h
<1>. DEFINE n == SealAt(Cardinality(rows))
            S == Reached(rows, h, B)
            T == n .. (n + h - 1)
            f == [r \in S |-> Position(rows, r)]
<1>1. n \in Nat
  BY FS_CardinalityType, SealNat DEF Dataset
<1>2. IsFiniteSet(T) /\ Cardinality(T) = h
  <2>1. n \in Int /\ n + h - 1 \in Int
    BY <1>1
  <2>2. IF n > n + h - 1 THEN h = 0 ELSE (n + h - 1) - n + 1 = h
    BY <1>1
  <2>. QED
    BY <2>1, <2>2, FS_Interval
<1>. HIDE DEF n
<1>3. ASSUME NEW r \in S
      PROVE  r \in rows /\ Position(rows, r) \in T
  <2>1. /\ r \in Holdout(rows) /\ r \in rows /\ Position(rows, r) \in Nat
        /\ n <= Position(rows, r)
    BY <1>3, HoldoutPosition DEF n, Reached
  <2>2. PICK b \in B : r <= b + h
    BY <1>3 DEF Reached
  <2>3. b \in rows /\ Position(rows, b) \in Nat /\ Position(rows, b) < n
    BY <2>2 DEF n
  <2>4. ~(b + h < r)
    BY <2>1, <2>2, <2>3 DEF Dataset
  <2>5. ~(Position(rows, b) + h < Position(rows, r))
    BY <2>1, <2>3, <2>4, PositionGap
  <2>. QED
    BY <1>1, <2>1, <2>3, <2>5
<1>4. ASSUME NEW r \in S, NEW q \in S, Position(rows, r) = Position(rows, q)
      PROVE  r = q
  <2>1. r \in rows /\ q \in rows /\ r \in Nat /\ q \in Nat
        /\ Position(rows, r) \in Nat /\ Position(rows, q) \in Nat
    BY <1>3, PositionNat DEF Dataset
  <2>2. ~(r < q) /\ ~(q < r)
    BY <1>4, <2>1, PositionRises
  <2>. QED
    BY <2>1, <2>2
<1>. HIDE DEF S, T
<1>5. f \in Injection(S, T)
  BY <1>3, <1>4 DEF Injection, IsInjective
<1>. HIDE DEF f
<1>6. Cardinality(S) <= Cardinality(T)
  BY <1>2, <1>5, FS_Injection
<1>. QED
  BY <1>2, <1>6 DEF S

\* A fold trained up to a horizon in front of the seal reads no close of the
\* holdout.
LEMMA LabelsSealed ==
    ASSUME NEW rows, Dataset(rows), NEW trained \in Int, NEW from, NEW to, NEW h \in Nat,
           trained + h <= SealAt(Cardinality(rows)),
           NEW f, f = Fold(rows, trained, from, to),
           NEW b \in f.train, NEW r \in Holdout(rows)
    PROVE  b + h < r
<1>1. b \in rows /\ Position(rows, b) < trained
  BY DEF Fold, Slice
<1>2. Position(rows, b) \in Nat
  BY <1>1, PositionNat DEF Dataset
<1>3. SealAt(Cardinality(rows)) \in Nat
  BY FS_CardinalityType, SealNat DEF Dataset
<1>4. Position(rows, b) + h < Position(rows, r)
  BY <1>1, <1>2, <1>3, HoldoutPosition
<1>. QED
  BY <1>1, <1>4, HoldoutPosition, PositionGap

\* What expanding_walk_forward() returns.
LEMMA WalkForwardFolds ==
    ASSUME NEW rows, NEW n \in Nat, NEW c \in Configs, NEW f \in WalkForward(rows, n, c)
    PROVE  \E trained \in Nat, from \in Nat, to \in Nat :
              /\ f = Fold(rows, trained, from, to)
              /\ trained + c.horizon <= from /\ trained <= from /\ from <= to /\ to <= n
<1>. DEFINE trained(k) == c.train + k * c.step
            from(k)    == trained(k) + c.horizon + c.embargo
<1>1. PICK k \in 0..n : /\ from(k) + c.validation <= n
                        /\ f = Fold(rows, trained(k), from(k), from(k) + c.validation)
  BY DEF WalkForward
<1>2. /\ c.train \in Nat /\ c.step \in Nat /\ c.horizon \in Nat
      /\ c.embargo \in Nat /\ c.validation \in Nat
  BY ResearchAssumption DEF ResearchAssumption, Configs
<1>3. k * c.step \in Nat
  BY <1>2
<1>4. trained(k) \in Nat /\ from(k) \in Nat /\ from(k) + c.validation \in Nat
  BY <1>2, <1>3
<1>5. /\ trained(k) + c.horizon <= from(k) /\ trained(k) <= from(k)
      /\ from(k) <= from(k) + c.validation
  BY <1>2, <1>4
<1>. QED
  BY <1>1, <1>4, <1>5

\* What chronological_holdout() returns.
LEMMA ChronologicalFold ==
    ASSUME NEW rows, NEW n, NEW v, NEW h, NEW e, NEW f \in Chronological(rows, n, v, h, e)
    PROVE  f = Fold(rows, n - v - h - e, n - v, n) /\ v > 0
BY DEF Chronological

-----------------------------------------------------------------------------
(* The commands *)

USE MarketAssumption, ResearchAssumption

\* A dataset's usable rows are numbered candles.
LEMMA UsableDataset ==
    ASSUME NEW size \in Nat, NEW complete \in SUBSET (1..size), NEW h
    PROVE  Dataset(Usable(complete, size, h)) /\ Cardinality(Usable(complete, size, h)) \in Nat
<1>1. Usable(complete, size, h) \in SUBSET (1..size)
  BY DEF Usable
<1>2. IsFiniteSet(1..size)
  BY FS_Interval
<1>3. IsFiniteSet(Usable(complete, size, h))
  BY <1>1, <1>2, FS_Subset
<1>. QED
  BY <1>1, <1>3, FS_CardinalityType DEF Dataset

\* What Purged and SealHolds say of one study.
PurgedStudy(s) ==
    \A f \in s.fits : \A t \in f.train, b \in f.scored : t + s.horizon < b

SealedStudy(s) ==
    \A f \in s.fits :
        /\ s.kind # "final" =>
              /\ \A b \in f.train \cup f.scored, r \in Holdout(s.rows) : b < r
              /\ Cardinality(Reached(s.rows, s.horizon, f.train \cup f.scored)) <= s.horizon
        /\ f.scored # {} => \A b \in f.train, r \in Holdout(s.rows) : b + s.horizon < r
        /\ s.kind = "final" => Holdout(s.rows) \subseteq f.scored

LEMMA ExperimentStudy ==
    ASSUME NEW size \in Nat, NEW complete \in SUBSET (1..size), NEW c \in Configs,
           Experiment(size, complete, c)
    PROVE  PurgedStudy(study') /\ SealedStudy(study')
<1>. DEFINE rows == Usable(complete, size, c.horizon)
            n    == SealAt(Cardinality(rows))
<1>1. Dataset(rows) /\ n \in Nat /\ c.horizon \in Nat
  <2>1. c.horizon \in Nat
    BY DEF ResearchAssumption, Configs
  <2>2. Dataset(rows) /\ Cardinality(rows) \in Nat
    BY UsableDataset
  <2>. QED
    BY <2>1, <2>2, SealNat
<1>2. /\ study'.kind = "experiment" /\ study'.rows = rows /\ study'.horizon = c.horizon
      /\ study'.fits = WalkForward(rows, n, c)
  BY DEF Experiment, Study
<1>. HIDE DEF rows, n
<1>3. ASSUME NEW f \in study'.fits
      PROVE  /\ \A t \in f.train, b \in f.scored : t + c.horizon < b
             /\ \A r \in Holdout(rows) :
                   /\ \A b \in f.train \cup f.scored : b < r
                   /\ \A b \in f.train : b + c.horizon < r
             /\ Cardinality(Reached(rows, c.horizon, f.train \cup f.scored)) <= c.horizon
  <2>1. PICK trained \in Nat, from \in Nat, to \in Nat :
              /\ f = Fold(rows, trained, from, to)
              /\ trained + c.horizon <= from /\ trained <= from /\ from <= to /\ to <= n
    BY <1>1, <1>2, <1>3, WalkForwardFolds
  <2>2. \A t \in f.train, b \in f.scored : t + c.horizon < b
    BY <1>1, <2>1, FoldPurged
  <2>3. \A r \in Holdout(rows) : \A b \in f.train \cup f.scored : b < r
    BY <1>1, <2>1, FoldSealed DEF n
  <2>4. trained + c.horizon <= n
    BY <1>1, <2>1
  <2>5. \A r \in Holdout(rows) : \A b \in f.train : b + c.horizon < r
    BY <1>1, <2>1, <2>4, LabelsSealed DEF n
  <2>6. \A b \in f.train \cup f.scored :
           /\ b \in rows /\ Position(rows, b) \in Nat
           /\ Position(rows, b) < SealAt(Cardinality(rows))
    BY <1>1, <2>1, FoldInside DEF n
  <2>7. Cardinality(Reached(rows, c.horizon, f.train \cup f.scored)) <= c.horizon
    BY <1>1, <2>6, ReachBound
  <2>. QED
    BY <2>2, <2>3, <2>5, <2>7
<1>. QED
  BY <1>2, <1>3 DEF PurgedStudy, SealedStudy

LEMMA FinalStudy ==
    ASSUME NEW size \in Nat, NEW complete \in SUBSET (1..size),
           NEW h \in Horizons, NEW e \in Embargoes,
           FinalEvaluation(size, complete, h, e)
    PROVE  PurgedStudy(study') /\ SealedStudy(study')
<1>. DEFINE rows == Usable(complete, size, h)
            m    == Cardinality(rows)
            n    == SealAt(m)
<1>1. Dataset(rows) /\ m \in Nat /\ n \in Nat /\ h \in Nat /\ e \in Nat
  <2>1. h \in Nat /\ e \in Nat
    BY DEF ResearchAssumption
  <2>2. Dataset(rows) /\ m \in Nat
    BY UsableDataset
  <2>. QED
    BY <2>1, <2>2, SealNat
<1>2. /\ study'.kind = "final" /\ study'.rows = rows /\ study'.horizon = h
      /\ study'.fits = Chronological(rows, m, m - n, h, e)
  BY DEF FinalEvaluation, Study
<1>. HIDE DEF rows, m, n
<1>3. ASSUME NEW f \in study'.fits
      PROVE  /\ \A t \in f.train, b \in f.scored : t + h < b
             /\ \A r \in Holdout(rows) : /\ \A b \in f.train : b + h < r
                                         /\ r \in f.scored
  <2>1. f = Fold(rows, m - (m - n) - h - e, m - (m - n), m)
    BY <1>2, <1>3, ChronologicalFold
  <2>2. PICK trained \in Int : trained = m - (m - n) - h - e /\ trained + h <= n
    BY <1>1
  <2>3. f = Fold(rows, trained, n, m)
    BY <1>1, <2>1, <2>2
  <2>4. \A t \in f.train, b \in f.scored : t + h < b
    BY <1>1, <2>2, <2>3, FoldPurged
  <2>5. \A r \in Holdout(rows) : \A b \in f.train : b + h < r
    BY <1>1, <2>2, <2>3, LabelsSealed DEF n, m
  <2>6. \A r \in Holdout(rows) : r \in f.scored
    <3>1. \A r \in Holdout(rows) :
             r \in rows /\ n <= Position(rows, r) /\ Position(rows, r) < m
      BY <1>1, HoldoutPosition DEF n, m
    <3>. QED
      BY <2>3, <3>1 DEF Fold, Slice
  <2>. QED
    BY <2>4, <2>5, <2>6
<1>. QED
  BY <1>2, <1>3 DEF PurgedStudy, SealedStudy

LEMMA FreezeStudy ==
    ASSUME NEW size \in Nat, NEW complete \in SUBSET (1..size),
           NEW h \in Horizons, NEW v \in Versions,
           FreezeModel(size, complete, h, v)
    PROVE  PurgedStudy(study') /\ SealedStudy(study')
<1>. DEFINE rows == Usable(complete, size, h)
            n     == SealAt(Cardinality(rows))
            part  == (n * ValidationPercent) \div 100
            valid == IF part < MinValidation THEN MinValidation ELSE part
<1>1. Dataset(rows) /\ n \in Nat /\ h \in Nat /\ valid \in Nat
  <2>1. h \in Nat /\ ValidationPercent \in Nat /\ MinValidation \in Nat
    BY DEF ResearchAssumption
  <2>2. Dataset(rows) /\ Cardinality(rows) \in Nat
    BY UsableDataset
  <2>3. n \in Nat
    BY <2>2, SealNat
  <2>4. n * ValidationPercent \in Nat
    BY <2>1, <2>3
  <2>5. part \in Nat
    BY <2>4
  <2>. QED
    BY <2>1, <2>2, <2>3, <2>5
<1>2. /\ study'.kind = "freeze" /\ study'.rows = rows /\ study'.horizon = h
      /\ study'.fits = Chronological(rows, n, valid, h, 1) \cup {Fold(rows, n, n, n)}
  BY DEF FreezeModel, Study
<1>. HIDE DEF rows, n, part, valid
<1>3. ASSUME NEW f \in study'.fits
      PROVE  /\ \A t \in f.train, b \in f.scored : t + h < b
             /\ \A r \in Holdout(rows) :
                   /\ \A b \in f.train \cup f.scored : b < r
                   /\ f.scored # {} => \A b \in f.train : b + h < r
             /\ Cardinality(Reached(rows, h, f.train \cup f.scored)) <= h
  <2>1. CASE f \in Chronological(rows, n, valid, h, 1)
    <3>1. f = Fold(rows, n - valid - h - 1, n - valid, n) /\ valid > 0
      BY <2>1, ChronologicalFold
    <3>2. PICK trained \in Int, from \in Int :
                /\ trained = n - valid - h - 1 /\ from = n - valid
                /\ trained + h <= from /\ trained <= from /\ from <= n /\ trained + h <= n
      BY <1>1, <3>1
    <3>3. f = Fold(rows, trained, from, n) /\ n \in Int
      BY <1>1, <3>1, <3>2
    <3>4. \A t \in f.train, b \in f.scored : t + h < b
      BY <1>1, <3>2, <3>3, FoldPurged
    <3>5. \A r \in Holdout(rows) : \A b \in f.train \cup f.scored : b < r
      BY <1>1, <3>2, <3>3, FoldSealed DEF n
    <3>6. \A r \in Holdout(rows) : \A b \in f.train : b + h < r
      BY <1>1, <3>2, <3>3, LabelsSealed DEF n
    <3>7. \A b \in f.train \cup f.scored :
             /\ b \in rows /\ Position(rows, b) \in Nat
             /\ Position(rows, b) < SealAt(Cardinality(rows))
      BY <1>1, <3>2, <3>3, FoldInside DEF n
    <3>8. Cardinality(Reached(rows, h, f.train \cup f.scored)) <= h
      BY <1>1, <3>7, ReachBound
    <3>. QED
      BY <3>4, <3>5, <3>6, <3>8
  <2>2. CASE f = Fold(rows, n, n, n)
    <3>1. f.scored = {}
      <4>1. \A b \in rows : Position(rows, b) \in Nat
        BY <1>1, PositionNat DEF Dataset
      <4>2. \A b \in rows : ~(n <= Position(rows, b) /\ Position(rows, b) < n)
        BY <1>1, <4>1
      <4>. QED
        BY <2>2, <4>2 DEF Fold, Slice
    <3>2. \A r \in Holdout(rows) : \A b \in f.train \cup f.scored : b < r
      BY <1>1, <2>2, FoldSealed DEF n
    <3>3. \A b \in f.train \cup f.scored :
             /\ b \in rows /\ Position(rows, b) \in Nat
             /\ Position(rows, b) < SealAt(Cardinality(rows))
      BY <1>1, <2>2, FoldInside DEF n
    <3>4. Cardinality(Reached(rows, h, f.train \cup f.scored)) <= h
      BY <1>1, <3>3, ReachBound
    <3>. QED
      BY <3>1, <3>2, <3>4
  <2>. QED
    BY <1>2, <1>3, <2>1, <2>2
<1>. QED
  BY <1>2, <1>3 DEF PurgedStudy, SealedStudy

-----------------------------------------------------------------------------
(* The pipeline *)

IInv == Purged /\ SealHolds

\* Every command leaves a study that is purged and respects the seal, and
\* nothing else touches a study.
LEMMA StepKeepsStudy ==
    ASSUME IInv, [Next]_vars
    PROVE  IInv'
<1>1. SUFFICES study' # NoStudy => PurgedStudy(study') /\ SealedStudy(study')
  BY DEF IInv, Purged, SealHolds, PurgedStudy, SealedStudy, Reached
<1>2. CASE study' = study
  BY <1>2 DEF IInv, Purged, SealHolds, PurgedStudy, SealedStudy, Reached
<1>3. CASE Command
  <2>1. PICK size \in 1..MaxBar : StudyNext(size)
    BY <1>3 DEF Command
  <2>2. size \in Nat
    BY DEF MarketAssumption
  <2>3. ASSUME NEW lost, NEW complete, complete = (1..size) \ lost,
               \/ \E c \in Configs : Experiment(size, complete, c)
               \/ \E h \in Horizons, e \in Embargoes : FinalEvaluation(size, complete, h, e)
               \/ \E h \in Horizons, v \in Versions : FreezeModel(size, complete, h, v)
        PROVE  PurgedStudy(study') /\ SealedStudy(study')
    <3>1. complete \in SUBSET (1..size)
      BY <2>3
    <3>2. CASE \E c \in Configs : Experiment(size, complete, c)
      BY <2>2, <3>1, <3>2, ExperimentStudy
    <3>3. CASE \E h \in Horizons, e \in Embargoes : FinalEvaluation(size, complete, h, e)
      BY <2>2, <3>1, <3>3, FinalStudy
    <3>4. CASE \E h \in Horizons, v \in Versions : FreezeModel(size, complete, h, v)
      BY <2>2, <3>1, <3>4, FreezeStudy
    <3>. QED
      BY <2>3, <3>2, <3>3, <3>4
  <2>. QED
    BY <2>1, <2>3 DEF StudyNext
<1>4. CASE Exit
  BY <1>4 DEF Exit
<1>5. CASE PromoteNext
  BY <1>2, <1>5 DEF PromoteNext, Register, PromoteToPaper, PromoteDies
<1>6. CASE MarketNext /\ UNCHANGED researchVars
  BY <1>2, <1>6 DEF researchVars
<1>7. CASE UNCHANGED vars
  BY <1>2, <1>7 DEF vars, researchVars
<1>. QED
  BY <1>3, <1>4, <1>5, <1>6, <1>7 DEF Next

LEMMA InitStudy == Init => IInv
BY DEF Init, ResearchInit, IInv, Purged, SealHolds

\* No model of the offline commands is scored on a row whose past its labels
\* have seen, for any dataset, missing features, horizon and fold sizes.
THEOREM PurgedAlways == Spec => []Purged
<1>1. Init => IInv
  BY InitStudy
<1>2. IInv /\ [Next]_vars => IInv'
  BY StepKeepsStudy
<1>3. IInv => Purged
  BY DEF IInv
<1>. QED
  BY <1>1, <1>2, <1>3, PTL DEF Spec

\* The holdout stays sealed until the final evaluation, which scores all of
\* it; the labels of a fit before it reach at most a horizon of its rows.
THEOREM SealAlways == Spec => []SealHolds
<1>1. Init => IInv
  BY InitStudy
<1>2. IInv /\ [Next]_vars => IInv'
  BY StepKeepsStudy
<1>3. IInv => SealHolds
  BY DEF IInv
<1>. QED
  BY <1>1, <1>2, <1>3, PTL DEF Spec

-----------------------------------------------------------------------------
(* The registry *)

\* What the promotion of a version relies on between its two commits: the
\* version it registered is still known.
Promoting ==
    /\ artifact.version \in Versions \cup {NoVersion}
    /\ loaded \in Versions \cup {NoVersion}
    /\ registry \in [Versions -> {"absent", "candidate", "paper"}]
    /\ loaded # NoVersion => registry[loaded] # "absent"

LEMMA InitPromoting == Init => Promoting
BY DEF Init, ResearchInit, Promoting

LEMMA StepPromoting ==
    ASSUME Promoting, [Next]_vars
    PROVE  Promoting' /\ [StatusStands]_registry
<1>1. CASE UNCHANGED <<artifact, loaded, registry>>
  BY <1>1 DEF Promoting
<1>2. CASE Register
  <2>1. artifact.version \in Versions /\ artifact.hash = "good" /\ artifact' = artifact
        /\ loaded' = artifact.version
    BY <1>2 DEF Register, Promoting
  <2>2. registry' = [registry EXCEPT ![artifact.version] =
                        IF registry[artifact.version] = "absent" THEN "candidate"
                        ELSE registry[artifact.version]]
    BY <1>2 DEF Register, Registered
  <2>3. CASE registry[artifact.version] = "absent"
    <3>1. registry' = [registry EXCEPT ![artifact.version] = "candidate"]
      BY <2>2, <2>3
    <3>. QED
      BY <2>1, <2>3, <3>1 DEF Promoting, StatusStands
  <2>4. CASE registry[artifact.version] # "absent"
    <3>1. registry' = registry
      BY <2>1, <2>2, <2>4 DEF Promoting
    <3>. QED
      BY <2>1, <2>4, <3>1 DEF Promoting
  <2>. QED
    BY <2>3, <2>4
<1>3. CASE PromoteToPaper
  BY <1>3, ResearchAssumption DEF PromoteToPaper, Promoting, StatusStands, ResearchAssumption
<1>4. CASE PromoteDies
  BY <1>4 DEF PromoteDies, Promoting
<1>5. ASSUME NEW size, NEW complete, NEW h \in Horizons, NEW v \in Versions,
             FreezeModel(size, complete, h, v)
      PROVE  Promoting' /\ [StatusStands]_registry
  <2>1. artifact' \in [version : {v}, hash : {"good", "bad"}] /\ UNCHANGED <<loaded, registry>>
    BY <1>5 DEF FreezeModel
  <2>2. artifact'.version \in Versions
    BY <2>1
  <2>. QED
    BY <2>1, <2>2 DEF Promoting
<1>6. ASSUME NEW size, StudyNext(size)
      PROVE  Promoting' /\ [StatusStands]_registry
  <2>1. ASSUME NEW lost, NEW complete, complete = (1..size) \ lost,
               \/ \E c \in Configs : Experiment(size, complete, c)
               \/ \E h \in Horizons, e \in Embargoes : FinalEvaluation(size, complete, h, e)
               \/ \E h \in Horizons, v \in Versions : FreezeModel(size, complete, h, v)
        PROVE  Promoting' /\ [StatusStands]_registry
    <3>1. CASE \/ \E c \in Configs : Experiment(size, complete, c)
               \/ \E h \in Horizons, e \in Embargoes : FinalEvaluation(size, complete, h, e)
      <4>1. UNCHANGED <<artifact, loaded, registry>>
        BY <3>1 DEF Experiment, FinalEvaluation
      <4>. QED
        BY <1>1, <4>1
    <3>2. CASE \E h \in Horizons, v \in Versions : FreezeModel(size, complete, h, v)
      BY <1>5, <3>2
    <3>. QED
      BY <2>1, <3>1, <3>2
  <2>. QED
    BY <1>6, <2>1 DEF StudyNext
<1>7. CASE Command
  BY <1>6, <1>7 DEF Command
<1>8. CASE Exit
  BY <1>1, <1>8 DEF Exit
<1>9. CASE MarketNext /\ UNCHANGED researchVars
  BY <1>1, <1>9 DEF researchVars
<1>10. CASE UNCHANGED vars
  BY <1>1, <1>10 DEF vars, researchVars
<1>. QED
  BY <1>2, <1>3, <1>4, <1>7, <1>8, <1>9, <1>10 DEF Next, PromoteNext

\* A promotion stands: no later registration of the version, and no death
\* between the two commits of a promotion, makes it a candidate or unknown.
THEOREM RegistryAlways == Spec => RegistryStands
<1>1. Init => Promoting
  BY InitPromoting
<1>2. Promoting /\ [Next]_vars => Promoting' /\ [StatusStands]_registry
  BY StepPromoting
<1>. QED
  BY <1>1, <1>2, PTL DEF Spec, RegistryStands

-----------------------------------------------------------------------------
(* A page *)

\* How many of a set of candles are not after b, and the i-th of them.
Rank(A, b) == Cardinality({c \in A : c <= b})
Nth(A, i)  == CHOOSE b \in A : Rank(A, b) = i

LEMMA RankType ==
    ASSUME NEW A, IsFiniteSet(A), A \subseteq Nat, NEW b \in A
    PROVE  Rank(A, b) \in 1..Cardinality(A) /\ Cardinality(A) \in Nat
<1>. DEFINE B == {c \in A : c <= b}
<1>1. B \in SUBSET A /\ b \in B
  OBVIOUS
<1>. HIDE DEF B
<1>2. IsFiniteSet(B) /\ Cardinality(B) <= Cardinality(A)
  BY <1>1, FS_Subset
<1>3. Cardinality(B) \in Nat /\ Cardinality(A) \in Nat /\ Cardinality(B) # 0
  BY <1>1, <1>2, FS_CardinalityType, FS_EmptySet
<1>4. Rank(A, b) = Cardinality(B)
  BY DEF Rank, B
<1>. QED
  BY <1>2, <1>3, <1>4

\* Ranks are in the order of the candles.
LEMMA RankOrder ==
    ASSUME NEW A, IsFiniteSet(A), A \subseteq Nat, NEW b \in A, NEW c \in A, b < c
    PROVE  Rank(A, b) < Rank(A, c)
<1>. DEFINE B == {d \in A : d <= b}
            C == {d \in A : d <= c}
<1>1. C \in SUBSET A /\ B \in SUBSET C /\ c \in C /\ c \notin B
  <2>1. b \in Nat /\ c \in Nat /\ \A d \in A : d \in Nat
    OBVIOUS
  <2>2. \A d \in A : d <= b => d <= c
    BY <2>1
  <2>3. C \in SUBSET A /\ c \in C /\ c \notin B
    BY <2>1
  <2>. QED
    BY <2>2, <2>3
<1>. HIDE DEF B, C
<1>2. IsFiniteSet(C)
  BY <1>1, FS_Subset
<1>3. IsFiniteSet(B) /\ Cardinality(B) <= Cardinality(C) /\ Cardinality(B) # Cardinality(C)
  BY <1>1, <1>2, FS_Subset
<1>4. Cardinality(B) \in Nat /\ Cardinality(C) \in Nat
  BY <1>2, <1>3, FS_CardinalityType
<1>5. Rank(A, b) = Cardinality(B) /\ Rank(A, c) = Cardinality(C)
  BY DEF Rank, B, C
<1>. QED
  BY <1>3, <1>4, <1>5

\* Every rank is taken: an injection between sets of one size is onto.
LEMMA RankOnto ==
    ASSUME NEW A, IsFiniteSet(A), A \subseteq Nat, NEW i \in 1..Cardinality(A)
    PROVE  \E b \in A : Rank(A, b) = i
<1>. DEFINE n == Cardinality(A)
            I == 1..n
            f == [b \in A |-> Rank(A, b)]
<1>1. n \in Nat
  BY FS_CardinalityType
<1>2. IsFiniteSet(I) /\ Cardinality(I) = n
  <2>1. n \in Int /\ 1 \in Int
    BY <1>1
  <2>. HIDE DEF n
  <2>. QED
    BY <1>1, <2>1, FS_Interval
<1>3. \A b \in A : Rank(A, b) \in I
  BY RankType
<1>4. \A b, c \in A : Rank(A, b) = Rank(A, c) => b = c
  <2>. SUFFICES ASSUME NEW b \in A, NEW c \in A, Rank(A, b) = Rank(A, c), b < c
                PROVE  FALSE
    OBVIOUS
  <2>1. Rank(A, b) < Rank(A, c) /\ Rank(A, b) \in I
    BY <1>3, RankOrder
  <2>. QED
    BY <1>1, <2>1
<1>. HIDE DEF I
<1>5. f \in Injection(A, I)
  BY <1>3, <1>4 DEF Injection, IsInjective
<1>6. f \in Surjection(A, I)
  <2>1. Cardinality(A) = Cardinality(I)
    BY <1>2
  <2>. HIDE DEF f
  <2>. QED
    BY <1>2, <1>5, <2>1, FS_Injection
<1>7. \E b \in A : f[b] = i
  <2>1. i \in I
    BY DEF I
  <2>. HIDE DEF f
  <2>. QED
    BY <1>6, <2>1 DEF Surjection
<1>. QED
  BY <1>7

LEMMA NthIs ==
    ASSUME NEW A, IsFiniteSet(A), A \subseteq Nat, NEW i \in 1..Cardinality(A)
    PROVE  Nth(A, i) \in A /\ Rank(A, Nth(A, i)) = i
  BY RankOnto DEF Nth

LEMMA NthOrder ==
    ASSUME NEW A, IsFiniteSet(A), A \subseteq Nat
    PROVE  /\ \A i \in 1..Cardinality(A), b \in A : b < Nth(A, i) <=> Rank(A, b) < i
           /\ \A i \in 1..Cardinality(A), b \in A : Nth(A, i) < b <=> i < Rank(A, b)
           /\ \A b \in A : Nth(A, Rank(A, b)) = b
<1>1. ASSUME NEW i \in 1..Cardinality(A), NEW b \in A
      PROVE  /\ b < Nth(A, i) <=> Rank(A, b) < i
             /\ Nth(A, i) < b <=> i < Rank(A, b)
             /\ i = Rank(A, b) => Nth(A, i) = b
  <2>. DEFINE c == Nth(A, i)
  <2>1. c \in A /\ Rank(A, c) = i
    BY NthIs
  <2>. HIDE DEF c
  <2>2. b \in Nat /\ c \in Nat /\ i \in Nat /\ Rank(A, b) \in Nat
    <3>1. Rank(A, b) \in 1..Cardinality(A) /\ Cardinality(A) \in Nat
      BY RankType
    <3>. QED
      BY <2>1, <3>1
  <2>3. b < c => Rank(A, b) < Rank(A, c)
    BY <2>1, RankOrder
  <2>4. c < b => Rank(A, c) < Rank(A, b)
    BY <2>1, RankOrder
  <2>. QED
    BY <2>1, <2>2, <2>3, <2>4 DEF c
<1>2. \A b \in A : Rank(A, b) \in 1..Cardinality(A)
  BY RankType
<1>. QED
  BY <1>1, <1>2

\* What a page is: the first candles of those available, each once, in order.
FirstOf(page, A) ==
    /\ page \in Seq(Row) /\ page # <<>>
    /\ \A i \in 1..Len(page) :
          /\ page[i].bar \in A
          /\ page[i].state = IF page[i].bar < latest THEN "final" ELSE "open"
    /\ \A i \in 1..(Len(page) - 1) :
          /\ page[i].bar < page[i + 1].bar
          /\ ~\E b \in A : page[i].bar < b /\ b < page[i + 1].bar
    /\ ~\E b \in A : b < page[1].bar
    /\ \A b \in A : b <= page[Len(page)].bar => \E i \in 1..Len(page) : page[i].bar = b

LEMMA PageIsFirst ==
    ASSUME listed \in Histories, Available # {}
    PROVE  FirstOf(Page, Available)
<1>. DEFINE A == Available
            n == Cardinality(A)
            k == IF n < Limit THEN n ELSE Limit
<1>1. A \subseteq Bars /\ A \subseteq Nat /\ IsFiniteSet(A) /\ A # {}
  <2>1. A \in SUBSET Bars
    BY DEF Available, MarketAssumption
  <2>2. IsFiniteSet(Bars) /\ Bars \in SUBSET Nat
    <3>1. 1 \in Int /\ MaxBar \in Int
      BY DEF MarketAssumption
    <3>. QED
      BY <3>1, FS_Interval DEF Bars
  <2>. HIDE DEF A
  <2>. QED
    BY <2>1, <2>2, FS_Subset DEF A
<1>2. k \in Nat \ {0} /\ k <= n /\ n \in Nat /\ Limit \in Nat
  <2>1. n \in Nat /\ n # 0
    BY <1>1, FS_CardinalityType, FS_EmptySet
  <2>. QED
    BY <2>1 DEF MarketAssumption
<1>3. Page = [i \in 1..k |-> [bar |-> Nth(A, i),
                             state |-> IF Nth(A, i) < latest THEN "final" ELSE "open"]]
  BY DEF Page, Nth, Rank
<1>4. \A i \in 1..k : i \in 1..n
  BY <1>2
<1>. HIDE DEF A, n, k
<1>5. \A i \in 1..k : Nth(A, i) \in A /\ Rank(A, Nth(A, i)) = i
  <2>1. \A i \in 1..n : Nth(A, i) \in A /\ Rank(A, Nth(A, i)) = i
    BY <1>1, NthIs DEF n
  <2>. QED
    BY <1>4, <2>1
<1>6. Page \in Seq(Row) /\ Len(Page) = k /\ Page # <<>>
  <2>1. \A i \in 1..k : [bar |-> Nth(A, i),
                         state |-> IF Nth(A, i) < latest THEN "final" ELSE "open"] \in Row
    BY <1>1, <1>5 DEF Row
  <2>2. Page \in [1..k -> Row]
    BY <1>3, <2>1
  <2>. QED
    BY <1>2, <2>2, LenProperties
<1>7. \A i \in 1..k : /\ Page[i].bar = Nth(A, i)
                      /\ Page[i].state = IF Page[i].bar < latest THEN "final" ELSE "open"
  BY <1>3
<1>8. /\ \A i \in 1..n, b \in A : b < Nth(A, i) <=> Rank(A, b) < i
      /\ \A i \in 1..n, b \in A : Nth(A, i) < b <=> i < Rank(A, b)
      /\ \A b \in A : Nth(A, Rank(A, b)) = b
  BY <1>1, NthOrder DEF n
<1>9. \A b \in A : Rank(A, b) \in 1..n
  BY <1>1, RankType DEF n
<1>10. ASSUME NEW i \in 1..(k - 1)
       PROVE  /\ Page[i].bar < Page[i + 1].bar
              /\ ~\E b \in A : Page[i].bar < b /\ b < Page[i + 1].bar
  <2>1. i \in 1..k /\ i + 1 \in 1..k /\ i \in 1..n /\ i + 1 \in 1..n /\ i < i + 1
    BY <1>2, <1>4
  <2>2. Nth(A, i) < Nth(A, i + 1)
    BY <1>5, <1>8, <2>1
  <2>3. ASSUME NEW b \in A, Nth(A, i) < b, b < Nth(A, i + 1)
        PROVE  FALSE
    <3>1. i < Rank(A, b) /\ Rank(A, b) < i + 1 /\ Rank(A, b) \in 1..n
      BY <1>8, <1>9, <2>1, <2>3
    <3>. QED
      BY <1>2, <2>1, <3>1
  <2>. QED
    BY <1>7, <2>1, <2>2, <2>3
<1>11. ~\E b \in A : b < Page[1].bar
  <2>1. 1 \in 1..k /\ 1 \in 1..n
    BY <1>2
  <2>2. \A b \in A : ~(Rank(A, b) < 1)
    BY <1>2, <1>9
  <2>. QED
    BY <1>7, <1>8, <2>1, <2>2
<1>12. ASSUME NEW b \in A, b <= Page[k].bar
       PROVE  \E i \in 1..k : Page[i].bar = b
  <2>1. k \in 1..k /\ k \in 1..n
    BY <1>2
  <2>2. ~(Nth(A, k) < b)
    <3>1. b \in Nat /\ Nth(A, k) \in Nat /\ Page[k].bar = Nth(A, k)
      BY <1>1, <1>5, <1>7, <2>1
    <3>. QED
      BY <1>12, <3>1
  <2>3. Rank(A, b) \in 1..n /\ ~(k < Rank(A, b))
    BY <1>8, <1>9, <2>1, <2>2
  <2>4. Rank(A, b) \in 1..k
    BY <1>2, <2>3
  <2>5. Page[Rank(A, b)].bar = b
    BY <1>7, <1>8, <2>4
  <2>. QED
    BY <2>4, <2>5
<1>13. \A i \in 1..k : Page[i].bar \in A
  BY <1>5, <1>7
<1>14. FirstOf(Page, A)
  BY <1>6, <1>7, <1>10, <1>11, <1>12, <1>13 DEF FirstOf
<1>. QED
  BY <1>14 DEF A

-----------------------------------------------------------------------------
(* A fetch *)

Within(last) == {b \in listed : job.start <= 2 * b /\ 2 * b <= job.end /\ b <= last}

\* The rows fetched so far, and those of the file.
Fetched ==
    /\ Unbroken(output) /\ Unbroken(file)
    /\ \A i \in 1..Len(output) : output[i].state # "cut"
    /\ \A i \in 1..(Len(file) - 1) : file[i].state # "cut"
    /\ step = "idle" => output = <<>>
    /\ step # "idle" =>
          /\ job.asked <= latest
          /\ BarsOf(output) \subseteq Within(latest)
          /\ \A i \in 1..Len(output) : output[i].bar < job.asked => output[i].state = "final"

\* No candle in front of the next page is missing; in the end, none that was
\* there when the command asked.
Progress ==
    /\ step = "fetch" =>
          /\ current = IF output = <<>> THEN job.start ELSE NextStart(output)
          /\ \A b \in listed :
                job.start <= 2 * b /\ 2 * b < current /\ 2 * b <= job.end
                   => b \in BarsOf(output)
    /\ step \in {"write", "sign"} /\ job.start < job.end =>
          Within(job.asked) \subseteq BarsOf(output)

FetchInv == MarketTypeOK /\ Fetched /\ Progress

LEMMA MarketTypes ==
    ASSUME MarketTypeOK
    PROVE  /\ listed \subseteq Nat /\ listed \subseteq Bars
           /\ latest \in Nat /\ Bars \subseteq Nat
           /\ Len(output) \in Nat /\ Len(file) \in Nat
           /\ \A i \in 1..Len(output) : output[i] \in Row /\ output[i].bar \in Nat
           /\ \A i \in 1..Len(file) : file[i] \in Row /\ file[i].bar \in Nat
           /\ step # "idle" => /\ job \in Job
                               /\ job.start \in Nat /\ job.end \in Nat /\ job.asked \in Nat
<1>1. Bars \subseteq Nat /\ Times \subseteq Nat
  BY DEF MarketAssumption, Bars, Times
<1>2. listed \subseteq Bars /\ latest \in Bars
  BY DEF MarketTypeOK, MarketAssumption
<1>3. /\ Len(output) \in Nat /\ Len(file) \in Nat
      /\ \A i \in 1..Len(output) : output[i] \in Row
      /\ \A i \in 1..Len(file) : file[i] \in Row
  BY DEF MarketTypeOK
<1>4. \A r \in Row : r.bar \in Nat
  BY <1>1 DEF Row
<1>5. step # "idle" => job \in Job
  BY DEF MarketTypeOK
<1>6. \A j \in Job :
         j.start \in Nat /\ j.end \in Nat /\ j.asked \in Nat
  BY <1>1 DEF Job
<1>. QED
  BY <1>1, <1>2, <1>3, <1>4, <1>5, <1>6

\* What is between two candles of a page is in the part of the interval that
\* the page was asked for.
LEMMA BetweenTwo ==
    ASSUME NEW b \in Nat, NEW x \in Nat, NEW y \in Nat, NEW c \in Nat, NEW e \in Nat,
           NEW l \in Nat, c <= 2 * x + 1, x < b, b < y, 2 * y <= e, y <= l
    PROVE  c <= 2 * b /\ 2 * b <= e /\ b <= l
  OBVIOUS

\* A page continues the rows without a gap, and leaves none behind.
LEMMA ReadKeeps ==
    ASSUME FetchInv, ReadPage
    PROVE  Fetched' /\ Progress' /\ output' \in Seq(Row) /\ current' \in Nat
<1>. DEFINE p == Page
            A == Available
            m == Len(output)
            k == Len(p)
            rows == output \o p
<1>1. FirstOf(p, A)
  BY PageIsFirst DEF ReadPage, FetchInv, MarketTypeOK
<1>2. /\ output' = rows /\ current' = NextStart(p) /\ step = "fetch" /\ step' = step
      /\ UNCHANGED <<listed, latest, job, file>>
  BY DEF ReadPage, Requesting
<1>3. /\ \A b \in A : b \in listed /\ current <= 2 * b /\ 2 * b <= job.end /\ b <= latest
      /\ \A b \in listed : current <= 2 * b /\ 2 * b <= job.end /\ b <= latest => b \in A
  BY DEF Available
<1>. HIDE DEF p, A
<1>4. /\ listed \subseteq Nat /\ latest \in Nat /\ m \in Nat
      /\ \A i \in 1..m : output[i] \in Row /\ output[i].bar \in Nat
      /\ job.start \in Nat /\ job.end \in Nat /\ job.asked \in Nat
      /\ output \in Seq(Row) /\ current \in Nat
  BY <1>2, MarketTypes DEF FetchInv, MarketTypeOK
<1>5. /\ p \in Seq(Row) /\ k \in Nat \ {0}
      /\ \A i \in 1..k : p[i].bar \in A /\ p[i].bar \in Nat
  <2>1. p \in Seq(Row) /\ p # <<>>
    BY <1>1 DEF FirstOf
  <2>2. k \in Nat \ {0}
    BY <2>1, EmptySeq
  <2>3. \A i \in 1..k : p[i].bar \in A
    BY <1>1 DEF FirstOf
  <2>. QED
    BY <1>3, <1>4, <2>1, <2>2, <2>3
<1>6. /\ rows \in Seq(Row) /\ Len(rows) = m + k
      /\ \A i \in 1..m : rows[i] = output[i]
      /\ \A i \in 1..k : rows[m + i] = p[i]
  <2>1. /\ rows \in Seq(Row) /\ Len(rows) = m + k
        /\ \A i \in 1..(m + k) : rows[i] = IF i <= m THEN output[i] ELSE p[i - m]
    BY <1>4, <1>5, ConcatProperties
  <2>2. \A i \in 1..m : i \in 1..(m + k) /\ i <= m
    BY <1>4, <1>5
  <2>3. \A i \in 1..k : m + i \in 1..(m + k) /\ ~(m + i <= m) /\ (m + i) - m = i
    BY <1>4, <1>5
  <2>. QED
    BY <2>1, <2>2, <2>3
<1>7. \A i \in 1..(m + k) : i \in 1..m \/ \E j \in 1..k : i = m + j
  <2>1. \A i \in 1..(m + k) : i \in 1..m \/ (i - m \in 1..k /\ i = m + (i - m))
    BY <1>4, <1>5
  <2>. QED
    BY <2>1
<1>8. m # 0 => /\ current = 2 * output[m].bar + 1
               /\ output # <<>> /\ m \in 1..m
  <2>1. m # 0 => output # <<>>
    OBVIOUS
  <2>. QED
    BY <1>2, <1>4, <2>1 DEF FetchInv, Progress, NextStart, Last
<1>len. m \in Nat /\ k \in Nat \ {0}
  BY <1>4, <1>5
<1>nat. /\ job.start \in Nat /\ job.end \in Nat /\ job.asked \in Nat
        /\ latest \in Nat /\ current \in Nat
  BY <1>4
<1>. HIDE DEF m, k, rows
<1>9. Unbroken(rows)
  <2>. SUFFICES ASSUME NEW i \in 1..(Len(rows) - 1)
                PROVE  /\ rows[i].bar < rows[i + 1].bar
                       /\ ~\E b \in listed : rows[i].bar < b /\ b < rows[i + 1].bar
    BY DEF Unbroken
  <2>len. i \in 1..(m + k - 1)
    <3>1. Len(rows) = m + k
      BY <1>6
    <3>. QED
      BY <1>len, <3>1
  <2>1. CASE i \in 1..(m - 1)
    <3>1. i \in 1..m /\ i + 1 \in 1..m
      BY <1>len, <2>1
    <3>2. /\ output[i].bar < output[i + 1].bar
          /\ ~\E b \in listed : output[i].bar < b /\ b < output[i + 1].bar
      BY <2>1 DEF FetchInv, Fetched, Unbroken, m
    <3>. QED
      BY <1>6, <3>1, <3>2
  <2>2. CASE i = m /\ m # 0
    <3>1. rows[i] = output[m] /\ rows[i + 1] = p[1] /\ 1 \in 1..k
      <4>1. m \in 1..m /\ 1 \in 1..k
        BY <1>len, <2>2
      <4>. QED
        BY <1>6, <2>2, <4>1
    <3>2. output[m].bar \in Nat /\ p[1].bar \in Nat /\ p[1].bar \in A
      BY <1>4, <1>5, <1>8, <2>2, <3>1
    <3>3. output[m].bar < p[1].bar
      <4>. DEFINE x == output[m].bar
                  y == p[1].bar
      <4>1. x \in Nat /\ y \in Nat /\ current = 2 * x + 1 /\ current <= 2 * y
        BY <1>3, <1>8, <2>2, <3>2
      <4>. HIDE DEF x, y
      <4>2. x < y
        BY <4>1
      <4>. QED
        BY <4>2 DEF x, y
    <3>4. ASSUME NEW b \in listed, output[m].bar < b, b < p[1].bar
          PROVE  FALSE
      <4>1. b \in Nat /\ p[1].bar <= latest /\ 2 * p[1].bar <= job.end
        BY <1>3, <1>4, <3>2
      <4>2. current <= 2 * b /\ 2 * b <= job.end /\ b <= latest
        <5>. DEFINE x == output[m].bar
                    y == p[1].bar
        <5>1. x \in Nat /\ y \in Nat /\ b \in Nat /\ x < b /\ b < y
              /\ current = 2 * x + 1 /\ 2 * y <= job.end /\ y <= latest
          BY <1>8, <2>2, <3>2, <3>4, <4>1
        <5>. HIDE DEF x, y
        <5>. QED
          BY <1>nat, <5>1, BetweenTwo
      <4>. QED
        BY <1>1, <1>3, <3>4, <4>2 DEF FirstOf
    <3>. QED
      BY <3>1, <3>3, <3>4
  <2>3. CASE \E j \in 1..(k - 1) : i = m + j
    <3>1. PICK j \in 1..(k - 1) : i = m + j
      BY <2>3
    <3>2. j \in 1..k /\ j + 1 \in 1..k /\ i + 1 = m + (j + 1)
      BY <1>4, <1>5, <3>1
    <3>3. rows[i] = p[j] /\ rows[i + 1] = p[j + 1]
      BY <1>6, <3>1, <3>2
    <3>4. /\ p[j].bar < p[j + 1].bar
          /\ ~\E b \in A : p[j].bar < b /\ b < p[j + 1].bar
      BY <1>1, <3>1 DEF FirstOf, k
    <3>5. ASSUME NEW b \in listed, p[j].bar < b, b < p[j + 1].bar
          PROVE  FALSE
      <4>1. /\ b \in Nat /\ p[j].bar \in Nat /\ p[j + 1].bar \in Nat /\ current <= 2 * p[j].bar
            /\ 2 * p[j + 1].bar <= job.end /\ p[j + 1].bar <= latest
        BY <1>3, <1>4, <1>5, <3>2
      <4>2. current <= 2 * b /\ 2 * b <= job.end /\ b <= latest
        <5>. DEFINE x == p[j].bar
                    y == p[j + 1].bar
        <5>1. x \in Nat /\ y \in Nat /\ b \in Nat /\ x < b /\ b < y
              /\ current <= 2 * x /\ 2 * y <= job.end /\ y <= latest
          BY <3>5, <4>1
        <5>. HIDE DEF x, y
        <5>. QED
          BY <1>nat, <5>1, BetweenTwo
      <4>. QED
        BY <1>3, <3>4, <3>5, <4>2
    <3>. QED
      BY <3>3, <3>4, <3>5
  <2>4. i \in 1..(m - 1) \/ (i = m /\ m # 0) \/ (i - m \in 1..(k - 1) /\ i = m + (i - m))
    BY <1>len, <2>len
  <2>. QED
    BY <2>1, <2>2, <2>3, <2>4
<1>10. BarsOf(rows) = BarsOf(output) \cup BarsOf(p)
  <2>1. \A b \in BarsOf(rows) : b \in BarsOf(output) \cup BarsOf(p)
    <3>1. ASSUME NEW i \in 1..(m + k)
          PROVE  rows[i].bar \in BarsOf(output) \cup BarsOf(p)
      <4>1. CASE i \in 1..m
        BY <1>6, <4>1 DEF BarsOf, m
      <4>2. CASE \E j \in 1..k : i = m + j
        BY <1>6, <4>2 DEF BarsOf, k
      <4>. QED
        BY <1>7, <4>1, <4>2
    <3>2. Len(rows) = m + k
      BY <1>6
    <3>. QED
      BY <3>1, <3>2 DEF BarsOf
  <2>2. \A b \in BarsOf(output) : b \in BarsOf(rows)
    <3>1. \A i \in 1..m : i \in 1..(m + k)
      BY <1>4, <1>5
    <3>. QED
      BY <1>6, <3>1 DEF BarsOf, m
  <2>3. \A b \in BarsOf(p) : b \in BarsOf(rows)
    <3>1. \A i \in 1..k : m + i \in 1..(m + k)
      BY <1>4, <1>5
    <3>. QED
      BY <1>6, <3>1 DEF BarsOf, k
  <2>. QED
    BY <2>1, <2>2, <2>3
<1>11. BarsOf(p) \subseteq A
  BY <1>5 DEF BarsOf, k
<1>12. job.start <= current
  <2>1. CASE m = 0
    <3>1. output = <<>>
      BY <1>4, <2>1, EmptySeq DEF m
    <3>. QED
      BY <1>2, <1>4, <3>1 DEF FetchInv, Progress
  <2>2. CASE m # 0
    <3>1. output[m].bar \in Nat /\ output[m].bar \in Within(latest)
      BY <1>2, <1>4, <1>8, <2>2 DEF FetchInv, Fetched, BarsOf, m
    <3>. QED
      <4>1. job.start <= 2 * output[m].bar
        BY <3>1 DEF Within
      <4>2. current = 2 * output[m].bar + 1
        BY <1>8, <2>2
      <4>. QED
        BY <1>nat, <3>1, <4>1, <4>2
  <2>. QED
    BY <2>1, <2>2
<1>13. BarsOf(rows) \subseteq Within(latest)
  <2>1. A \subseteq Within(latest)
    <3>1. ASSUME NEW b \in A
          PROVE  b \in Within(latest)
      <4>1. b \in listed /\ b \in Nat /\ current <= 2 * b /\ 2 * b <= job.end /\ b <= latest
        BY <1>3, <1>4, <3>1
      <4>. QED
        BY <1>4, <1>12, <4>1 DEF Within
    <3>. QED
      BY <3>1
  <2>2. BarsOf(output) \subseteq Within(latest)
    BY <1>2 DEF FetchInv, Fetched
  <2>. QED
    BY <1>10, <1>11, <2>1, <2>2
<1>14. ASSUME NEW i \in 1..Len(rows)
       PROVE  /\ rows[i].state # "cut"
              /\ rows[i].bar < job.asked => rows[i].state = "final"
  <2>1. CASE i \in 1..m
    BY <1>2, <1>6, <2>1 DEF FetchInv, Fetched, m
  <2>2. CASE \E j \in 1..k : i = m + j
    <3>1. PICK j \in 1..k : i = m + j
      BY <2>2
    <3>2. p[j].state = IF p[j].bar < latest THEN "final" ELSE "open"
      BY <1>1, <3>1 DEF FirstOf, k
    <3>3. rows[i] = p[j] /\ p[j].bar \in Nat /\ job.asked <= latest
      BY <1>2, <1>5, <1>6, <3>1 DEF FetchInv, Fetched
    <3>4. p[j].bar < job.asked => p[j].bar < latest
      BY <1>nat, <3>3
    <3>5. p[j].state \in {"final", "open"} /\ (p[j].bar < latest => p[j].state = "final")
      BY <3>2
    <3>. QED
      BY <3>3, <3>4, <3>5
  <2>. QED
    BY <1>6, <1>7, <2>1, <2>2
<1>15. rows # <<>> /\ NextStart(rows) = NextStart(p) /\ NextStart(p) = 2 * p[k].bar + 1
  <2>1. k \in 1..k /\ rows[m + k] = p[k] /\ Len(rows) # 0
    BY <1>4, <1>5, <1>6
  <2>. QED
    BY <1>6, <2>1 DEF NextStart, Last, k
<1>16. ASSUME NEW b \in listed, job.start <= 2 * b, 2 * b < NextStart(p), 2 * b <= job.end
       PROVE  b \in BarsOf(rows)
  <2>1. CASE 2 * b < current
    BY <1>2, <1>10, <1>16, <2>1 DEF FetchInv, Progress
  <2>2. CASE ~(2 * b < current)
    <3>1. k \in 1..k /\ p[k].bar \in Nat /\ b \in Nat /\ p[k].bar <= latest
      BY <1>3, <1>4, <1>5
    <3>2. b <= p[k].bar
      BY <1>15, <1>16, <3>1
    <3>3. b \in A
      BY <1>3, <1>4, <1>16, <2>2, <3>1, <3>2
    <3>4. b \in BarsOf(p)
      BY <1>1, <3>2, <3>3 DEF FirstOf, BarsOf, k
    <3>. QED
      BY <1>10, <3>4
  <2>. QED
    BY <2>1, <2>2
<1>17. Fetched'
  <2>1. Unbroken(output)' /\ Unbroken(file)'
    BY <1>2, <1>9 DEF Unbroken, FetchInv, Fetched
  <2>2. \A i \in 1..(Len(file') - 1) : file'[i].state # "cut"
    BY <1>2 DEF FetchInv, Fetched
  <2>3. BarsOf(output)' \subseteq Within(latest)'
    BY <1>2, <1>13 DEF BarsOf, Within
  <2>4. job'.asked <= latest'
    BY <1>2 DEF FetchInv, Fetched
  <2>. QED
    BY <1>2, <1>14, <2>1, <2>2, <2>3, <2>4 DEF Fetched
<1>18. Progress'
  <2>1. current' = IF output' = <<>> THEN job'.start ELSE NextStart(output')
    BY <1>2, <1>15
  <2>2. \A b \in listed' : job'.start <= 2 * b /\ 2 * b < current' /\ 2 * b <= job'.end
                              => b \in BarsOf(output')
    BY <1>2, <1>16
  <2>. QED
    BY <1>2, <2>1, <2>2 DEF Progress
<1>19. NextStart(p) \in Nat
  <2>1. k \in 1..k
    BY <1>5
  <2>. QED
    BY <1>5, <1>15, <2>1
<1>. QED
  BY <1>2, <1>6, <1>17, <1>18, <1>19

\* A death cuts the rows off between two of them, or inside one.
Uncut(rows) == \A i \in 1..(Len(rows) - 1) : rows[i].state # "cut"

LEMMA CutOff ==
    ASSUME NEW rows \in Seq(Row), Unbroken(rows),
           \A i \in 1..Len(rows) : rows[i].state # "cut",
           NEW k \in Nat, k < Len(rows),
           NEW s, s = SubSeq(rows, 1, k),
           NEW t, t = Append(s, [rows[k + 1] EXCEPT !.state = "cut"])
    PROVE  /\ s \in Seq(Row) /\ Unbroken(s) /\ Uncut(s)
           /\ t \in Seq(Row) /\ Unbroken(t) /\ Uncut(t)
<1>. DEFINE last == [rows[k + 1] EXCEPT !.state = "cut"]
<1>1. /\ Len(rows) \in Nat
      /\ \A i \in 1..Len(rows) : rows[i] \in Row
  OBVIOUS
<1>2. \A i \in 1..k : i \in 1..Len(rows)
  BY <1>1
<1>3. s \in Seq(Row) /\ Len(s) = k /\ \A i \in 1..k : s[i] = rows[i]
  <2>1. 1 \in Int /\ k \in Int /\ \A i \in 1..k : rows[i] \in Row
    BY <1>1, <1>2
  <2>2. /\ s \in Seq(Row) /\ Len(s) = IF 1 <= k THEN k - 1 + 1 ELSE 0
        /\ \A i \in 1..(k - 1 + 1) : s[i] = rows[1 + i - 1]
    BY <2>1, SubSeqProperties
  <2>3. Len(s) = k
    BY <2>2
  <2>4. \A i \in 1..k : i \in 1..(k - 1 + 1) /\ 1 + i - 1 = i
    OBVIOUS
  <2>. QED
    BY <2>2, <2>3, <2>4
<1>4. last \in Row /\ last.bar = rows[k + 1].bar
  <2>1. rows[k + 1] \in Row
    BY <1>1
  <2>. QED
    BY <2>1 DEF Row
<1>. HIDE DEF last
<1>5. /\ t \in Seq(Row) /\ Len(t) = k + 1 /\ t[k + 1] = last
      /\ \A i \in 1..k : t[i] = rows[i]
  <2>1. t = Append(s, last)
    BY DEF last
  <2>2. t \in Seq(Row) /\ Len(t) = Len(s) + 1 /\ t[Len(s) + 1] = last
        /\ \A i \in 1..Len(s) : t[i] = s[i]
    BY <1>3, <1>4, <2>1, AppendProperties
  <2>. QED
    BY <1>3, <2>2
<1>6. \A i \in 1..(k + 1) : t[i].bar = rows[i].bar
  <2>1. \A i \in 1..(k + 1) : i \in 1..k \/ i = k + 1
    OBVIOUS
  <2>. QED
    BY <1>4, <1>5, <2>1
<1>7. \A i \in 1..(Len(rows) - 1) :
         /\ rows[i].bar < rows[i + 1].bar
         /\ ~\E b \in listed : rows[i].bar < b /\ b < rows[i + 1].bar
  BY DEF Unbroken
<1>8. Unbroken(s)
  <2>1. \A i \in 1..(k - 1) : i \in 1..(Len(rows) - 1) /\ i \in 1..k /\ i + 1 \in 1..k
    BY <1>1
  <2>. QED
    BY <1>3, <1>7, <2>1 DEF Unbroken
<1>9. Unbroken(t)
  <2>1. \A i \in 1..k : i \in 1..(Len(rows) - 1) /\ i \in 1..(k + 1) /\ i + 1 \in 1..(k + 1)
    BY <1>1
  <2>2. Len(t) - 1 = k
    BY <1>5
  <2>. QED
    BY <1>6, <1>7, <2>1, <2>2 DEF Unbroken
<1>10. Uncut(s) /\ Uncut(t)
  <2>1. \A i \in 1..(Len(s) - 1) : i \in 1..k
    BY <1>3
  <2>2. \A i \in 1..(Len(t) - 1) : i \in 1..k
    BY <1>5
  <2>. QED
    BY <1>2, <1>3, <1>5, <2>1, <2>2 DEF Uncut
<1>. QED
  BY <1>3, <1>5, <1>8, <1>9, <1>10

\* When a command ends, well or not, only the file is left of its rows.
LEMMA EndKeeps ==
    ASSUME Ended, listed' = listed, latest' = latest,
           \/ file' = file /\ FetchInv
           \/ Unbroken(file)' /\ Uncut(file')
    PROVE  Fetched' /\ Progress'
<1>1. step' = "idle" /\ output' = <<>>
  BY DEF Ended
<1>2. Unbroken(file)' /\ Uncut(file')
  BY DEF FetchInv, Fetched, Unbroken, Uncut
<1>3. Len(output') = 0
  BY <1>1
<1>4. Unbroken(output)' /\ \A i \in 1..Len(output') : output'[i].state # "cut"
  BY <1>3 DEF Unbroken
<1>. QED
  BY <1>1, <1>2, <1>4 DEF Fetched, Progress, Uncut

\* The end of a fetch: nothing of the interval is missing.
LEMMA EndsComplete ==
    ASSUME FetchInv, FetchEnds, job.start < job.end
    PROVE  Within(job.asked) \subseteq BarsOf(output)
<1>1. step = "fetch" /\ (current < job.end => Available = {})
  BY DEF FetchEnds
<1>2. /\ listed \subseteq Nat /\ latest \in Nat /\ current \in Nat
      /\ job.start \in Nat /\ job.end \in Nat /\ job.asked \in Nat
      /\ job.asked <= latest
  BY <1>1, MarketTypes DEF FetchInv, Fetched, MarketTypeOK
<1>3. /\ current = IF output = <<>> THEN job.start ELSE NextStart(output)
      /\ \A b \in listed :
            job.start <= 2 * b /\ 2 * b < current /\ 2 * b <= job.end => b \in BarsOf(output)
  BY <1>1 DEF FetchInv, Progress
<1>4. SUFFICES ASSUME NEW b \in listed, job.start <= 2 * b, 2 * b <= job.end, b <= job.asked
               PROVE  2 * b < current
  BY <1>3 DEF Within
<1>5. b \in Nat /\ b <= latest
  BY <1>2, <1>4
<1>6. CASE current < job.end
  <2>1. b \notin Available
    BY <1>1, <1>6
  <2>2. ~(current <= 2 * b)
    BY <1>4, <1>5, <2>1 DEF Available
  <2>. QED
    BY <1>2, <1>5, <2>2
<1>7. CASE ~(current < job.end)
  <2>1. output # <<>>
    BY <1>2, <1>3, <1>7
  <2>2. Len(output) \in 1..Len(output) /\ output[Len(output)].bar \in Nat
    <3>1. output \in Seq(Row)
      BY DEF FetchInv, MarketTypeOK
    <3>2. Len(output) \in Nat \ {0}
      BY <2>1, <3>1, EmptySeq
    <3>3. Len(output) \in 1..Len(output)
      BY <3>2
    <3>. QED
      BY <3>3, MarketTypes DEF FetchInv
  <2>. DEFINE c == output[Len(output)].bar
  <2>3. c \in Nat /\ current = 2 * c + 1
    BY <1>3, <2>1, <2>2 DEF NextStart, Last
  <2>. HIDE DEF c
  <2>. QED
    BY <1>2, <1>4, <1>5, <1>7, <2>3
<1>. QED
  BY <1>2, <1>6, <1>7

LEMMA DeathKeeps ==
    ASSUME FetchInv, NEW k \in 0..MaxBar, DiesWriting(k)
    PROVE  file' \in Seq(Row) /\ Fetched' /\ Progress'
<1>. DEFINE s == SubSeq(output, 1, k)
            t == Append(s, [output[k + 1] EXCEPT !.state = "cut"])
<1>1. /\ step = "write" /\ k < Len(output) /\ (file' = s \/ file' = t)
      /\ Ended /\ UNCHANGED <<listed, latest, manifest, asks>>
  BY DEF DiesWriting
<1>2. /\ output \in Seq(Row) /\ Unbroken(output) /\ k \in Nat
      /\ \A i \in 1..Len(output) : output[i].state # "cut"
  BY DEF FetchInv, MarketTypeOK, Fetched
<1>3. /\ s \in Seq(Row) /\ Unbroken(s) /\ Uncut(s)
      /\ t \in Seq(Row) /\ Unbroken(t) /\ Uncut(t)
  BY <1>1, <1>2, CutOff
<1>. HIDE DEF s, t
<1>4. file' \in Seq(Row) /\ Uncut(file')
  BY <1>1, <1>3
<1>5. Unbroken(file)'
  <2>1. ASSUME NEW u, Unbroken(u), file' = u
        PROVE  Unbroken(file)'
    BY <1>1, <2>1 DEF Unbroken
  <2>. QED
    BY <1>1, <1>3, <2>1
<1>. QED
  BY <1>1, <1>4, <1>5, EndKeeps

LEMMA StepFetched ==
    ASSUME FetchInv, MarketNext
    PROVE  Fetched' /\ Progress'
<1>1. CASE CandleOpens
  <2>1. /\ latest' = latest + 1 /\ UNCHANGED <<listed, step, job, current, output, file>>
        /\ step = "fetch"
    BY <1>1 DEF CandleOpens, command
  <2>2. latest \in Nat /\ job.asked \in Nat /\ listed \subseteq Nat
    BY <2>1, MarketTypes DEF FetchInv
  <2>3. job.asked <= latest' /\ \A b \in listed : b <= latest => b <= latest'
    BY <2>1, <2>2 DEF FetchInv, Fetched
  <2>4. Within(latest) \subseteq Within(latest)'
    BY <2>1, <2>3 DEF Within
  <2>5. BarsOf(output)' = BarsOf(output)
    BY <2>1 DEF BarsOf
  <2>6. Fetched'
    BY <2>1, <2>3, <2>4, <2>5 DEF FetchInv, Fetched, Unbroken
  <2>7. Progress'
    BY <2>1, <2>5 DEF FetchInv, Progress
  <2>. QED
    BY <2>6, <2>7
<1>2. ASSUME NEW i \in Intervals, Ask(i)
      PROVE  Fetched' /\ Progress'
  <2>1. /\ step' = "fetch" /\ output' = <<>> /\ current' = i[1]
        /\ job' = [start |-> i[1], end |-> i[2], asked |-> latest]
        /\ UNCHANGED <<listed, latest, file>>
    BY <1>2 DEF Ask
  <2>2. latest \in Nat /\ listed \subseteq Nat /\ i[1] \in Nat
    <3>1. i[1] \in Times /\ Times \subseteq Nat
      BY DEF MarketAssumption, Times
    <3>. QED
      BY <3>1, MarketTypes DEF FetchInv
  <2>3. Len(output') = 0
    BY <2>1
  <2>4. BarsOf(output') = {}
    BY <2>3 DEF BarsOf
  <2>5. job'.asked = latest' /\ job'.start = i[1]
    BY <2>1
  <2>6. Fetched'
    BY <2>1, <2>2, <2>3, <2>4, <2>5 DEF FetchInv, Fetched, Unbroken
  <2>7. \A b \in listed : ~(i[1] <= 2 * b /\ 2 * b < i[1])
    BY <2>2
  <2>8. Progress'
    BY <2>1, <2>5, <2>7 DEF Progress
  <2>. QED
    BY <2>6, <2>8
<1>3. CASE ReadPage
  BY <1>3, ReadKeeps
<1>4. CASE FetchEnds
  <2>1. step = "fetch" /\ step' = "write" /\ UNCHANGED <<listed, latest, job, output, file>>
    BY <1>4 DEF FetchEnds
  <2>2. Fetched'
    BY <2>1 DEF FetchInv, Fetched, Unbroken, BarsOf, Within
  <2>3. job'.start < job'.end => Within(job.asked) \subseteq BarsOf(output)
    BY <1>4, <2>1, EndsComplete
  <2>4. Within(job.asked)' = Within(job.asked) /\ BarsOf(output)' = BarsOf(output)
    BY <2>1 DEF Within, BarsOf
  <2>5. Progress'
    BY <2>1, <2>3, <2>4 DEF Progress
  <2>. QED
    BY <2>2, <2>5
<1>5. CASE AttemptFails
  <2>1. CASE Ended
    BY <1>5, <2>1, EndKeeps DEF AttemptFails
  <2>2. CASE UNCHANGED <<step, job, current, output>>
    BY <1>5, <2>2 DEF AttemptFails, FetchInv, Fetched, Progress, Unbroken, BarsOf, Within
  <2>. QED
    BY <1>5, <2>1, <2>2 DEF AttemptFails, Retry
<1>6. CASE NothingFetched \/ WriteManifest \/ DiesUnsigned
  BY <1>6, EndKeeps DEF NothingFetched, WriteManifest, DiesUnsigned
<1>7. CASE WriteRows
  <2>1. /\ step = "write" /\ step' = "sign" /\ file' = output
        /\ UNCHANGED <<listed, latest, job, current, output>>
    BY <1>7 DEF WriteRows
  <2>2. \A i \in 1..(Len(output) - 1) : output[i].state # "cut"
    <3>1. Len(output) \in Nat
      BY DEF FetchInv, MarketTypeOK
    <3>2. \A i \in 1..(Len(output) - 1) : i \in 1..Len(output)
      BY <3>1
    <3>. QED
      BY <3>2 DEF FetchInv, Fetched
  <2>3. Fetched'
    <3>1. Unbroken(output)' /\ Unbroken(file)'
      BY <2>1 DEF FetchInv, Fetched, Unbroken
    <3>2. /\ \A i \in 1..Len(output') : output'[i].state # "cut"
          /\ \A i \in 1..(Len(file') - 1) : file'[i].state # "cut"
      BY <2>1, <2>2 DEF FetchInv, Fetched
    <3>3. /\ job'.asked <= latest'
          /\ BarsOf(output)' \subseteq Within(latest)'
          /\ \A i \in 1..Len(output') : output'[i].bar < job'.asked
                                          => output'[i].state = "final"
      BY <2>1 DEF FetchInv, Fetched, BarsOf, Within
    <3>. QED
      BY <2>1, <3>1, <3>2, <3>3 DEF Fetched
  <2>4. Progress'
    BY <2>1 DEF FetchInv, Progress, BarsOf, Within
  <2>. QED
    BY <2>3, <2>4
<1>8. ASSUME NEW k \in 0..MaxBar, DiesWriting(k)
      PROVE  Fetched' /\ Progress'
  BY <1>8, DeathKeeps
<1>. QED
  BY <1>1, <1>2, <1>3, <1>4, <1>5, <1>6, <1>7, <1>8 DEF MarketNext, FetchStep

LEMMA StepMarketTypes ==
    ASSUME FetchInv, MarketNext
    PROVE  MarketTypeOK'
<1>. USE DEF MarketTypeOK
<1>1. MarketTypeOK /\ Attempts \in Nat \ {0} /\ MaxAsks \in Nat /\ MaxBar \in Nat \ {0}
  BY DEF FetchInv, MarketAssumption
<1>2. CASE CandleOpens
  BY <1>1, <1>2 DEF CandleOpens, command, Bars
<1>3. ASSUME NEW i \in Intervals, Ask(i)
      PROVE  MarketTypeOK'
  <2>1. i[1] \in Times /\ i[2] \in Times /\ i[1] \in Nat
    BY DEF MarketAssumption, Times
  <2>2. job' \in Job /\ job' # None
    <3>1. job' = [start |-> i[1], end |-> i[2], asked |-> latest]
      BY <1>3 DEF Ask
    <3>2. job' \in Job
      BY <1>1, <2>1, <3>1 DEF Job
    <3>. QED
      BY <3>2 DEF MarketAssumption
  <2>. QED
    BY <1>1, <1>3, <2>1, <2>2 DEF Ask
<1>4. CASE ReadPage
  <2>1. output' \in Seq(Row) /\ current' \in Nat
    BY <1>4, ReadKeeps
  <2>. QED
    BY <1>1, <1>4, <2>1 DEF ReadPage, Requesting
<1>5. CASE FetchEnds
  BY <1>1, <1>5 DEF FetchEnds
<1>6. ASSUME Ended, UNCHANGED <<listed, latest, asks>>, file' \in Seq(Row),
             manifest' \in Seq(Row) \cup {None}
      PROVE  MarketTypeOK'
  BY <1>1, <1>6 DEF Ended
<1>7. CASE AttemptFails
  <2>1. CASE Ended
    BY <1>1, <1>6, <1>7, <2>1 DEF AttemptFails
  <2>2. CASE attempt + 1 < Attempts /\ attempt' = attempt + 1
             /\ UNCHANGED <<step, job, current, output>>
    <3>1. attempt' \in 0..(Attempts - 1)
      BY <1>1, <2>2
    <3>. QED
      BY <1>1, <1>7, <2>2, <3>1 DEF AttemptFails
  <2>. QED
    BY <1>7, <2>1, <2>2 DEF AttemptFails, Retry
<1>8. CASE NothingFetched \/ DiesUnsigned
  BY <1>1, <1>6, <1>8 DEF NothingFetched, DiesUnsigned
<1>9. CASE WriteManifest
  BY <1>1, <1>6, <1>9 DEF WriteManifest
<1>10. CASE WriteRows
  BY <1>1, <1>10 DEF WriteRows
<1>11. ASSUME NEW k \in 0..MaxBar, DiesWriting(k)
       PROVE  MarketTypeOK'
  <2>1. Ended /\ UNCHANGED <<listed, latest, manifest, asks>> /\ file' \in Seq(Row)
    BY <1>11, DeathKeeps DEF DiesWriting
  <2>. QED
    BY <1>1, <1>6, <2>1
<1>. QED
  BY <1>2, <1>3, <1>4, <1>5, <1>7, <1>8, <1>9, <1>10, <1>11 DEF MarketNext, FetchStep

LEMMA InitFetch == Init => FetchInv
<1>. SUFFICES ASSUME Init PROVE FetchInv
  OBVIOUS
<1>1. /\ listed \in Histories /\ latest \in Bars /\ step = "idle" /\ job = None
      /\ current = 0 /\ attempt = 0 /\ output = <<>> /\ file = <<>> /\ manifest = None
      /\ asks = 0
  BY DEF Init, MarketInit
<1>2. MarketTypeOK
  BY <1>1 DEF MarketAssumption, MarketTypeOK
<1>3. Len(output) = 0 /\ Len(file) = 0
  BY <1>1
<1>4. Fetched /\ Progress
  BY <1>1, <1>3 DEF Fetched, Progress, Unbroken
<1>. QED
  BY <1>2, <1>4 DEF FetchInv

LEMMA StepFetch == FetchInv /\ [Next]_vars => FetchInv'
<1>. SUFFICES ASSUME FetchInv, [Next]_vars PROVE FetchInv'
  OBVIOUS
<1>1. CASE MarketNext
  BY <1>1, StepFetched, StepMarketTypes DEF FetchInv
<1>2. CASE UNCHANGED marketVars
  BY <1>2 DEF marketVars, command, FetchInv, MarketTypeOK, Fetched, Progress,
              Unbroken, BarsOf, Within
<1>3. MarketNext \/ UNCHANGED marketVars
  BY DEF Next, Command, vars
<1>. QED
  BY <1>1, <1>2, <1>3

LEMMA FetchInvariance == Spec => []FetchInv
  BY InitFetch, StepFetch, PTL DEF Spec

LEMMA FetchedIsExact == FetchInv => FetchIsExact
<1>. SUFFICES ASSUME FetchInv PROVE FetchIsExact
  OBVIOUS
<1>1. \A i \in 1..Len(output) : output[i].bar < job.asked => output[i].state = "final"
  <2>1. CASE step = "idle"
    <3>1. Len(output) = 0
      BY <2>1 DEF FetchInv, Fetched
    <3>. QED
      BY <3>1
  <2>. QED
    BY <2>1 DEF FetchInv, Fetched
<1>2. step \in {"write", "sign"} /\ job.start < job.end =>
         Within(job.asked) \subseteq BarsOf(output) /\ BarsOf(output) \subseteq Within(latest)
  BY DEF FetchInv, Fetched, Progress
<1>. QED
  BY <1>1, <1>2 DEF FetchInv, Fetched, FetchIsExact, Within

\* A completed fetch has every candle of its interval that was there when it
\* was asked, those closed by then with their final prices, and the file has
\* no row twice, out of order or left out, for any pages, failures and deaths.
THEOREM FetchExact == Spec => []FetchIsExact
  BY FetchInvariance, FetchedIsExact, PTL

-----------------------------------------------------------------------------
(* Types *)

FitsWithin(s) ==
    /\ s.kind \in {"experiment", "final", "freeze"}
    /\ s.horizon \in Horizons
    /\ s.rows \in SUBSET Nat
    /\ \A f \in s.fits : f.train \subseteq s.rows /\ f.scored \subseteq s.rows

LEMMA FoldWithin ==
    ASSUME NEW rows, NEW a, NEW b, NEW c
    PROVE  /\ Fold(rows, a, b, c).train \subseteq rows
           /\ Fold(rows, a, b, c).scored \subseteq rows
  BY DEF Fold, Slice

LEMMA StudyTypes ==
    ASSUME NEW size \in Nat, NEW complete \in SUBSET (1..size),
           \/ \E c \in Configs : Experiment(size, complete, c)
           \/ \E h \in Horizons, e \in Embargoes : FinalEvaluation(size, complete, h, e)
           \/ \E h \in Horizons, v \in Versions : FreezeModel(size, complete, h, v)
    PROVE  FitsWithin(study')
<1>1. \A h : Usable(complete, size, h) \in SUBSET Nat
  <2>1. 1..size \subseteq Nat
    OBVIOUS
  <2>2. complete \subseteq Nat
    BY <2>1
  <2>3. \A h : Usable(complete, size, h) \subseteq complete
    BY DEF Usable
  <2>. QED
    BY <2>2, <2>3
<1>2. ASSUME NEW c \in Configs, Experiment(size, complete, c)
      PROVE  FitsWithin(study')
  <2>. DEFINE rows == Usable(complete, size, c.horizon)
              n    == SealAt(Cardinality(rows))
  <2>1. /\ study'.kind = "experiment" /\ study'.rows = rows /\ study'.horizon = c.horizon
        /\ study'.fits = WalkForward(rows, n, c)
    BY <1>2 DEF Experiment, Study
  <2>2. c.horizon \in Horizons /\ rows \in SUBSET Nat
    BY <1>1 DEF Configs
  <2>. HIDE DEF rows, n
  <2>3. \A f \in WalkForward(rows, n, c) : f.train \subseteq rows /\ f.scored \subseteq rows
    BY FoldWithin DEF WalkForward
  <2>. QED
    BY <2>1, <2>2, <2>3 DEF FitsWithin
<1>3. ASSUME NEW h \in Horizons, NEW e \in Embargoes, FinalEvaluation(size, complete, h, e)
      PROVE  FitsWithin(study')
  <2>. DEFINE rows == Usable(complete, size, h)
              m    == Cardinality(rows)
              n    == SealAt(m)
  <2>1. /\ study'.kind = "final" /\ study'.rows = rows /\ study'.horizon = h
        /\ study'.fits = Chronological(rows, m, m - n, h, e)
    BY <1>3 DEF FinalEvaluation, Study
  <2>2. rows \in SUBSET Nat
    BY <1>1
  <2>. HIDE DEF rows, m, n
  <2>3. \A f \in Chronological(rows, m, m - n, h, e) :
           f.train \subseteq rows /\ f.scored \subseteq rows
    BY FoldWithin DEF Chronological
  <2>. QED
    BY <2>1, <2>2, <2>3 DEF FitsWithin
<1>4. ASSUME NEW h \in Horizons, NEW v \in Versions, FreezeModel(size, complete, h, v)
      PROVE  FitsWithin(study')
  <2>. DEFINE rows == Usable(complete, size, h)
              n     == SealAt(Cardinality(rows))
              part  == (n * ValidationPercent) \div 100
              valid == IF part < MinValidation THEN MinValidation ELSE part
  <2>1. /\ study'.kind = "freeze" /\ study'.rows = rows /\ study'.horizon = h
        /\ study'.fits = Chronological(rows, n, valid, h, 1) \cup {Fold(rows, n, n, n)}
    BY <1>4 DEF FreezeModel, Study
  <2>2. rows \in SUBSET Nat
    BY <1>1
  <2>. HIDE DEF rows, n, part, valid
  <2>3. \A f \in Chronological(rows, n, valid, h, 1) :
           f.train \subseteq rows /\ f.scored \subseteq rows
    BY FoldWithin DEF Chronological
  <2>4. \A f \in study'.fits : f.train \subseteq rows /\ f.scored \subseteq rows
    BY <2>1, <2>3, FoldWithin
  <2>. QED
    BY <2>1, <2>2, <2>4 DEF FitsWithin
<1>. QED
  BY <1>2, <1>3, <1>4

LEMMA StepResearchTypes ==
    ASSUME ResearchTypeOK, [Next]_vars
    PROVE  ResearchTypeOK'
<1>1. /\ artifact \in [version : Versions \cup {NoVersion}, hash : {"good", "bad"}]
      /\ loaded \in Versions \cup {NoVersion}
      /\ registry \in [Versions -> {"absent", "candidate", "paper"}]
      /\ study # NoStudy => FitsWithin(study)
  BY DEF ResearchTypeOK, FitsWithin
<1>2. SUFFICES /\ artifact' \in [version : Versions \cup {NoVersion}, hash : {"good", "bad"}]
               /\ loaded' \in Versions \cup {NoVersion}
               /\ registry' \in [Versions -> {"absent", "candidate", "paper"}]
               /\ study' # NoStudy => FitsWithin(study')
  BY DEF ResearchTypeOK, FitsWithin
<1>3. CASE UNCHANGED researchVars
  BY <1>1, <1>3 DEF researchVars
<1>4. CASE Command
  <2>1. PICK size \in 1..MaxBar : StudyNext(size)
    BY <1>4 DEF Command
  <2>2. size \in Nat
    BY DEF MarketAssumption
  <2>3. ASSUME NEW lost, NEW complete, complete = (1..size) \ lost,
               \/ \E c \in Configs : Experiment(size, complete, c)
               \/ \E h \in Horizons, e \in Embargoes : FinalEvaluation(size, complete, h, e)
               \/ \E h \in Horizons, v \in Versions : FreezeModel(size, complete, h, v)
        PROVE  /\ artifact' \in [version : Versions \cup {NoVersion}, hash : {"good", "bad"}]
               /\ UNCHANGED <<loaded, registry>>
               /\ FitsWithin(study')
    <3>1. complete \in SUBSET (1..size)
      BY <2>3
    <3>2. FitsWithin(study')
      BY <2>2, <2>3, <3>1, StudyTypes
    <3>3. CASE \E c \in Configs : Experiment(size, complete, c)
      BY <1>1, <3>2, <3>3 DEF Experiment
    <3>4. CASE \E h \in Horizons, e \in Embargoes : FinalEvaluation(size, complete, h, e)
      BY <1>1, <3>2, <3>4 DEF FinalEvaluation
    <3>5. CASE \E h \in Horizons, v \in Versions : FreezeModel(size, complete, h, v)
      <4>1. PICK v \in Versions : artifact' \in [version : {v}, hash : {"good", "bad"}]
                                  /\ UNCHANGED <<loaded, registry>>
        BY <3>5 DEF FreezeModel
      <4>2. artifact' \in [version : Versions \cup {NoVersion}, hash : {"good", "bad"}]
        BY <4>1
      <4>. QED
        BY <3>2, <4>1, <4>2
    <3>. QED
      BY <2>3, <3>3, <3>4, <3>5
  <2>8. CASE \E lost \in UNION {kSubset(k, 1..size) : k \in 0..MaxIncomplete} :
                LET complete == (1..size) \ lost IN
                \/ \E c \in Configs : Experiment(size, complete, c)
                \/ \E h \in Horizons, e \in Embargoes : FinalEvaluation(size, complete, h, e)
                \/ \E h \in Horizons, v \in Versions : FreezeModel(size, complete, h, v)
    <3>1. /\ artifact' \in [version : Versions \cup {NoVersion}, hash : {"good", "bad"}]
          /\ UNCHANGED <<loaded, registry>>
          /\ FitsWithin(study')
      BY <2>3, <2>8
    <3>. QED
      BY <1>1, <3>1
  <2>. QED
    BY <2>1, <2>8 DEF StudyNext
<1>5. CASE Exit \/ PromoteNext
  <2>1. CASE Exit
    BY <1>1, <2>1 DEF Exit
  <2>2. CASE Register
    <3>1. artifact.version \in Versions /\ UNCHANGED <<study, artifact>>
          /\ loaded' = artifact.version /\ registry' = Registered(artifact.version)
      BY <1>1, <2>2 DEF Register
    <3>2. registry' \in [Versions -> {"absent", "candidate", "paper"}]
      BY <1>1, <3>1 DEF Registered
    <3>. QED
      BY <1>1, <3>1, <3>2
  <2>3. CASE PromoteToPaper
    BY <1>1, <2>3 DEF PromoteToPaper
  <2>4. CASE PromoteDies
    BY <1>1, <2>4 DEF PromoteDies
  <2>. QED
    BY <1>5, <2>1, <2>2, <2>3, <2>4 DEF PromoteNext
<1>. QED
  BY <1>3, <1>4, <1>5 DEF Next, vars

LEMMA InitResearchTypes == Init => ResearchTypeOK
  BY DEF Init, ResearchInit, ResearchTypeOK

\* The type invariant of the pipeline.
THEOREM TypeCorrect == Spec => []TypeOK
<1>1. Init => ResearchTypeOK
  BY InitResearchTypes
<1>2. ResearchTypeOK /\ [Next]_vars => ResearchTypeOK'
  BY StepResearchTypes
<1>. QED
  BY <1>1, <1>2, FetchInvariance, PTL DEF Spec, FetchInv, TypeOK
=============================================================================
