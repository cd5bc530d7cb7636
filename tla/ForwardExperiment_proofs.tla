---------------------- MODULE ForwardExperiment_proofs ----------------------
(***************************************************************************)
(* The forward experiment for any assets, configurations, horizons and     *)
(* bounds.  Two facts carry the proof: what a program has read of an asset *)
(* is an initial segment of the journal (Prefix), so that the candles      *)
(* between a prediction and its maturity can only have been read whole;    *)
(* and the daemon judges with the journal as it is, because only the       *)
(* daemon itself adds candles and predictions (Judging).                   *)
(***************************************************************************)
EXTENDS ForwardExperiment, FiniteSetTheorems, TLAPS

USE ExperimentAssumption DEF ExperimentAssumption

Prefix ==
    \A p \in Programs, a \in Assets :
        /\ view[p][a] \subseteq closed[a]
        /\ \A u \in closed[a], v \in view[p][a] : u <= v => u \in view[p][a]

Known ==
    /\ \A p \in Programs : todo[p] \subseteq predictions
    /\ \A o \in outcomes : o.prediction \in predictions

Settled(q) ==
    Maturity(closed[q.asset], q.time, Horizon) # {} =>
        \E o \in outcomes : o.prediction = q

Judging ==
    /\ horizon["daemon"] = Horizon
    /\ settled = "yes" /\ step["daemon"] # "off" => config # None
    /\ step["daemon"] \in {"bars", "predictions", "judge"} => config # None
    /\ step["daemon"] = "warmup" => settled = "no"
    /\ step["daemon"] \in {"predictions", "judge"} => view["daemon"] = closed
    /\ step["daemon"] = "judge" =>
          \A q \in predictions : q \in todo["daemon"] \/ Settled(q)

IInv == /\ TypeOK /\ OneExperiment /\ OneOutcome /\ OutcomesStand
        /\ Prefix /\ Known /\ Judging /\ NothingOverdue

-----------------------------------------------------------------------------
\* The candles of S after t and up to u.
Passed(S, t, u) == {v \in S : t < v /\ v <= u}

\* A later candle changes nothing between a prediction and its maturity.
LEMMA AfterPrefix ==
    ASSUME NEW S \in SUBSET Int, NEW T \in SUBSET Int, S \subseteq T,
           NEW u \in S, \A w \in T, v \in S : w <= v => w \in S,
           NEW t
    PROVE  Passed(S, t, u) = Passed(T, t, u)
  BY DEF Passed

\* A prediction matures later than it was made.
LEMMA MaturityLater ==
    ASSUME NEW S \in SUBSET Int, NEW t \in Int, NEW h \in Nat \ {0},
           NEW u \in Maturity(S, t, h)
    PROVE  u \in S /\ t \in S /\ t < u /\ Cardinality(Passed(S, t, u)) = h
<1>1. u \in S /\ t \in S /\ t <= u /\ Cardinality(Passed(S, t, u)) = h
  BY DEF Maturity, After, Passed
<1>2. ASSUME u = t PROVE FALSE
  <2>1. \A v \in S : ~(t < v /\ v <= t)
    OBVIOUS
  <2>3. Passed(S, t, u) = {}
    BY <1>2, <2>1 DEF Passed
  <2>2. Cardinality(Passed(S, t, u)) = 0
    BY <2>3, FS_EmptySet
  <2>. QED
    BY <1>1, <2>2
<1>. QED
  BY <1>1, <1>2

LEMMA InitInv == Init => IInv
<1>. SUFFICES ASSUME Init PROVE IInv
  OBVIOUS
<1>1. TypeOK
  BY DEF Init, TypeOK, NoCandles, Programs, Horizons
<1>2. step["daemon"] = "off" /\ horizon["daemon"] = Horizon
  BY DEF Init, Programs
<1>3. OneExperiment /\ OneOutcome /\ OutcomesStand
  BY DEF Init, OneExperiment, OneOutcome, OutcomesStand
<1>4. Prefix /\ Known
  BY DEF Init, Prefix, Known, NoCandles
<1>5. Judging /\ NothingOverdue
  BY <1>2 DEF Judging, NothingOverdue
<1>. QED
  BY <1>1, <1>3, <1>4, <1>5 DEF IInv

-----------------------------------------------------------------------------
\* The daemon journals a candle later than all of its asset: what was read
\* stays an initial segment and what was judged stays right.
LEMMA JournalStep ==
    ASSUME IInv, NEW a \in Assets, NEW t \in Times, JournalBar(a, t),
           step["daemon"] # "off",
           NEW s \in {"warmup", "predict"}, step' = [step EXCEPT !["daemon"] = s],
           s = "predict" => bar' = [asset |-> a, time |-> t],
           s = "warmup" => UNCHANGED bar /\ settled = "no",
           UNCHANGED <<lock, predictions, outcomes, horizon, view, todo, config,
                       settled, starts, reports>>
    PROVE  IInv'
<1>. USE DEF IInv, Programs
<1>1. /\ step' = [step EXCEPT !["daemon"] = s]
      /\ closed' = [closed EXCEPT ![a] = @ \cup {t}]
      /\ \A u \in closed[a] : u < t
      /\ UNCHANGED <<lock, predictions, outcomes, horizon, view, todo, config,
                     settled, starts, reports>>
  BY DEF JournalBar, Accepts
<1>2. TypeOK'
  <2>1. closed' \in [Assets -> SUBSET Times]
    BY <1>1 DEF TypeOK
  <2>2. /\ bar' \in [asset : Assets, time : Times] \cup {None}
        /\ s = "predict" => bar' \in [asset : Assets, time : Times]
    BY DEF TypeOK
  <2>3. step' \in [Programs -> {"off", "warmup", "idle", "predict", "bars",
                               "predictions", "judge"}]
        /\ step'["daemon"] = s
    BY DEF TypeOK
  <2>. QED
    BY <1>1, <2>1, <2>2, <2>3 DEF TypeOK
<1>3. OneExperiment' /\ OneOutcome' /\ Known'
  BY <1>1 DEF OneExperiment, OneOutcome, Known
<1>4. Prefix'
  BY <1>1 DEF Prefix, TypeOK, Times
<1>5. OutcomesStand'
  <2>1. ASSUME NEW o \in outcomes
        PROVE  LET q == o.prediction
               IN  /\ {q.time, o.maturity} \subseteq closed'[q.asset]
                   /\ q.time < o.maturity
                   /\ Cardinality({v \in closed'[q.asset] : q.time < v /\ v <= o.maturity})
                         = o.horizon
                   /\ o.horizon # Horizon => o.by = "report"
    <3>. DEFINE q == o.prediction  b == q.asset
    <3>1. b \in Assets /\ q.time \in Times /\ o.maturity \in Times
      BY DEF TypeOK, Outcome, Prediction
    <3>2. /\ q.time \in closed[b] /\ o.maturity \in closed[b] /\ q.time < o.maturity
          /\ Cardinality({v \in closed[b] : q.time < v /\ v <= o.maturity}) = o.horizon
          /\ o.horizon # Horizon => o.by = "report"
      BY <2>1 DEF OutcomesStand
    <3>3. closed[b] \in SUBSET Int /\ closed'[b] \in SUBSET Int
          /\ closed[b] \subseteq closed'[b]
          /\ \A w \in closed'[b], v \in closed[b] : w <= v => w \in closed[b]
      BY <1>1, <3>1 DEF TypeOK, Times
    <3>4. {v \in closed[b] : q.time < v /\ v <= o.maturity}
             = {v \in closed'[b] : q.time < v /\ v <= o.maturity}
      BY <3>2, <3>3, AfterPrefix
    <3>. QED
      BY <3>2, <3>3, <3>4
  <2>. QED
    BY <1>1, <2>1 DEF OutcomesStand
<1>6. Judging' /\ NothingOverdue'
  <2>1. step'["daemon"] = s
    BY <1>1 DEF TypeOK
  <2>. QED
    BY <1>1, <2>1 DEF Judging, NothingOverdue
<1>. QED
  BY <1>2, <1>3, <1>4, <1>5, <1>6

\* What judging the prediction q leaves of the invariant besides the outcomes.
LEMMA JudgeFrame ==
    ASSUME IInv, NEW p \in Programs, step[p] = "judge", NEW q \in todo[p],
           UNCHANGED <<lock, closed, predictions, step, horizon, view, config,
                       bar, settled, starts, reports>>,
           todo' = [todo EXCEPT ![p] = @ \ {q}],
           \A r \in Programs : todo'[r] \subseteq predictions,
           outcomes \subseteq outcomes',
           \A o \in outcomes' : o.prediction \in predictions,
           Maturity(view[p][q.asset], q.time, horizon[p]) # {}
              => \E o \in outcomes' : o.prediction = q,
           TypeOK', OneOutcome', OutcomesStand'
    PROVE  IInv'
<1>. USE DEF IInv
<1>1. OneExperiment' /\ Prefix' /\ Known'
  BY DEF OneExperiment, Prefix, Known
<1>2. ASSUME NEW r \in predictions, Settled(r) PROVE Settled(r)'
  BY <1>2 DEF Settled, Maturity, After
<1>3. ASSUME p = "daemon" PROVE Settled(q)'
  <2>1. view[p] = closed /\ horizon[p] = Horizon
    BY <1>3 DEF Judging
  <2>2. Maturity(closed[q.asset], q.time, Horizon) # {}
           => \E o \in outcomes' : o.prediction = q
    BY <2>1
  <2>. QED
    BY <2>2 DEF Settled, Maturity, After
<1>4. \A r \in predictions :
         r \in todo["daemon"] => r \in todo'["daemon"] \/ (r = q /\ p = "daemon")
  BY DEF TypeOK, Programs
<1>5. step["daemon"] = "judge" =>
         \A r \in predictions : r \in todo'["daemon"] \/ Settled(r)'
  BY <1>2, <1>3, <1>4 DEF Judging
<1>6. Judging'
  BY <1>5 DEF Judging
<1>7. NothingOverdue'
  BY DEF NothingOverdue, Maturity, After
<1>. QED
  BY <1>1, <1>6, <1>7

\* A program judges one of the predictions it has read.
\* What matures in the candles a program has read matures in the journal.
LEMMA ReadMaturity ==
    ASSUME IInv, NEW p \in Programs, NEW q \in predictions,
           NEW u \in Maturity(view[p][q.asset], q.time, horizon[p])
    PROVE  /\ horizon[p] \in Horizons /\ u \in Times
           /\ {q.time, u} \subseteq closed[q.asset] /\ q.time < u
           /\ Cardinality(Passed(closed[q.asset], q.time, u)) = horizon[p]
<1>. USE DEF IInv
<1>. DEFINE S == view[p][q.asset]
            h == horizon[p]
<1>1. q.asset \in Assets /\ q.time \in Times
  BY DEF TypeOK, Prediction
<1>2. h \in Horizons /\ h \in Nat \ {0}
  BY DEF TypeOK, Horizons
<1>3. S \in SUBSET Times /\ closed[q.asset] \in SUBSET Times
  BY <1>1 DEF TypeOK
<1>4. S \in SUBSET Int /\ closed[q.asset] \in SUBSET Int /\ q.time \in Int
  BY <1>1, <1>3 DEF Times
<1>5. /\ S \subseteq closed[q.asset]
      /\ \A w \in closed[q.asset], v \in S : w <= v => w \in S
  BY <1>1 DEF Prefix
<1>6. u \in Maturity(S, q.time, h)
  OBVIOUS
<1>. HIDE DEF S, h
<1>7. u \in S /\ q.time \in S /\ q.time < u /\ Cardinality(Passed(S, q.time, u)) = h
  BY <1>2, <1>4, <1>6, MaturityLater
<1>8. Passed(S, q.time, u) = Passed(closed[q.asset], q.time, u)
  BY <1>4, <1>5, <1>7, AfterPrefix
<1>9. /\ h \in Horizons /\ u \in Times
      /\ {q.time, u} \subseteq closed[q.asset] /\ q.time < u
      /\ Cardinality(Passed(closed[q.asset], q.time, u)) = h
  BY <1>2, <1>3, <1>5, <1>7, <1>8
<1>. QED
  BY <1>9 DEF h

LEMMA JudgeStep ==
    ASSUME IInv, NEW p \in Programs, Judge(p)
    PROVE  IInv'
<1>. USE DEF IInv
<1>1. /\ step[p] = "judge"
      /\ UNCHANGED <<lock, closed, predictions, step, horizon, view, config,
                     bar, settled, starts, reports>>
  BY DEF Judge, daemon
<1>2. PICK q \in todo[p] :
         /\ todo' = [todo EXCEPT ![p] = @ \ {q}]
         /\ \/ \E u \in Maturity(view[p][q.asset], q.time, horizon[p]) :
                  Record([prediction |-> q, horizon |-> horizon[p], maturity |-> u, by |-> p])
            \/ /\ Maturity(view[p][q.asset], q.time, horizon[p]) = {}
               /\ UNCHANGED outcomes
  BY DEF Judge
<1>a. q \in predictions /\ q \in Prediction
  BY <1>2 DEF Known, TypeOK
<1>b. q.asset \in Assets /\ q.time \in Times
  BY <1>a DEF Prediction
<1>c. horizon[p] \in Horizons /\ horizon[p] \in Nat \ {0}
  BY DEF TypeOK, Horizons
<1>d. view[p][q.asset] \in SUBSET Times
  BY <1>b DEF TypeOK
<1>3. /\ q \in predictions /\ q \in Prediction
      /\ q.asset \in Assets /\ q.time \in Times
      /\ horizon[p] \in Horizons /\ horizon[p] \in Nat \ {0}
      /\ view[p][q.asset] \in SUBSET Times
  BY <1>a, <1>b, <1>c, <1>d
<1>4. todo' \in [Programs -> SUBSET Prediction]
      /\ \A r \in Programs : todo'[r] \subseteq predictions
  BY <1>2 DEF TypeOK, Known
<1>5. CASE UNCHANGED outcomes
  <2>1. ASSUME Maturity(view[p][q.asset], q.time, horizon[p]) # {}
        PROVE  \E o \in outcomes' : o.prediction = q
    <3>1. PICK u \in Maturity(view[p][q.asset], q.time, horizon[p]) :
             Record([prediction |-> q, horizon |-> horizon[p], maturity |-> u, by |-> p])
      BY <1>2, <2>1
    <3>2. CASE \E o \in outcomes : o.prediction = q
      BY <1>5, <3>2
    <3>3. CASE ~ \E o \in outcomes : o.prediction = q
      <4>. DEFINE o == [prediction |-> q, horizon |-> horizon[p], maturity |-> u, by |-> p]
      <4>1. outcomes' = outcomes \cup {o}
        BY <3>1, <3>3 DEF Record, Recorded, Key
      <4>2. o \in outcomes' /\ o.prediction = q
        BY <4>1
      <4>. QED
        BY <4>2
    <3>. QED
      BY <3>2, <3>3
  <2>2. TypeOK'
    BY <1>1, <1>4, <1>5 DEF TypeOK
  <2>3. OneOutcome' /\ OutcomesStand'
    BY <1>1, <1>5 DEF OneOutcome, OutcomesStand
  <2>. QED
    BY <1>1, <1>2, <1>4, <1>5, <2>1, <2>2, <2>3, JudgeFrame DEF Known
<1>6. CASE outcomes' # outcomes
  <2>1. PICK u \in Maturity(view[p][q.asset], q.time, horizon[p]) :
           Record([prediction |-> q, horizon |-> horizon[p], maturity |-> u, by |-> p])
    BY <1>2, <1>6
  <2>. DEFINE o == [prediction |-> q, horizon |-> horizon[p], maturity |-> u, by |-> p]
  <2>2. /\ outcomes' = outcomes \cup {o}
        /\ \A r \in outcomes : r.prediction # q
    BY <1>6, <2>1 DEF Record, Recorded, Key
  <2>11. /\ {q.time, u} \subseteq closed[q.asset] /\ q.time < u
         /\ Cardinality(Passed(closed[q.asset], q.time, u)) = horizon[p]
    BY <1>3, <2>1, ReadMaturity
  <2>5. o \in Outcome
    BY <1>3, <2>1, ReadMaturity DEF Outcome
  <2>9. TypeOK'
    BY <1>1, <1>4, <2>2, <2>5 DEF TypeOK
  <2>10. OneOutcome'
    BY <2>2 DEF OneOutcome
  <2>12. OutcomesStand'
    <3>1. ASSUME NEW r \in outcomes'
          PROVE  /\ {r.prediction.time, r.maturity} \subseteq closed[r.prediction.asset]
                 /\ r.prediction.time < r.maturity
                 /\ Cardinality(Passed(closed[r.prediction.asset], r.prediction.time,
                                       r.maturity)) = r.horizon
                 /\ r.horizon # Horizon => r.by = "report"
      <4>1. CASE r \in outcomes
        BY <4>1 DEF OutcomesStand, Passed
      <4>2. CASE r = o
        <5>1. r.prediction = q /\ r.maturity = u /\ r.horizon = horizon[p] /\ r.by = p
          BY <4>2
        <5>2. horizon[p] # Horizon => p = "report"
          BY DEF Judging, Programs
        <5>. QED
          BY <5>1, <5>2, <2>11
      <4>. QED
        BY <2>2, <4>1, <4>2
    <3>. QED
      BY <1>1, <3>1 DEF OutcomesStand, Passed
  <2>a. outcomes \subseteq outcomes' /\ o \in outcomes' /\ o.prediction = q
    BY <2>2
  <2>b. \A r \in outcomes' : r \in outcomes \/ r.prediction = q
    BY <2>2
  <2>13. /\ outcomes \subseteq outcomes'
         /\ \A r \in outcomes' : r.prediction \in predictions
         /\ \E r \in outcomes' : r.prediction = q
    BY <1>3, <2>a, <2>b DEF Known
  <2>. QED
    BY <1>1, <1>2, <1>4, <2>9, <2>10, <2>12, <2>13, JudgeFrame
<1>. QED
  BY <1>5, <1>6

\* What depends on the journal alone, or on the journal and the daemon, is
\* kept by a step that changes neither.
LEMMA Frame ==
    ASSUME IInv, UNCHANGED journal
    PROVE  /\ OneExperiment' /\ OneOutcome' /\ OutcomesStand'
           /\ UNCHANGED <<daemon, settled, horizon["daemon"], view["daemon"],
                          todo["daemon"], step["daemon"]>>
                 => Judging' /\ NothingOverdue'
<1>1. OneExperiment' /\ OneOutcome' /\ OutcomesStand'
  BY DEF IInv, journal, OneExperiment, OneOutcome, OutcomesStand
<1>2. \A q \in predictions : Settled(q) => Settled(q)'
  BY DEF journal, Settled, Maturity, After
<1>3. ASSUME UNCHANGED <<daemon, settled, horizon["daemon"], view["daemon"],
                         todo["daemon"], step["daemon"]>>
      PROVE  Judging' /\ NothingOverdue'
  <2>1. Judging'
    BY <1>2, <1>3 DEF IInv, journal, daemon, Judging
  <2>2. NothingOverdue'
    BY <1>3 DEF IInv, journal, NothingOverdue, Maturity, After
  <2>. QED
    BY <2>1, <2>2
<1>. QED
  BY <1>1, <1>3

LEMMA StepInv == IInv /\ [Next]_vars => IInv'
<1>. SUFFICES ASSUME IInv, [Next]_vars PROVE IInv'
  OBVIOUS
<1>. USE DEF IInv, Programs, journal, locals, daemon, Go, Forget
<1>1. ASSUME NEW c \in Configs \cup {None}, Start(c)
      PROVE  IInv'
  <2>1. /\ step["daemon"] = "off"
        /\ \E n \in {"warmup", "idle"} : step' = [step EXCEPT !["daemon"] = n]
        /\ config' = c /\ settled' = "no"
        /\ UNCHANGED <<closed, predictions, outcomes, horizon, view, todo, bar, reports>>
        /\ starts' \in 0..MaxStarts
    <3>1. CASE closed = NoCandles
      BY <1>1, <3>1 DEF Start, TypeOK
    <3>2. CASE closed # NoCandles
      BY <1>1, <3>2 DEF Start, TypeOK
    <3>. QED
      BY <3>1, <3>2
  <2>2. lock' \in Configs \cup {None} /\ (c # None => lock' = c)
        /\ (lock # None => lock' = lock)
    BY <1>1 DEF Start, MayStart, TypeOK
  <2>3. step'["daemon"] \in {"warmup", "idle"}
    BY <2>1 DEF TypeOK
  <2>4. TypeOK'
    BY <2>1, <2>2, <2>3 DEF TypeOK
  <2>5. OneExperiment'
    BY <2>1, <2>2 DEF OneExperiment, TypeOK, Prediction
  <2>. QED
    BY <2>1, <2>3, <2>4, <2>5
       DEF OneOutcome, OutcomesStand, Prefix, Known, Judging, NothingOverdue
<1>2. CASE Predict
  <2>1. /\ step["daemon"] = "predict"
        /\ step' = [step EXCEPT !["daemon"] = IF config # None THEN "bars" ELSE "idle"]
        /\ UNCHANGED <<lock, closed, outcomes, view, todo, config, bar,
                       settled, starts, reports>>
        /\ horizon' = [horizon EXCEPT !["daemon"] = Horizon]
    BY <1>2 DEF Predict
  <2>2. /\ predictions \subseteq predictions' /\ predictions' \in SUBSET Prediction
        /\ \A q \in predictions' \ predictions : q.experiment = config /\ config # None
        /\ config = None => UNCHANGED predictions
    <3>1. CASE config = None
      BY <1>2, <3>1 DEF Predict, TypeOK
    <3>2. CASE config # None
      <4>1. bar \in [asset : Assets, time : Times] /\ config \in Configs
        BY <2>1, <3>2 DEF TypeOK
      <4>. DEFINE q == [asset |-> bar.asset, time |-> bar.time,
                        experiment |-> config]
      <4>2. q \in Prediction
        BY <4>1 DEF TypeOK, Prediction
      <4>3. predictions' \in {predictions, predictions \cup {q}}
        BY <1>2, <3>2 DEF Predict
      <4>. QED
        BY <3>2, <4>2, <4>3 DEF TypeOK
    <3>. QED
      BY <3>1, <3>2
  <2>3. TypeOK'
    BY <2>1, <2>2 DEF TypeOK, Horizons
  <2>4. OneExperiment'
    BY <2>1, <2>2 DEF OneExperiment, TypeOK
  <2>5. step'["daemon"] = IF config # None THEN "bars" ELSE "idle"
    BY <2>1 DEF TypeOK
  <2>6. horizon'["daemon"] = Horizon
    BY <2>1 DEF TypeOK
  <2>7. Judging' /\ NothingOverdue'
    BY <2>1, <2>5, <2>6 DEF Judging, NothingOverdue
  <2>. QED
    BY <2>1, <2>2, <2>3, <2>4, <2>7 DEF OneOutcome, OutcomesStand, Prefix, Known
<1>3. CASE Die
  <2>1. step'["daemon"] = "off"
    BY <1>3 DEF Die, TypeOK
  <2>2. TypeOK' /\ Prefix'
    BY <1>3 DEF Die, TypeOK, Prefix, NoCandles
  <2>3. Known'
    BY <1>3 DEF Die, TypeOK, Known
  <2>. QED
    BY <1>3, <2>1, <2>2, <2>3
       DEF Die, OneExperiment, OneOutcome, OutcomesStand, Judging, NothingOverdue
<1>4. ASSUME NEW h \in ReportHorizons, Report(h)
      PROVE  IInv'
  <2>1. horizon'["daemon"] = horizon["daemon"] /\ step'["daemon"] = step["daemon"]
    BY <1>4 DEF Report, TypeOK
  <2>2. TypeOK'
    BY <1>4 DEF Report, TypeOK, Horizons
  <2>3. UNCHANGED <<journal, view, todo, daemon, settled>>
    BY <1>4 DEF Report
  <2>4. OneExperiment' /\ OneOutcome' /\ OutcomesStand' /\ Judging' /\ NothingOverdue'
    BY <2>1, <2>3, Frame
  <2>. QED
    BY <2>2, <2>3, <2>4 DEF Prefix, Known, journal
<1>5. ASSUME NEW p \in Programs, ReadBars(p)
      PROVE  IInv'
  <2>1. UNCHANGED <<journal, horizon, todo, daemon, settled, starts, reports>>
        /\ step[p] = "bars" /\ step' = [step EXCEPT ![p] = "predictions"]
        /\ view' = [view EXCEPT ![p] = closed]
    BY <1>5 DEF ReadBars
  <2>2. TypeOK'
    BY <2>1 DEF TypeOK
  <2>3. Prefix'
    BY <2>1 DEF TypeOK, Prefix
  <2>4. CASE p = "daemon"
    <3>1. step'["daemon"] = "predictions" /\ view'["daemon"] = closed
      BY <2>1, <2>4 DEF TypeOK
    <3>. QED
      BY <2>1, <2>2, <2>3, <2>4, <3>1, Frame DEF Judging, NothingOverdue, Known
  <2>5. CASE p # "daemon"
    <3>1. step'["daemon"] = step["daemon"] /\ view'["daemon"] = view["daemon"]
      BY <2>1, <2>5 DEF TypeOK
    <3>2. Judging' /\ NothingOverdue'
      BY <2>1, <3>1, Frame
    <3>. QED
      BY <2>1, <2>2, <2>3, <3>2, Frame DEF Known
  <2>. QED
    BY <2>4, <2>5
<1>6. ASSUME NEW p \in Programs, ReadPredictions(p)
      PROVE  IInv'
  <2>1. UNCHANGED <<journal, horizon, view, daemon, settled, starts, reports>>
        /\ step[p] = "predictions" /\ step' = [step EXCEPT ![p] = "judge"]
        /\ todo' = [todo EXCEPT ![p] = predictions]
    BY <1>6 DEF ReadPredictions, ToJudge, OneExperiment
  <2>2. TypeOK' /\ Known'
    BY <2>1 DEF TypeOK, Known
  <2>3. CASE p = "daemon"
    <3>1. step'["daemon"] = "judge" /\ todo'["daemon"] = predictions
      BY <2>1, <2>3 DEF TypeOK
    <3>. QED
      BY <2>1, <2>2, <2>3, <3>1, Frame DEF Judging, NothingOverdue, Prefix
  <2>4. CASE p # "daemon"
    <3>1. step'["daemon"] = step["daemon"] /\ todo'["daemon"] = todo["daemon"]
      BY <2>1, <2>4 DEF TypeOK
    <3>2. Judging' /\ NothingOverdue'
      BY <2>1, <3>1, Frame
    <3>. QED
      BY <2>1, <2>2, <3>2, Frame DEF Prefix
  <2>. QED
    BY <2>3, <2>4
<1>7. ASSUME NEW p \in Programs, Judged(p)
      PROVE  IInv'
  <2>1. /\ UNCHANGED <<journal, horizon, daemon, starts, reports>>
        /\ step[p] = "judge" /\ todo[p] = {}
        /\ view' = [view EXCEPT ![p] = NoCandles]
        /\ todo' = [todo EXCEPT ![p] = {}]
    BY <1>7 DEF Judged
  <2>2. /\ view' \in [Programs -> [Assets -> SUBSET Times]]
        /\ todo' \in [Programs -> SUBSET Prediction]
    BY <2>1 DEF TypeOK, NoCandles
  <2>3. Prefix'
    BY <2>1 DEF TypeOK, Prefix, NoCandles
  <2>4. Known'
    BY <2>1 DEF TypeOK, Known
  <2>5. CASE p = "daemon"
    <3>1. step' = [step EXCEPT ![p] = "idle"] /\ settled' = "yes"
      BY <1>7, <2>5 DEF Judged
    <3>2. step'["daemon"] = "idle"
      BY <2>5, <3>1 DEF TypeOK
    <3>3. TypeOK'
      BY <2>1, <2>2, <3>1, <3>2 DEF TypeOK
    <3>4. \A q \in predictions : Settled(q)
      BY <2>1, <2>5 DEF Judging
    <3>5. NothingOverdue'
      BY <2>1, <3>4 DEF NothingOverdue, Settled, Maturity, After
    <3>6. config # None
      BY <2>1, <2>5 DEF Judging
    <3>7. Judging'
      BY <2>1, <3>2, <3>6 DEF Judging
    <3>. QED
      BY <2>1, <2>3, <2>4, <3>3, <3>5, <3>7, Frame
  <2>6. CASE p # "daemon"
    <3>1. step' = [step EXCEPT ![p] = "off"] /\ settled' = settled
      BY <1>7, <2>6 DEF Judged
    <3>2. step'["daemon"] = step["daemon"] /\ todo'["daemon"] = todo["daemon"]
          /\ view'["daemon"] = view["daemon"]
      BY <2>1, <2>6, <3>1 DEF TypeOK
    <3>3. TypeOK'
      BY <2>1, <2>2, <3>1, <3>2 DEF TypeOK
    <3>4. Judging' /\ NothingOverdue'
      BY <2>1, <3>1, <3>2, Frame
    <3>. QED
      BY <2>1, <2>3, <2>4, <3>3, <3>4, Frame
  <2>. QED
    BY <2>5, <2>6
<1>8. ASSUME NEW a \in Assets, NEW t \in Times, Warmup(a, t) \/ AcceptBar(a, t)
      PROVE  IInv'
  <2>1. CASE Warmup(a, t)
    <3>1. step["daemon"] = "warmup" /\ step' = [step EXCEPT !["daemon"] = "warmup"]
      BY <2>1 DEF Warmup, TypeOK
    <3>2. settled = "no"
      BY <3>1 DEF Judging
    <3>. QED
      BY <2>1, <3>1, <3>2, JournalStep DEF Warmup
  <2>2. CASE AcceptBar(a, t)
    BY <2>2, JournalStep DEF AcceptBar
  <2>. QED
    BY <1>8, <2>1, <2>2
<1>9. CASE Warm
  <2>1. UNCHANGED <<journal, locals, daemon, settled, starts, reports>>
        /\ step["daemon"] = "warmup" /\ step' = [step EXCEPT !["daemon"] = "idle"]
    BY <1>9 DEF Warm
  <2>2. step'["daemon"] = "idle"
    BY <2>1 DEF TypeOK
  <2>3. TypeOK'
    BY <2>1, <2>2 DEF TypeOK
  <2>4. Prefix' /\ Known'
    BY <2>1 DEF Prefix, Known
  <2>5. Judging'
    BY <2>1, <2>2 DEF Judging
  <2>6. NothingOverdue'
    BY <2>1 DEF Judging, NothingOverdue
  <2>. QED
    BY <2>1, <2>3, <2>4, <2>5, <2>6, Frame
<1>10. CASE UNCHANGED vars
  <2>1. UNCHANGED <<journal, step, locals, daemon, settled, starts, reports>>
    BY <1>10 DEF vars
  <2>2. TypeOK'
    BY <2>1 DEF TypeOK
  <2>3. Prefix' /\ Known'
    BY <2>1 DEF Prefix, Known
  <2>. QED
    BY <2>1, <2>2, <2>3, Frame
<1>. QED
  BY <1>1, <1>2, <1>3, <1>4, <1>5, <1>6, <1>7, <1>8, <1>9, <1>10, JudgeStep DEF Next

-----------------------------------------------------------------------------
\* The inductive invariant holds of every behaviour.
LEMMA Invariance == Spec => []IInv
  BY InitInv, StepInv, PTL DEF Spec

\* The variables stay in their types, and a daemon with an experiment runs the
\* stored configuration: start_or_resume() accepts no other.
THEOREM TypeCorrect == Spec => []TypeOK
<1>1. IInv => TypeOK
  BY DEF IInv
<1>. QED
  BY <1>1, Invariance, PTL

\* A journal holds the predictions of one experiment, that of the stored
\* configuration, whatever the daemon is restarted with.
THEOREM OneLock == Spec => []OneExperiment
<1>1. IInv => OneExperiment
  BY DEF IInv
<1>. QED
  BY <1>1, Invariance, PTL

\* A daemon and a report that judge at the same time give a prediction one
\* outcome between them.
THEOREM JudgedOnce == Spec => []OneOutcome
<1>1. IInv => OneOutcome
  BY DEF IInv
<1>. QED
  BY <1>1, Invariance, PTL

\* An outcome says of the whole journal what it said of the candles it was
\* judged with, at the frozen horizon unless a report wrote it.
THEOREM OutcomesFinal == Spec => []OutcomesStand
<1>1. IInv => OutcomesStand
  BY DEF IInv
<1>. QED
  BY <1>1, Invariance, PTL

\* After its first complete cycle a daemon owes no outcome, of its own
\* predictions and of those of the processes before it.
THEOREM Timely == Spec => []NothingOverdue
<1>1. IInv => NothingOverdue
  BY DEF IInv
<1>. QED
  BY <1>1, Invariance, PTL

-----------------------------------------------------------------------------
\* The candle a cycle is about to predict is the latest of its asset.
Fresh ==
    step["daemon"] = "predict" =>
        /\ bar.time \in closed[bar.asset]
        /\ \A u \in closed[bar.asset] : u <= bar.time

LEMMA FreshStep ==
    ASSUME TypeOK, Fresh, [Next]_vars PROVE Fresh'
<1>. USE DEF Programs, journal, daemon, Go
<1>1. ASSUME NEW a \in Assets, NEW t \in Times, AcceptBar(a, t) PROVE Fresh'
  <2>1. bar'.asset = a /\ bar'.time = t
    BY <1>1 DEF AcceptBar
  <2>2. closed'[a] = closed[a] \cup {t}
    BY <1>1 DEF AcceptBar, JournalBar, TypeOK
  <2>3. \A u \in closed[a] : u < t
    BY <1>1 DEF AcceptBar, JournalBar, Accepts
  <2>4. closed[a] \in SUBSET Int /\ t \in Int
    BY DEF TypeOK, Times
  <2>. QED
    BY <2>1, <2>2, <2>3, <2>4 DEF Fresh
<1>2. ASSUME UNCHANGED <<closed, bar>>,
             step'["daemon"] = "predict" => step["daemon"] = "predict"
      PROVE  Fresh'
  BY <1>2 DEF Fresh
<1>3. ASSUME NEW c \in Configs \cup {None}, Start(c)
      PROVE  Fresh'
  BY <1>3 DEF Start, TypeOK, Fresh
<1>4. ASSUME Predict PROVE Fresh'
  BY <1>4 DEF Predict, TypeOK, Fresh
<1>5. ASSUME Die PROVE Fresh'
  BY <1>5 DEF Die, TypeOK, Fresh
<1>6. ASSUME NEW h \in ReportHorizons, Report(h) PROVE Fresh'
  <2>1. UNCHANGED <<closed, bar>> /\ step'["daemon"] = step["daemon"]
    BY <1>6 DEF Report, TypeOK
  <2>. QED
    BY <1>2, <2>1
<1>7. ASSUME NEW p \in Programs, ReadBars(p) \/ ReadPredictions(p) \/ Judge(p)
      PROVE  Fresh'
  <2>1. UNCHANGED <<closed, bar>>
    BY <1>7 DEF ReadBars, ReadPredictions, Judge
  <2>2. \/ UNCHANGED step
        \/ \E s \in {"predictions", "judge"} : step' = [step EXCEPT ![p] = s]
    BY <1>7 DEF ReadBars, ReadPredictions, Judge
  <2>3. step'["daemon"] = "predict" => step["daemon"] = "predict"
    BY <2>2 DEF TypeOK
  <2>. QED
    BY <1>2, <2>1, <2>3
<1>8. ASSUME NEW p \in Programs, Judged(p) PROVE Fresh'
  <2>1. UNCHANGED <<closed, bar>>
    BY <1>8 DEF Judged
  <2>2. \E s \in {"idle", "off"} : step' = [step EXCEPT ![p] = s]
    BY <1>8 DEF Judged
  <2>3. step'["daemon"] = "predict" => step["daemon"] = "predict"
    BY <2>2 DEF TypeOK
  <2>. QED
    BY <1>2, <2>1, <2>3
<1>9. ASSUME NEW a \in Assets, NEW t \in Times, Warmup(a, t) PROVE Fresh'
  BY <1>9 DEF Warmup, Fresh
<1>10. ASSUME Warm PROVE Fresh'
  BY <1>10 DEF Warm, TypeOK, Fresh
<1>11. CASE UNCHANGED vars
  BY <1>2, <1>11 DEF vars
<1>. QED
  BY <1>1, <1>3, <1>4, <1>5, <1>6, <1>7, <1>8, <1>9, <1>10, <1>11 DEF Next

\* No restart, gap or report makes the daemon predict a candle that is not the
\* latest it has of the asset.
THEOREM Forward == Spec => ForwardOnly
<1>1. Init => Fresh
  BY DEF Init, Fresh, Programs
<1>2. ASSUME Fresh, [Next]_vars PROVE PredictsForward \/ UNCHANGED vars
  <2>1. CASE Predict
    <3>1. \A q \in predictions' \ predictions : q.asset = bar.asset /\ q.time = bar.time
      BY <2>1 DEF Predict
    <3>2. step["daemon"] = "predict"
      BY <2>1 DEF Predict
    <3>. QED
      BY <1>2, <3>1, <3>2 DEF Fresh, PredictsForward
  <2>2. ASSUME UNCHANGED predictions PROVE PredictsForward
    BY <2>2 DEF PredictsForward
  <2>3. CASE Next /\ ~Predict
    <3>1. UNCHANGED predictions
      BY <2>3 DEF Next, Start, Warmup, Warm, AcceptBar, Die, Report, ReadBars, ReadPredictions,
         Judge, Judged, journal
    <3>. QED
      BY <2>2, <3>1
  <2>. QED
    BY <1>2, <2>1, <2>3
<1>. QED
  BY <1>1, <1>2, FreshStep, TypeCorrect, PTL DEF Spec, ForwardOnly

-----------------------------------------------------------------------------
(* The experiment implements PredictionLedger *)

LEMMA LedgerStutter ==
    ASSUME UNCHANGED journal PROVE UNCHANGED Ledger!ledgerVars
  BY DEF journal, Ledger!ledgerVars, Frozen

LEMMA LedgerClose ==
    ASSUME NEW a \in Assets, NEW t \in Times, JournalBar(a, t),
           UNCHANGED <<lock, predictions, outcomes>>
    PROVE  Ledger!Next
<1>1. Ledger!Close(a, t)
  BY DEF Ledger!Close, JournalBar, Accepts, Frozen
<1>. QED
  BY <1>1 DEF Ledger!Next

LEMMA LedgerBegin ==
    ASSUME NEW c \in Configs \cup {None}, Start(c)
    PROVE  [Ledger!Next]_Ledger!ledgerVars
<1>1. UNCHANGED <<closed, predictions, outcomes>>
  BY DEF Start
<1>2. CASE UNCHANGED lock
  BY <1>1, <1>2, LedgerStutter DEF journal
<1>3. CASE lock' # lock
  <2>1. c \in Configs /\ lock = None /\ lock' = c
    BY <1>3 DEF Start, MayStart
  <2>2. Ledger!Begin(c)
    BY <1>1, <2>1 DEF Ledger!Begin, Frozen
  <2>. QED
    BY <2>1, <2>2 DEF Ledger!Next
<1>. QED
  BY <1>2, <1>3

\* The candle of the cycle is the latest, so the ledger may predict it.
LEMMA LedgerPredict ==
    ASSUME TypeOK, Fresh, Predict
    PROVE  [Ledger!Next]_Ledger!ledgerVars
<1>1. /\ step["daemon"] = "predict"
      /\ bar.asset \in Assets /\ bar.time \in Times
      /\ UNCHANGED <<lock, closed, outcomes>>
  BY DEF Predict, TypeOK
<1>2. CASE UNCHANGED predictions
  BY <1>1, <1>2, LedgerStutter DEF journal
<1>3. CASE predictions' # predictions
  <2>1. /\ config # None
        /\ predictions' = predictions \cup
              {[asset |-> bar.asset, time |-> bar.time, experiment |-> config]}
    BY <1>3 DEF Predict
  <2>2. lock # None
        /\ predictions' = predictions \cup
              {[asset |-> bar.asset, time |-> bar.time, experiment |-> lock]}
    BY <2>1 DEF TypeOK
  <2>3. Ledger!Latest(bar.asset, bar.time)
    BY <1>1 DEF Fresh, Ledger!Latest
  <2>4. Ledger!Predict(bar.asset, bar.time)
    BY <1>1, <2>2, <2>3 DEF Ledger!Predict, Frozen
  <2>. QED
    BY <1>1, <2>4 DEF Ledger!Next
<1>. QED
  BY <1>2, <1>3

\* What was judged with an earlier read is judged with the journal as it is; an
\* outcome at another horizon is no step of the ledger.
LEMMA LedgerSettle ==
    ASSUME IInv, NEW p \in Programs, Judge(p)
    PROVE  [Ledger!Next]_Ledger!ledgerVars
<1>1. UNCHANGED <<lock, closed, predictions>>
  BY DEF Judge
<1>2. CASE UNCHANGED outcomes
  BY <1>1, <1>2, LedgerStutter DEF journal
<1>3. CASE outcomes' # outcomes
  <2>1. PICK q \in todo[p] : \E u \in Maturity(view[p][q.asset], q.time, horizon[p]) :
           Record([prediction |-> q, horizon |-> horizon[p], maturity |-> u, by |-> p])
    BY <1>3 DEF Judge
  <2>2. PICK u \in Maturity(view[p][q.asset], q.time, horizon[p]) :
           Record([prediction |-> q, horizon |-> horizon[p], maturity |-> u, by |-> p])
    BY <2>1
  <2>. DEFINE o == [prediction |-> q, horizon |-> horizon[p], maturity |-> u, by |-> p]
  <2>3. q \in predictions
    BY DEF IInv, Known
  <2>4. /\ \A r \in outcomes : r.prediction # q
        /\ outcomes' = outcomes \cup {o}
    BY <1>3, <2>2 DEF Record, Recorded, Key
  <2>5. /\ u \in closed[q.asset] /\ q.time < u
        /\ Cardinality(Passed(closed[q.asset], q.time, u)) = horizon[p]
    BY <2>3, ReadMaturity
  <2>6. /\ o.prediction = q /\ o.maturity = u /\ o.horizon = horizon[p]
    OBVIOUS
  <2>. HIDE DEF o
  <2>7. CASE horizon[p] = Horizon
    <3>1. Frozen' = Frozen \cup {[prediction |-> q, maturity |-> u]}
      BY <2>4, <2>6, <2>7 DEF Frozen
    <3>2. \A r \in Frozen : r.prediction # q
      BY <2>4 DEF Frozen
    <3>3. Ledger!Cardinality(Ledger!Since(q, u)) = Horizon
      BY <2>5, <2>7, Zenon DEF Ledger!Since, Passed, Cardinality, Ledger!Cardinality
    <3>4. Ledger!Settle(q, u)
      BY <1>1, <2>5, <3>1, <3>2, <3>3 DEF Ledger!Settle
    <3>. QED
      BY <2>3, <2>5, <3>4 DEF Ledger!Next
  <2>8. CASE horizon[p] # Horizon
    <3>1. Frozen' = Frozen
      BY <2>4, <2>6, <2>8 DEF Frozen
    <3>. QED
      BY <1>1, <3>1 DEF Ledger!ledgerVars
  <2>. QED
    BY <2>7, <2>8
<1>. QED
  BY <1>2, <1>3

LEMMA LedgerStep ==
    ASSUME IInv, Fresh, [Next]_vars
    PROVE  [Ledger!Next]_Ledger!ledgerVars
<1>1. ASSUME NEW c \in Configs \cup {None}, Start(c)
      PROVE  [Ledger!Next]_Ledger!ledgerVars
  BY <1>1, LedgerBegin
<1>2. ASSUME NEW a \in Assets, NEW t \in Times, Warmup(a, t) \/ AcceptBar(a, t)
      PROVE  [Ledger!Next]_Ledger!ledgerVars
  <2>1. JournalBar(a, t) /\ UNCHANGED <<lock, predictions, outcomes>>
    BY <1>2 DEF Warmup, AcceptBar
  <2>. QED
    BY <2>1, LedgerClose
<1>3. CASE Predict
  BY <1>3, LedgerPredict DEF IInv
<1>4. ASSUME NEW p \in Programs, Judge(p)
      PROVE  [Ledger!Next]_Ledger!ledgerVars
  BY <1>4, LedgerSettle
<1>5. CASE UNCHANGED journal
  BY <1>5, LedgerStutter
<1>6. CASE \/ Warm \/ Die \/ UNCHANGED vars
           \/ \E h \in ReportHorizons : Report(h)
           \/ \E p \in Programs : ReadBars(p) \/ ReadPredictions(p) \/ Judged(p)
  <2>1. UNCHANGED journal
    BY <1>6 DEF Warm, Die, Report, ReadBars, ReadPredictions, Judged, vars
  <2>. QED
    BY <1>5, <2>1
<1>. QED
  BY <1>1, <1>2, <1>3, <1>4, <1>6 DEF Next

\* Two programs that judge from what they read earlier, a daemon that dies
\* anywhere and restarts with any configuration are together the experiment of
\* PredictionLedger: every prediction is about the latest candle, is judged at
\* most once at the frozen horizon and in one step, and nothing is changed
\* afterwards.
THEOREM Implements == Spec => LedgerSpec
<1>1. Init => Ledger!Init
  BY DEF Init, Ledger!Init, NoCandles, Frozen
<1>2. Init => Fresh
  BY DEF Init, Fresh, Programs
<1>3. IInv /\ Fresh /\ [Next]_vars => Fresh'
  BY FreshStep DEF IInv
<1>4. IInv /\ Fresh /\ [Next]_vars => [Ledger!Next]_Ledger!ledgerVars
  BY LedgerStep
<1>. QED
  BY <1>1, <1>2, <1>3, <1>4, Invariance, PTL DEF Spec, LedgerSpec, Ledger!Spec
=============================================================================
